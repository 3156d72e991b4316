---------------------------- MODULE HscpSession ----------------------------
(***************************************************************************)
(* The copy protocol of hscp.cpp between a source and a sink: the records  *)
(* and replies of scp on a pair of pipes (through ssh), and the files'     *)
(* contents on a UDT connection beside them.                               *)
(*                                                                         *)
(*   source, rsource   announce what is to be copied, wait for a reply to  *)
(*                     each record, send the contents (UDTScp::sendfile)   *)
(*   sink              creates files and directories, receives the         *)
(*                     contents (UDTScp::recvfile), answers                *)
(*   response, run_err read and write a reply: NUL, or \01 and a message   *)
(*                                                                         *)
(* Nothing in a reply says which record it answers, and nothing in the     *)
(* data stream says which file a byte is of: all rests on the two sides    *)
(* staying in step, whatever fails on either of them.                      *)
(*                                                                         *)
(* Abstractions.  The tree that source and rsource walk is given in the    *)
(* order of the walk.  A record, a reply, a unit of data is a value that   *)
(* names the item it belongs to; the code's have no such name, and no      *)
(* guard reads it.  A session starts where the two are connected and the   *)
(* first NUL of the sink is written.                                       *)
(***************************************************************************)
EXTENDS Integers, Sequences

CONSTANTS
    Walk,       \* the items, in the order of the walk (see WalkOK)
    Protocols,  \* values of hscp_protocol: 0, the size goes ahead of the data; 1
    Faults,     \* what may fail (the strings given to Fault below)
    MaxFaults   \* bound: failures in one session

(* An item is a file of size units, the start of a directory or its end;   *)
(* skip is the item that follows when it is left out.                      *)
Item == [kind : {"file", "dir", "end"}, size : Nat, skip : Nat]

ASSUME SessionAssumption ==
    /\ Walk \in Seq(Item)
    /\ \A n \in 1..Len(Walk) : Walk[n].skip \in (n + 1)..(Len(Walk) + 1)
    /\ Protocols \subseteq {0, 1} /\ Protocols # {}
    /\ MaxFaults \in Nat

Items == 1..Len(Walk)

VARIABLES
    \* the command line
    client,     \* which side is hscp -t/-f's caller: "source" or "sink"
    pflag,
    protocol,   \* hscp_protocol
    \* source
    pos,        \* the item that source has come to
    srcPc,      \* "item", a sort of reply it waits for, "open", "data", "done"
    srcLeft,    \* units sendfile has still to send
    srcErr,     \* errs # 0
    srcExit,    \* how it ended: "no", "ok", "err", "protocol"
    \* sink
    stack,      \* the nested calls of sink: the directory, and the item of a pending T
    snkPc,      \* "read", "size", "recv", "resp" or "done"
    cur,        \* the file being received
    snkErr, snkExit,
    stored,     \* what the sink made of each item
    \* the pipes and the connection
    toSink, toSource, data,
    faults,     \* failures left, and those that happened
    content     \* ghost: units the file held when it was sent

srcVars == <<pos, srcPc, srcLeft, srcErr, srcExit, content>>
snkVars == <<stack, snkPc, cur, snkErr, snkExit, stored>>
optVars == <<client, pflag, protocol>>
vars == <<optVars, srcVars, snkVars, toSink, toSource, data, faults>>

Nothing == [whole |-> FALSE, data |-> <<>>, times |-> 0, done |-> FALSE]
NoFile  == [item |-> 0, left |-> 0, got |-> <<>>, failed |-> FALSE]

Fault(f) ==
    /\ f \in Faults /\ faults.left > 0
    /\ faults' = [left |-> faults.left - 1, had |-> faults.had \cup {f}]

None(F) == F \cap faults.had = {}        \* none of F happened

(* The UDT connection is broken: both sides live, and no data gets through. *)
Broken == ~None({"break"})

(* A reply to record what of item n.                                       *)
Ok(what, n)  == [ok |-> TRUE, what |-> what, item |-> n]
Bad(what, n) == [ok |-> FALSE, what |-> what, item |-> n]

Record(what, n) == [what |-> what, item |-> n]

Size(n) == IF n \in Items THEN Walk[n].size ELSE 0

SrcGone == srcExit # "no"
SnkGone == snkExit # "no"

-----------------------------------------------------------------------------
Init ==
    /\ client \in {"source", "sink"} /\ pflag \in BOOLEAN /\ protocol \in Protocols
    /\ pos = 0 /\ srcPc = "start" /\ srcLeft = 0 /\ srcErr = FALSE /\ srcExit = "no"
    /\ stack = <<[dir |-> 0, times |-> 0]>> /\ snkPc = "read" /\ cur = NoFile
    /\ snkErr = FALSE /\ snkExit = "no"
    /\ stored = [n \in Items |-> Nothing]
    /\ toSink = <<>> /\ toSource = <<Ok("start", 0)>> /\ data = <<>>
    /\ faults = [left |-> MaxFaults, had |-> {}]
    /\ content = [n \in Items |-> Size(n)]

(***************************************************************************)
(* The source.                                                             *)
(***************************************************************************)
Put(r) == toSink' = Append(toSink, r)

(* The record that announces item n: C, D, or the E of a directory.        *)
Announce(n) == Record(IF Walk[n].kind = "end" THEN "E" ELSE "CD", n)

(* An item cannot be read (open, fstat, opendir, not a regular file): the  *)
(* source tells the sink, and awaits no reply.                             *)
SourceFails ==
    /\ srcPc = "item" /\ pos \in Items /\ Walk[pos].kind # "end"
    /\ Fault("open")
    /\ Put(Record("error", pos)) /\ srcErr' = TRUE
    /\ pos' = Walk[pos].skip
    /\ UNCHANGED <<optVars, srcPc, srcLeft, srcExit, content, snkVars, toSource, data>>

(* What is announced first: the times with -p, else the item itself.       *)
Announces(n, what) ==
    IF pflag THEN Put(Record("T", n)) /\ srcPc' = "T" ELSE Put(Announce(n)) /\ srcPc' = what

AnnounceFile ==
    /\ srcPc = "item" /\ pos \in Items /\ Walk[pos].kind = "file"
    /\ Announces(pos, "CD")
    /\ UNCHANGED <<optVars, pos, srcLeft, srcErr, srcExit, content, snkVars, toSource,
                   data, faults>>

AnnounceDir ==
    /\ srcPc = "item" /\ pos \in Items /\ Walk[pos].kind = "dir"
    /\ Announces(pos, "CD")
    /\ UNCHANGED <<optVars, pos, srcLeft, srcErr, srcExit, content, snkVars, toSource,
                   data, faults>>

(* The directory has been walked through.                                  *)
LeaveDir ==
    /\ srcPc = "item" /\ pos \in Items /\ Walk[pos].kind = "end"
    /\ Put(Announce(pos)) /\ srcPc' = "E"
    /\ UNCHANGED <<optVars, pos, srcLeft, srcErr, srcExit, content, snkVars, toSource,
                   data, faults>>

(* response() returns: what source does next depends on what it waits for. *)
(* A refused T or C or D leaves the item out.                              *)
SkipsItem(what, ok) == ~ok /\ what \in {"T", "CD"}

SourceResponse ==
    /\ srcPc \in {"start", "T", "CD", "final", "E"} /\ toSource # <<>>
    /\ LET ok == Head(toSource).ok IN
       /\ srcErr' = (srcErr \/ ~ok)
       /\ \/ /\ SkipsItem(srcPc, ok)
             /\ pos' = Walk[pos].skip /\ srcPc' = "item" /\ UNCHANGED toSink
          \/ /\ ~SkipsItem(srcPc, ok) /\ srcPc = "T"
             /\ Put(Announce(pos)) /\ srcPc' = "CD" /\ UNCHANGED pos
          \/ /\ ~SkipsItem(srcPc, ok) /\ srcPc = "CD" /\ Walk[pos].kind = "file"
             /\ srcPc' = "open" /\ UNCHANGED <<pos, toSink>>
          \/ /\ ~SkipsItem(srcPc, ok)
             /\ \/ srcPc \in {"start", "final", "E"}
                \/ srcPc = "CD" /\ Walk[pos].kind = "dir"
             /\ pos' = pos + 1 /\ srcPc' = "item" /\ UNCHANGED toSink
    /\ toSource' = Tail(toSource)
    /\ UNCHANGED <<optVars, srcLeft, srcExit, content, snkVars, data, faults>>

(* allocbuf fails (its fstat does) though the sink has accepted the file:  *)
(* an error record, and source goes on to the next.                        *)
SourceDropsFile ==
    /\ srcPc = "CD" /\ Walk[pos].kind = "file" /\ toSource # <<>> /\ Head(toSource).ok
    /\ Fault("nobuffer")
    /\ Put(Record("error", pos)) /\ srcErr' = TRUE
    /\ pos' = Walk[pos].skip /\ srcPc' = "item" /\ toSource' = Tail(toSource)
    /\ UNCHANGED <<optVars, srcLeft, srcExit, content, snkVars, data>>

(* UDTScp::sendfile opens the file again.  In protocol 1 the announced     *)
(* size is sent, in protocol 0 the size it has now, ahead of the data: -1  *)
(* of a file that cannot be opened any more.  When that size cannot be     *)
(* sent, sendfile returns 0, as if the file had been.                      *)
SizeAhead(n, k) == [item |-> n, what |-> "size", size |-> k]
Unit(n) == [item |-> n, what |-> "unit", size |-> 1]

Send(x) == data' = IF Broken THEN data ELSE Append(data, x)

OpenFile ==
    /\ srcPc = "open" /\ srcPc' = "data"
    /\ \/ protocol = 1 /\ srcLeft' = Size(pos) /\ UNCHANGED <<content, data, faults>>
       \/ /\ protocol = 0
          /\ \E k \in 0..Size(pos) :
                /\ IF k < Size(pos) THEN Fault("resize") ELSE UNCHANGED faults
                /\ srcLeft' = k /\ content' = [content EXCEPT ![pos] = k]
                /\ Send(SizeAhead(pos, k))
       \/ /\ protocol = 0 /\ Fault("gone")
          /\ srcLeft' = 0 /\ Send(SizeAhead(pos, -1)) /\ UNCHANGED content
       \/ /\ protocol = 0 /\ (Broken \/ SnkGone)
          /\ srcLeft' = 0 /\ UNCHANGED <<content, data, faults>>
    /\ UNCHANGED <<optVars, pos, srcErr, srcExit, snkVars, toSink, toSource>>

SendUnit ==
    /\ srcPc = "data" /\ srcLeft > 0
    /\ Send(Unit(pos)) /\ srcLeft' = srcLeft - 1
    /\ UNCHANGED <<optVars, pos, srcPc, srcErr, srcExit, content, snkVars, toSink,
                   toSource, faults>>

(* The file ends before its size, or cannot be read: sendfile returns.     *)
FileEndsEarly ==
    /\ srcPc = "data" /\ srcLeft > 0
    /\ Fault("shrink")
    /\ srcLeft' = 0 /\ content' = [content EXCEPT ![pos] = @ - srcLeft]
    /\ UNCHANGED <<optVars, pos, srcPc, srcErr, srcExit, snkVars, toSink, toSource, data>>

(* haderr = 0: the NUL goes out whatever sendfile sent.                    *)
SendDone ==
    /\ srcPc = "data" /\ srcLeft = 0
    /\ Put(Record("nul", pos)) /\ srcPc' = "final"
    /\ UNCHANGED <<optVars, pos, srcLeft, srcErr, srcExit, content, snkVars, toSource,
                   data, faults>>

ExitOf(err) == IF err THEN "err" ELSE "ok"

SourceExits(how) == srcPc' = "done" /\ srcExit' = how

SourceEnds ==
    /\ srcPc = "item" /\ pos > Len(Walk)
    /\ SourceExits(ExitOf(srcErr))
    /\ UNCHANGED <<optVars, pos, srcLeft, srcErr, content, snkVars, toSink, toSource, data,
                   faults>>

(* UDT::sendfile fails: SIGTERM.                                           *)
SendFails ==
    /\ srcPc = "data" /\ srcLeft > 0 /\ (Broken \/ SnkGone)
    /\ SourceExits("err")
    /\ UNCHANGED <<optVars, pos, srcLeft, srcErr, content, snkVars, toSink, toSource, data,
                   faults>>

(* The sink is gone: response() meets the end of its pipe.                 *)
SourceLosesSink ==
    /\ srcPc \in {"start", "T", "CD", "final", "E"} /\ SnkGone /\ toSource = <<>>
    /\ SourceExits("err")
    /\ UNCHANGED <<optVars, pos, srcLeft, srcErr, content, snkVars, toSink, toSource, data,
                   faults>>

(* What had not got through to the sink is lost with the connection.       *)
CutOff == \E k \in 0..Len(data) : data' = SubSeq(data, 1, k)

SourceKilled ==
    /\ ~SrcGone /\ Fault("kill") /\ SourceExits("err") /\ CutOff
    /\ UNCHANGED <<optVars, pos, srcLeft, srcErr, content, snkVars, toSink, toSource>>

ConnectionBreaks ==
    /\ Fault("break") /\ CutOff
    /\ UNCHANGED <<optVars, srcVars, snkVars, toSink, toSource>>

-----------------------------------------------------------------------------
(***************************************************************************)
(* The sink.                                                               *)
(***************************************************************************)
Next1 == Head(toSink)
Reply(R) == toSource' = toSource \o R
Depth == Len(stack)
Times(d) == stack[d].times
SetTimes(d, n) == stack' = [stack EXCEPT ![d].times = n]

Reads(what) == snkPc = "read" /\ toSink # <<>> /\ Next1.what = what /\ toSink' = Tail(toSink)

(* An error of the source is counted; no reply is due.                     *)
SinkHearsError ==
    /\ Reads("error") /\ snkErr' = TRUE
    /\ UNCHANGED <<optVars, srcVars, stack, snkPc, cur, snkExit, stored, toSource, data, faults>>

SinkTakesTimes ==
    /\ Reads("T") /\ SetTimes(Depth, Next1.item) /\ Reply(<<Ok("T", Next1.item)>>)
    /\ UNCHANGED <<optVars, srcVars, snkPc, cur, snkErr, snkExit, stored, data, faults>>

(* The file cannot be opened for writing, or the directory not be made:    *)
(* run_err is the reply.                                                   *)
RefusesSilently(n) == <<>>              \* mutant: the sink only continues
Refusal(n) == <<Bad("CD", n)>>

SinkRefuses ==
    /\ Reads("CD") /\ Fault("create")
    /\ Reply(Refusal(Next1.item)) /\ snkErr' = TRUE
    /\ UNCHANGED <<optVars, srcVars, stack, snkPc, cur, snkExit, stored, data>>

(* A directory is there: sink calls itself, and that call answers.         *)
SinkEntersDir ==
    /\ Reads("CD") /\ Walk[Next1.item].kind = "dir"
    /\ Reply(<<Ok("CD", Next1.item)>>)
    /\ stack' = Append(stack, [dir |-> Next1.item, times |-> 0])
    /\ UNCHANGED <<optVars, srcVars, snkPc, cur, snkErr, snkExit, stored, data, faults>>

SinkOpensFile ==
    /\ Reads("CD") /\ Walk[Next1.item].kind = "file"
    /\ Reply(<<Ok("CD", Next1.item)>>)
    /\ snkPc' = IF protocol = 1 THEN "recv" ELSE "size"
    /\ cur' = [NoFile EXCEPT !.item = Next1.item, !.left = Size(Next1.item)]
    /\ UNCHANGED <<optVars, srcVars, stack, snkErr, snkExit, stored, data, faults>>

(* The calling frame again, its pending times used up.                     *)
Popped == [SubSeq(stack, 1, Depth - 1) EXCEPT ![Depth - 1].times = 0]

(* sink returns, with R as its replies.  The call that called it sets the  *)
(* directory's times, and tells the source when it cannot.                 *)
SinkReturns(R) ==
    \/ /\ Depth = 1
       /\ snkPc' = "done" /\ snkExit' = ExitOf(snkErr) /\ Reply(R)
       /\ UNCHANGED <<stack, snkErr, stored, faults>>
    \/ /\ Depth > 1 /\ Times(Depth - 1) # 0 /\ Fault("dirtimes")
       /\ Reply(R \o <<Bad("times", stack[Depth].dir)>>) /\ snkErr' = TRUE
       /\ stack' = Popped
       /\ stored' = [stored EXCEPT ![stack[Depth].dir].done = TRUE]
       /\ UNCHANGED <<snkPc, snkExit>>
    \/ /\ Depth > 1 /\ Reply(R)
       /\ stack' = Popped
       /\ stored' = [stored EXCEPT ![stack[Depth].dir].done = TRUE,
                                   ![stack[Depth].dir].times = Times(Depth - 1)]
       /\ UNCHANGED <<snkPc, snkErr, snkExit, faults>>

AnswersTwice(n) == <<Ok("E", n), Bad("E", n)>>  \* mutant: a failed chmod is told too
EndReply(n) == <<Ok("E", n)>>

SinkEndsDir ==
    /\ Reads("E") /\ SinkReturns(EndReply(Next1.item))
    /\ UNCHANGED <<optVars, srcVars, cur, data>>

(* End of file on the pipe: every nested call of sink returns.             *)
SinkMeetsEnd ==
    /\ snkPc = "read" /\ toSink = <<>> /\ SrcGone
    /\ SinkReturns(<<>>)
    /\ UNCHANGED <<optVars, srcVars, cur, toSink, data>>

(* Anything else is a protocol error: run_err, and the end.  A NUL has no  *)
(* newline: sink reads on to the end of the record behind it, or of file.  *)
LineEnds == SrcGone \/ \E i \in 2..Len(toSink) : toSink[i].what # "nul"

SinkScrewsUp ==
    /\ Reads("nul") /\ LineEnds
    /\ Reply(<<Bad("protocol", 0)>>) /\ snkErr' = TRUE
    /\ snkPc' = "done" /\ snkExit' = "protocol"
    /\ UNCHANGED <<optVars, srcVars, stack, cur, stored, data, faults>>

(* UDTScp::recvfile.  In protocol 0 the size is read from the connection,  *)
(* and nothing more when it is not positive.                               *)
Awaited(size) == IF size > 0 THEN size ELSE 0

RecvSize ==
    /\ snkPc = "size" /\ data # <<>> /\ Head(data).what = "size"
    /\ cur' = [cur EXCEPT !.left = Awaited(Head(data).size)] /\ data' = Tail(data)
    /\ snkPc' = "recv"
    /\ UNCHANGED <<optVars, srcVars, stack, snkErr, snkExit, stored, toSink, toSource, faults>>

(* No data comes any more.                                                 *)
Dry == data = <<>> /\ (Broken \/ SrcGone)

(* The size does not come: recvfile returns 0, as if the file had come, and *)
(* leaves it as it was opened.                                             *)
SizeNeverComes ==
    /\ snkPc = "size" /\ Dry
    /\ cur' = [cur EXCEPT !.left = 0] /\ snkPc' = "recv"
    /\ UNCHANGED <<optVars, srcVars, stack, snkErr, snkExit, stored, toSink, toSource, data,
                   faults>>

AllReceived == cur.left = 0

RecvUnit ==
    /\ snkPc = "recv" /\ ~AllReceived /\ data # <<>>
    /\ cur' = [cur EXCEPT !.left = @ - 1, !.got = Append(@, Head(data).item)]
    /\ data' = Tail(data)
    /\ UNCHANGED <<optVars, srcVars, stack, snkPc, snkErr, snkExit, stored, toSink, toSource,
                   faults>>

(* The file is whole.  When its mode cannot be set, that is the reply.     *)
RecvDone ==
    /\ snkPc = "recv" /\ AllReceived /\ snkPc' = "resp"
    /\ stored' = [stored EXCEPT ![cur.item].whole = TRUE, ![cur.item].data = cur.got]
    /\ \/ /\ Fault("chmod") /\ snkErr' = TRUE /\ Reply(<<Bad("final", cur.item)>>)
          /\ cur' = [cur EXCEPT !.failed = TRUE]
       \/ UNCHANGED <<cur, snkErr, toSource, faults>>
    /\ UNCHANGED <<optVars, srcVars, stack, snkExit, toSink, data>>

(* response() returns with the source's verdict; the times are set, and    *)
(* the final reply goes out, if none has yet.                              *)
SinkFinishesFile ==
    /\ snkPc = "resp" /\ toSink # <<>> /\ Next1.what \in {"nul", "error"}
    /\ toSink' = Tail(toSink) /\ snkPc' = "read" /\ cur' = NoFile
    /\ LET n == cur.item
           heard == snkErr \/ Next1.what = "error"
       IN
       \/ /\ cur.failed
          /\ snkErr' = heard /\ UNCHANGED <<stack, stored, toSource, faults>>
       \/ /\ ~cur.failed /\ Times(Depth) # 0 /\ Fault("utimes")
          /\ SetTimes(Depth, 0) /\ Reply(<<Bad("final", n)>>) /\ snkErr' = TRUE
          /\ UNCHANGED stored
       \/ /\ ~cur.failed
          /\ SetTimes(Depth, 0) /\ Reply(<<Ok("final", n)>>) /\ snkErr' = heard
          /\ stored' = [stored EXCEPT ![n].done = TRUE, ![n].times = Times(Depth)]
          /\ UNCHANGED faults
    /\ UNCHANGED <<optVars, srcVars, snkExit, data>>

(* response() reads a record instead of a verdict, and exits.              *)
SinkMisreads ==
    /\ snkPc = "resp" /\ toSink # <<>> /\ Next1.what \notin {"nul", "error"}
    /\ toSink' = Tail(toSink) /\ snkErr' = TRUE
    /\ snkPc' = "done" /\ snkExit' = "protocol"
    /\ UNCHANGED <<optVars, srcVars, stack, cur, stored, toSource, data, faults>>

(* UDT::recvfile fails: SIGTERM.  Or the source is gone, and response()    *)
(* meets the end of its pipe.                                              *)
SinkLosesSource ==
    /\ \/ snkPc = "recv" /\ ~AllReceived /\ Dry
       \/ snkPc = "resp" /\ toSink = <<>> /\ SrcGone
    /\ snkPc' = "done" /\ snkExit' = "err"
    /\ UNCHANGED <<optVars, srcVars, stack, cur, snkErr, stored, toSink, toSource, data, faults>>

(* Killed, or the disk is full: recvfile got less than the size, SIGTERM.  *)
SinkKilled ==
    /\ ~SnkGone /\ Fault("kill")
    /\ snkPc' = "done" /\ snkExit' = "err"
    /\ UNCHANGED <<optVars, srcVars, stack, cur, snkErr, stored, toSink, toSource, data>>

(* Both processes have ended.                                              *)
Finished == SrcGone /\ SnkGone /\ UNCHANGED vars

-----------------------------------------------------------------------------
SourceStep ==
    \/ SourceFails \/ AnnounceFile \/ AnnounceDir \/ LeaveDir \/ SourceResponse
    \/ SourceDropsFile \/ OpenFile \/ SendUnit \/ FileEndsEarly \/ SendDone
    \/ SendFails \/ SourceEnds \/ SourceLosesSink

SinkStep ==
    \/ SinkHearsError \/ SinkTakesTimes \/ SinkRefuses \/ SinkEntersDir \/ SinkOpensFile
    \/ SinkEndsDir \/ SinkMeetsEnd \/ SinkScrewsUp
    \/ RecvSize \/ SizeNeverComes \/ RecvUnit \/ RecvDone \/ SinkFinishesFile \/ SinkMisreads
    \/ SinkLosesSource

Next == SourceStep \/ SinkStep \/ SourceKilled \/ SinkKilled \/ ConnectionBreaks \/ Finished

(* Both processes run.                                                     *)
Spec == Init /\ [][Next]_vars /\ WF_vars(SourceStep) /\ WF_vars(SinkStep)

-----------------------------------------------------------------------------
(***************************************************************************)
(* Properties                                                              *)
(***************************************************************************)
Exits == {"no", "ok", "err", "protocol"}

(* Every variable has a value of its type.                                 *)
TypeOK ==
    /\ client \in {"source", "sink"} /\ pflag \in BOOLEAN /\ protocol \in Protocols
    /\ pos \in 0..(Len(Walk) + 1)
    /\ srcPc \in {"start", "item", "T", "CD", "open", "data", "final", "E", "done"}
    /\ srcLeft \in Nat /\ srcErr \in BOOLEAN /\ srcExit \in Exits
    /\ content \in [Items -> Nat]
    /\ stack \in Seq([dir : 0..Len(Walk), times : 0..Len(Walk)]) /\ stack # <<>>
    /\ snkPc \in {"read", "size", "recv", "resp", "done"}
    /\ cur \in [item : 0..Len(Walk), left : Nat, got : Seq(Items), failed : BOOLEAN]
    /\ snkErr \in BOOLEAN /\ snkExit \in Exits
    /\ stored \in [Items -> [whole : BOOLEAN, data : Seq(Items), times : 0..Len(Walk),
                             done : BOOLEAN]]
    /\ toSink \in Seq([what : {"T", "CD", "E", "nul", "error"}, item : Items])
    /\ toSource \in Seq([ok : BOOLEAN, item : 0..Len(Walk),
                         what : {"start", "T", "CD", "final", "E", "times", "protocol"}])
    /\ data \in Seq([item : Items, what : {"size", "unit"}, size : {-1} \cup Nat])
    /\ faults \in [left : 0..MaxFaults, had : SUBSET Faults]

(* The failures after which one side has said more than the other awaits:  *)
(* run_err writes of a directory's times when no reply is due, and of a    *)
(* failed allocbuf when the sink is waiting for the file.                  *)
Steady == None({"dirtimes", "nobuffer"})

(* The two sides stay in step: the replies on their way answer, in order,  *)
(* what the source waits for next.  The final reply of a file may be there *)
(* before the source is done sending it, or has seen that it may.          *)
InStep ==
    LET whats == [i \in 1..Len(toSource) |-> toSource[i].what] IN
    Steady /\ ~SrcGone /\ toSource # <<>> =>
        /\ \A i \in 1..Len(toSource) : toSource[i].item = pos
        /\ \/ whats = <<srcPc>>
           \/ srcPc = "CD" /\ whats = <<"CD", "final">>
           \/ srcPc \in {"open", "data"} /\ whats = <<"final">>

(* The sink has all of a file, as it was when it was sent, and no more.    *)
AllOf(n) == stored[n].data = [i \in 1..content[n] |-> n]

(* The sink takes a file for whole of which it has nothing: in protocol 0, *)
(* when one of F has happened.                                             *)
EmptyAfter(F, n) == protocol = 0 /\ ~None(F) /\ stored[n].data = <<>>

(* A file the sink has taken for whole holds the contents of the file it   *)
(* is named after, all of them, and nothing else; times that are set on a  *)
(* file or directory are its own.  Not so once they are out of step; and   *)
(* in protocol 0 it holds nothing at all when it was gone as it was to be  *)
(* sent, or when its size did not come, for the connection is broken or    *)
(* the source is dead.                                                     *)
RightContents ==
    Steady => \A n \in Items :
        /\ stored[n].whole => AllOf(n) \/ EmptyAfter({"gone", "break", "kill"}, n)
        /\ stored[n].times \in {0, n}

(* The end of main: errs, and the exit status of the ssh process.          *)
ClientExit == IF client = "source" THEN srcExit ELSE snkExit
ServerExit == IF client = "source" THEN snkExit ELSE srcExit
IgnoresSsh == ClientExit = "ok"         \* mutant: waitpid is left out
ExitsZero == ClientExit = "ok" /\ ServerExit = "ok"

(* When hscp exits with status 0, every item was copied, a file with all   *)
(* of its contents, and with -p has the times of its original.  In         *)
(* protocol 0 the status does not tell of a file that was gone, or of a    *)
(* broken connection: there are files then with nothing in them.           *)
SuccessIsComplete ==
    SrcGone /\ SnkGone /\ ExitsZero =>
        \A n \in Items : Walk[n].kind # "end" =>
            /\ stored[n].done
            /\ Walk[n].kind = "file" =>
                  stored[n].whole /\ (AllOf(n) \/ EmptyAfter({"gone", "break"}, n))
            /\ pflag => stored[n].times = n

(* Whatever fails, both processes end; but not when a file has become      *)
(* shorter than was announced, or was dropped after the sink accepted it:  *)
(* the source then waits for a reply, and the sink for the rest of it.     *)
Termination == <>((SrcGone /\ SnkGone) \/ ~None({"shrink", "nobuffer"}))

=============================================================================
