------------------------- MODULE HscpSessionProofs -------------------------
(***************************************************************************)
(* Proofs about the copy protocol, for every tree, either protocol and any *)
(* number of the failures modelled: the two sides stay in step although no *)
(* reply says what it answers, a file gets its own contents and times, and *)
(* a status of 0 means that everything was copied, with the exceptions     *)
(* that the properties name.                                               *)
(***************************************************************************)
EXTENDS HscpSession, TLAPS

Receiving == snkPc \in {"size", "recv", "resp"}

Frame  == [dir : 0..Len(Walk), times : 0..Len(Walk)]
Copy   == [whole : BOOLEAN, data : Seq(Items), times : 0..Len(Walk), done : BOOLEAN]
Rec    == [what : {"T", "CD", "E", "nul", "error"}, item : Items]
Answer == [ok : BOOLEAN, item : 0..Len(Walk),
           what : {"start", "T", "CD", "final", "E", "times", "protocol"}]
Datum  == [item : Items, what : {"size", "unit"}, size : {-1} \cup Nat]

(* TypeOK in its parts.                                                    *)
OptTypes == client \in {"source", "sink"} /\ pflag \in BOOLEAN /\ protocol \in Protocols
SrcTypes ==
    /\ pos \in 0..(Len(Walk) + 1)
    /\ srcPc \in {"start", "item", "T", "CD", "open", "data", "final", "E", "done"}
    /\ srcLeft \in Nat /\ srcErr \in BOOLEAN /\ srcExit \in Exits
    /\ content \in [Items -> Nat]
SnkTypes ==
    /\ stack \in Seq(Frame) /\ stack # <<>>
    /\ snkPc \in {"read", "size", "recv", "resp", "done"}
    /\ cur \in [item : 0..Len(Walk), left : Nat, got : Seq(Items), failed : BOOLEAN]
    /\ snkErr \in BOOLEAN /\ snkExit \in Exits
    /\ stored \in [Items -> Copy]
PipeTypes ==
    /\ toSink \in Seq(Rec) /\ toSource \in Seq(Answer) /\ data \in Seq(Datum)
    /\ faults \in [left : 0..MaxFaults, had : SUBSET Faults]

(* Where each side is, and of what item it is speaking.                    *)
SrcPlaces ==
    /\ SrcGone <=> srcPc = "done"
    /\ srcPc \in {"T", "CD", "open", "data", "final", "E"} => pos \in Items
    /\ srcPc \in {"T", "CD"} => Walk[pos].kind # "end"
    /\ srcPc \in {"open", "data", "final"} => Walk[pos].kind = "file"
    /\ srcPc = "E" => Walk[pos].kind = "end"
SnkPlaces ==
    /\ SnkGone <=> snkPc = "done"
    /\ Receiving => cur.item \in Items
    /\ \A d \in 2..Depth : stack[d].dir \in Items

(* What the file holds, as long as the source may still look at it.        *)
Contents ==
    /\ \A n \in Items :
          /\ content[n] <= Size(n)
          /\ n > pos \/ (n = pos /\ srcPc \in {"item", "T", "CD", "open"}) => content[n] = Size(n)
    /\ srcPc = "data" => srcLeft <= content[pos]
    /\ srcPc = "start" => pos = 0

(* A failure leaves its mark on the side that met it.                      *)
Marks ==
    /\ ~Steady => srcErr \/ snkErr
    /\ ~None({"kill"}) => srcExit = "err" \/ snkExit = "err"
    /\ SrcGone /\ ~SnkGone => ~None({"break", "kill"}) \/ pos > Len(Walk)
    /\ srcExit = "ok" => ~srcErr /\ pos > Len(Walk)
    /\ snkExit = "ok" => ~snkErr /\ Depth = 1
    /\ ~snkErr => \A i \in 1..Len(toSource) : toSource[i].ok
    /\ cur.failed => snkErr

(* The replies on their way, as the source will take them.  Only a failure *)
(* is told before the source has sent the file.                            *)
Replies ==
    /\ \A i \in 1..Len(toSource) : toSource[i].item = pos
    /\ \/ /\ Len(toSource) = 0 /\ srcPc # "start"
       \/ /\ Len(toSource) = 1 /\ srcPc \in {"start", "T", "CD", "final", "E"}
          /\ toSource[1].what = srcPc
       \/ /\ Len(toSource) = 1 /\ srcPc \in {"open", "data"}
          /\ toSource[1].what = "final" /\ ~toSource[1].ok
       \/ /\ Len(toSource) = 2 /\ srcPc = "CD" /\ Walk[pos].kind = "file"
          /\ toSource[1].what = "CD" /\ toSource[1].ok
          /\ toSource[2].what = "final" /\ ~toSource[2].ok

(* The records on their way, as the sink will take them: errors, that      *)
(* nobody waits for, and one record that the source waits for at the end.  *)
(* The NUL after a file comes first, and to a sink that waits for it.      *)
Records ==
    /\ \A i \in 1..Len(toSink) :
          /\ toSink[i].what \in {"T", "CD", "E"} => i = Len(toSink) /\ toSink[i].item = pos
          /\ toSink[i].what = "nul" => i = 1 /\ Receiving
          /\ Receiving /\ toSink[i].what # "nul" => cur.failed /\ i > 1
    /\ cur.failed => snkPc = "resp"
    /\ Receiving /\ ~cur.failed => cur.item = pos

(* Whose turn it is.                                                       *)
Turns ==
    /\ srcPc = "start" => snkPc = "read" /\ toSink = <<>>
    /\ srcPc = "item" =>
          /\ \A i \in 1..Len(toSink) : toSink[i].what \in {"nul", "error"}
          /\ snkPc = "read" \/ (cur.failed /\ toSink # <<>>)
    /\ srcPc \in {"T", "CD", "E"} /\ toSource = <<>> =>
          /\ toSink # <<>> /\ toSink[Len(toSink)].what = srcPc
          /\ snkPc = "read" \/ cur.failed
    /\ srcPc \in {"T", "E"} /\ toSource # <<>> => toSink = <<>> /\ snkPc = "read"
    /\ srcPc = "CD" /\ toSource # <<>> =>
          /\ toSink = <<>>
          /\ IF toSource[1].ok /\ Walk[pos].kind = "file"
             THEN Receiving /\ (cur.failed <=> Len(toSource) = 2)
             ELSE snkPc = "read"
    /\ srcPc \in {"open", "data"} =>
          toSink = <<>> /\ Receiving /\ (cur.failed <=> toSource # <<>>)
    /\ srcPc = "final" =>
          \/ /\ Receiving /\ Len(toSink) = 1 /\ toSink[1].what = "nul"
             /\ cur.failed <=> toSource # <<>>
          \/ snkPc = "read" /\ toSink = <<>> /\ toSource # <<>>

(* The times that wait for the end of a directory or file are its own.     *)
Pending ==
    /\ \A d \in 1..(Depth - 1) : stack[d].times = IF pflag THEN stack[d + 1].dir ELSE 0
    /\ ~pflag => Times(Depth) = 0
    /\ pflag /\ Receiving /\ ~cur.failed => Times(Depth) = cur.item
    /\ \A i \in 1..Len(toSink) :
          /\ toSink[i].what = "T" => pflag
          /\ pflag /\ toSink[i].what = "CD" => Times(Depth) = pos /\ snkPc = "read"
    /\ pflag /\ srcPc = "T" /\ toSource # <<>> => Times(Depth) = pos

OwnTimes == \A n \in Items : stored[n].times \in {0, n}

InStepInv ==
    Steady =>
        /\ ~SrcGone => Replies
        /\ ~SnkGone => Records /\ Pending
        /\ ~SrcGone /\ ~SnkGone => Turns
        /\ OwnTimes

(* The data stream: of the file that is being received, and no more of it  *)
(* than it holds; of protocol 0 there may be nothing at all, and a broken  *)
(* connection, or a dead source, has cut it off.                           *)
Unopened == srcPc = "open" \/ (srcPc = "CD" /\ toSource # <<>>)

Fatal   == {"gone", "break", "kill"}
Unsized == protocol = 0 /\ ~None(Fatal)

Stream ==
    /\ snkPc \in {"read", "resp"} => data = <<>>
    /\ snkPc = "size" =>
          /\ protocol = 0 /\ cur.got = <<>>
          /\ data # <<>> => /\ \/ data[1].size >= content[pos]
                               \/ Unsized /\ data[1].size <= 0 /\ Len(data) = 1
                            /\ \A i \in 2..Len(data) : data[i].item = pos
                            /\ Len(data) - 1 <= content[pos]
    /\ snkPc = "recv" =>
          /\ \A i \in 1..Len(data) : data[i].item = pos
          /\ \A i \in 1..Len(cur.got) : cur.got[i] = pos
          /\ \/ content[pos] <= cur.left + Len(cur.got)
             \/ Unsized /\ cur.left = 0 /\ cur.got = <<>> /\ data = <<>>
          /\ Len(cur.got) + Len(data) <= content[pos]
    /\ snkPc = "resp" => cur.left = 0

(* How much of it is on its way.                                           *)
Sent ==
    /\ srcPc = "data" =>
          /\ snkPc = "size" => /\ Broken \/ data # <<>>
                               /\ Len(data) - 1 <= content[pos] - srcLeft
                               /\ data # <<>> => data[1].size >= content[pos] \/ srcLeft = 0
          /\ snkPc = "recv" =>
                /\ Len(cur.got) + Len(data) <= content[pos] - srcLeft
                /\ content[pos] <= cur.left + Len(cur.got) \/ srcLeft = 0 \/ Broken
          /\ snkPc = "resp" => srcLeft = 0 \/ (Broken /\ protocol = 0)
    /\ Unopened /\ Receiving =>
          /\ data = <<>> /\ cur.got = <<>>
          /\ protocol = 0 => snkPc = "size" \/ Broken
          /\ snkPc = "resp" => Size(pos) = 0 \/ (Broken /\ protocol = 0)

Wholes ==
    \A n \in Items : stored[n].whole =>
        /\ AllOf(n) \/ EmptyAfter(Fatal, n)
        /\ n <= pos
        /\ n = pos =>
              /\ srcPc \notin {"start", "item", "T"}
              /\ srcPc \in {"CD", "open"} =>
                    (protocol = 1 /\ Size(n) = 0) \/ EmptyAfter(Fatal, n)
              /\ srcPc = "data" => srcLeft = 0 \/ EmptyAfter(Fatal, n)

ContentsInv ==
    Steady =>
        /\ ~SnkGone => Stream
        /\ ~SrcGone /\ ~SnkGone => Sent
        /\ Wholes

(* As long as nothing has failed, what the source has passed is copied, or *)
(* is a directory that the sink is still in.                               *)
FileDone(n) == stored[n].whole /\ stored[n].done /\ (pflag => stored[n].times = n)
DirDone(n) ==
    \/ \E d \in 2..Depth : stack[d].dir = n
    \/ stored[n].done /\ (pflag => stored[n].times = n)

AllWell == ~srcErr /\ ~snkErr /\ srcExit \in {"no", "ok"} /\ snkExit \in {"no", "ok"}

CopiedInv ==
    AllWell =>
        /\ \A n \in Items : n < pos =>
              /\ Walk[n].kind = "file" => FileDone(n)
              /\ Walk[n].kind = "dir" => DirDone(n)
        /\ srcPc = "final" /\ toSource # <<>> => FileDone(pos)
        /\ srcPc = "CD" /\ toSource # <<>> /\ Walk[pos].kind = "dir" => DirDone(pos)
        /\ snkPc = "resp" => stored[cur.item].whole

IInv ==
    /\ OptTypes /\ SrcTypes /\ SnkTypes /\ PipeTypes
    /\ SrcPlaces /\ SnkPlaces /\ Contents /\ Marks
    /\ InStepInv /\ ContentsInv /\ CopiedInv

-----------------------------------------------------------------------------
(***************************************************************************)
(* Sequences.                                                              *)
(***************************************************************************)
LEMMA AppendFacts ==
    ASSUME NEW S, NEW s \in Seq(S), NEW x \in S
    PROVE  /\ Append(s, x) \in Seq(S) /\ Len(Append(s, x)) = Len(s) + 1
           /\ Append(s, x)[Len(s) + 1] = x
           /\ \A i \in 1..Len(s) : Append(s, x)[i] = s[i]
           /\ Append(s, x) # <<>>
  OBVIOUS

LEMMA TailFacts ==
    ASSUME NEW S, NEW s \in Seq(S), s # <<>>
    PROVE  /\ Len(s) \in Nat /\ Len(s) >= 1
           /\ Head(s) = s[1] /\ Head(s) \in S
           /\ Tail(s) \in Seq(S) /\ Len(Tail(s)) = Len(s) - 1
           /\ \A i \in 1..(Len(s) - 1) : Tail(s)[i] = s[i + 1]
  OBVIOUS

LEMMA ElementOfSeq ==
    ASSUME NEW S, NEW s \in Seq(S), NEW i \in 1..Len(s)
    PROVE  s[i] \in S
  OBVIOUS

LEMMA EmptyFacts ==
    ASSUME NEW S, NEW s \in Seq(S)
    PROVE  Len(s) \in Nat /\ (s = <<>> <=> Len(s) = 0) /\ s \o <<>> = s
  OBVIOUS

LEMMA ExceptFacts ==
    ASSUME NEW S, NEW s \in Seq(S), NEW i \in 1..Len(s), NEW x \in S,
           NEW t, t = [s EXCEPT ![i] = x]
    PROVE  /\ t \in Seq(S) /\ Len(t) = Len(s)
           /\ \A k \in 1..Len(s) : t[k] = IF k = i THEN x ELSE s[k]
  OBVIOUS

LEMMA ConcatIsAppend ==
    ASSUME NEW S, NEW s \in Seq(S), NEW x \in S
    PROVE  s \o <<x>> = Append(s, x)
  OBVIOUS

LEMMA WalkFacts ==
    /\ Len(Walk) \in Nat
    /\ \A n \in Items : /\ n \in Nat /\ 1 <= n /\ n <= Len(Walk)
                        /\ Walk[n].kind \in {"file", "dir", "end"}
                        /\ Walk[n].skip \in Nat
                        /\ n < Walk[n].skip /\ Walk[n].skip <= Len(Walk) + 1
                        /\ Size(n) \in Nat
    /\ \A n \in Nat : 1 <= n /\ n <= Len(Walk) => n \in Items
  <1>1. Len(Walk) \in Nat
    BY SessionAssumption
  <1>. SUFFICES ASSUME NEW n \in 1..Len(Walk)
                PROVE  /\ n \in Nat /\ 1 <= n /\ n <= Len(Walk)
                       /\ Walk[n].kind \in {"file", "dir", "end"}
                       /\ Walk[n].skip \in Nat
                       /\ n < Walk[n].skip /\ Walk[n].skip <= Len(Walk) + 1
                       /\ Size(n) \in Nat
    BY <1>1 DEF Items
  <1>2. Walk[n] \in Item
    BY SessionAssumption
  <1>3. Walk[n].skip \in (n + 1)..(Len(Walk) + 1)
    BY SessionAssumption
  <1>4. n < Walk[n].skip /\ Walk[n].skip <= Len(Walk) + 1
    BY <1>1, <1>3
  <1>. QED  BY <1>1, <1>2, <1>4 DEF Items, Item, Size

LEMMA FaultFacts ==
    ASSUME PipeTypes, NEW f, Fault(f)
    PROVE  /\ faults' \in [left : 0..MaxFaults, had : SUBSET Faults]
           /\ faults'.had = faults.had \cup {f}
  BY SessionAssumption DEF PipeTypes, Fault

-----------------------------------------------------------------------------
LEMMA InitInv == Init => IInv
  <1>. SUFFICES ASSUME Init PROVE IInv
    OBVIOUS
  <1>. USE DEF Init
  <1>1. Len(Walk) \in Nat /\ \A n \in Items : Size(n) \in Nat
    BY WalkFacts DEF Items
  <1>2. OptTypes
    BY DEF OptTypes
  <1>3. SrcTypes
    <2>1. content \in [Items -> Nat]
      BY <1>1
    <2>2. pos \in 0..(Len(Walk) + 1)
      BY <1>1
    <2>. QED  BY <2>1, <2>2 DEF SrcTypes, Exits
  <1>4. SnkTypes
    <2>1. stack \in Seq(Frame) /\ stack # <<>>
      BY <1>1 DEF Frame
    <2>2. cur \in [item : 0..Len(Walk), left : Nat, got : Seq(Items), failed : BOOLEAN]
      BY <1>1 DEF NoFile
    <2>3. stored \in [Items -> Copy]
      BY <1>1 DEF Nothing, Copy
    <2>. QED  BY <2>1, <2>2, <2>3 DEF SnkTypes, Exits
  <1>5. PipeTypes
    <2>1. toSource \in Seq(Answer)
      BY <1>1 DEF Answer, Ok
    <2>2. faults \in [left : 0..MaxFaults, had : SUBSET Faults]
      BY SessionAssumption
    <2>. QED  BY <2>1, <2>2 DEF PipeTypes
  <1>6. SrcPlaces /\ SnkPlaces
    BY DEF SrcPlaces, SnkPlaces, SrcGone, SnkGone, Receiving, Depth
  <1>7. Contents
    BY <1>1 DEF Contents
  <1>8. Marks
    BY DEF Marks, Steady, None, NoFile, Ok, SrcGone
  <1>9. InStepInv
    <2>1. Replies
      BY DEF Replies, Ok
    <2>2. Records
      BY DEF Records, NoFile, Receiving
    <2>3. Pending
      BY DEF Pending, Depth, Times, Receiving
    <2>4. Turns
      BY DEF Turns
    <2>5. OwnTimes
      BY DEF OwnTimes, Nothing
    <2>. QED  BY <2>1, <2>2, <2>3, <2>4, <2>5 DEF InStepInv
  <1>10. ContentsInv
    BY DEF ContentsInv, Stream, Sent, Unopened, Wholes, Nothing
  <1>11. CopiedInv
    BY DEF CopiedInv, Items
  <1>. QED  BY <1>2, <1>3, <1>4, <1>5, <1>6, <1>7, <1>8, <1>9, <1>10, <1>11 DEF IInv

-----------------------------------------------------------------------------
(***************************************************************************)
(* Types and places.  A step of one side leaves the other alone.           *)
(***************************************************************************)
LEMMA PutFacts ==
    ASSUME PipeTypes, NEW r \in Rec, Put(r)
    PROVE  toSink' \in Seq(Rec)
  BY AppendFacts DEF PipeTypes, Put

LEMMA RecordFacts ==
    ASSUME NEW n \in Items
    PROVE  /\ Record("T", n) \in Rec /\ Record("error", n) \in Rec /\ Record("nul", n) \in Rec
           /\ Announce(n) \in Rec
           /\ Announce(n).what = (IF Walk[n].kind = "end" THEN "E" ELSE "CD")
           /\ Announce(n).item = n
  BY DEF Record, Rec, Announce

(* A connection that is broken carries nothing; one that is cut off keeps  *)
(* a first part of what was on its way.                                    *)
LEMMA SendFacts ==
    ASSUME PipeTypes, NEW d \in Datum, Send(d)
    PROVE  /\ data' \in Seq(Datum)
           /\ Broken => data' = data
           /\ ~Broken => data' = Append(data, d)
  BY AppendFacts DEF PipeTypes, Send

LEMMA CutFacts ==
    ASSUME PipeTypes, CutOff
    PROVE  /\ data' \in Seq(Datum) /\ Len(data') \in Nat /\ Len(data') <= Len(data)
           /\ \A i \in 1..Len(data') : i \in 1..Len(data) /\ data'[i] = data[i]
           /\ data = <<>> => data' = <<>>
  <1>1. data \in Seq(Datum) /\ Len(data) \in Nat
    BY DEF PipeTypes
  <1>2. PICK k \in 0..Len(data) : data' = SubSeq(data, 1, k)
    BY DEF CutOff
  <1>3. /\ data' \in Seq(Datum) /\ Len(data') = k
        /\ \A i \in 1..k : data'[i] = data[i]
    BY <1>1, <1>2
  <1>4. data = <<>> => Len(data') = 0
    BY <1>1, <1>2, <1>3
  <1>. QED  BY <1>1, <1>2, <1>3, <1>4, EmptyFacts

LEMMA NextSrcTypes ==
    ASSUME SrcTypes, SrcPlaces, Contents, PipeTypes, OptTypes, SourceStep \/ SourceKilled
    PROVE  SrcTypes' /\ SrcPlaces' /\ Contents' /\ PipeTypes' /\ UNCHANGED <<optVars, snkVars>>
  <1>0. /\ Len(Walk) \in Nat
        /\ \A n \in Items : /\ n \in Nat /\ 1 <= n /\ n <= Len(Walk)
                            /\ Walk[n].skip \in Nat
                            /\ n < Walk[n].skip /\ Walk[n].skip <= Len(Walk) + 1
                            /\ Size(n) \in Nat
    BY WalkFacts
  <1>. DEFINE Stays == UNCHANGED <<srcLeft, srcExit, content, data>>
  <1>1. CASE SourceFails
    <2>1. /\ pos \in Items /\ pos' = Walk[pos].skip /\ srcPc = "item" /\ srcPc' = srcPc
          /\ srcErr' = TRUE /\ Stays /\ toSource' = toSource
          /\ Put(Record("error", pos)) /\ Fault("open") /\ UNCHANGED <<optVars, snkVars>>
      BY <1>1 DEF SourceFails
    <2>2. pos' \in 0..(Len(Walk) + 1) /\ pos' > pos
      BY <1>0, <2>1 DEF SrcTypes
    <2>3. PipeTypes'
      BY <2>1, PutFacts, RecordFacts, FaultFacts DEF PipeTypes
    <2>4. SrcTypes'
      BY <2>1, <2>2 DEF SrcTypes
    <2>5. SrcPlaces'
      BY <2>1 DEF SrcPlaces, SrcGone
    <2>6. Contents'
      BY <1>0, <2>1, <2>2 DEF Contents, SrcTypes
    <2>. QED  BY <2>1, <2>3, <2>4, <2>5, <2>6
  <1>2. CASE AnnounceFile \/ AnnounceDir
    <2>1. /\ pos \in Items /\ Walk[pos].kind # "end" /\ srcPc = "item" /\ srcPc' \in {"T", "CD"}
          /\ UNCHANGED <<pos, srcErr, toSource, faults>> /\ Stays
          /\ Put(Record("T", pos)) \/ Put(Announce(pos))
      BY <1>2 DEF AnnounceFile, AnnounceDir, Announces
    <2>2. PipeTypes'
      BY <2>1, PutFacts, RecordFacts DEF PipeTypes
    <2>3. SrcTypes'
      BY <2>1 DEF SrcTypes
    <2>4. SrcPlaces'
      BY <2>1 DEF SrcPlaces, SrcGone
    <2>5. Contents'
      BY <2>1 DEF Contents
    <2>6. UNCHANGED <<optVars, snkVars>>
      BY <1>2 DEF AnnounceFile, AnnounceDir
    <2>. QED  BY <2>2, <2>3, <2>4, <2>5, <2>6
  <1>3. CASE LeaveDir
    <2>1. /\ pos \in Items /\ Walk[pos].kind = "end" /\ srcPc = "item" /\ srcPc' = "E"
          /\ UNCHANGED <<pos, srcErr, toSource, faults>> /\ Stays
          /\ Put(Announce(pos)) /\ UNCHANGED <<optVars, snkVars>>
      BY <1>3 DEF LeaveDir
    <2>2. PipeTypes'
      BY <2>1, PutFacts, RecordFacts DEF PipeTypes
    <2>3. SrcTypes'
      BY <2>1 DEF SrcTypes
    <2>4. SrcPlaces'
      BY <2>1 DEF SrcPlaces, SrcGone
    <2>5. Contents'
      BY <2>1 DEF Contents
    <2>. QED  BY <2>1, <2>2, <2>3, <2>4, <2>5
  <1>4. CASE SourceResponse
    <2>1. /\ srcPc \in {"start", "T", "CD", "final", "E"} /\ toSource # <<>>
          /\ toSource' = Tail(toSource) /\ srcErr' = (srcErr \/ ~Head(toSource).ok)
          /\ Stays /\ UNCHANGED <<faults, optVars, snkVars>>
      BY <1>4 DEF SourceResponse
    <2>2. \/ /\ srcPc \in {"T", "CD"} /\ pos' = Walk[pos].skip /\ srcPc' = "item"
             /\ UNCHANGED toSink
          \/ srcPc = "T" /\ Put(Announce(pos)) /\ srcPc' = "CD" /\ UNCHANGED pos
          \/ /\ srcPc = "CD" /\ Walk[pos].kind = "file" /\ srcPc' = "open"
             /\ UNCHANGED <<pos, toSink>>
          \/ /\ pos' = pos + 1 /\ srcPc \in {"start", "CD", "final", "E"}
             /\ srcPc' = "item" /\ UNCHANGED toSink
      BY <1>4 DEF SourceResponse, SkipsItem
    <2>3. srcErr' \in BOOLEAN
      BY <2>1
    <2>4. toSource' \in Seq(Answer)
      BY <2>1, TailFacts DEF PipeTypes
    <2>5. toSink' \in Seq(Rec)
      BY <2>2, PutFacts, RecordFacts DEF PipeTypes, SrcPlaces
    <2>6. PipeTypes'
      BY <2>1, <2>4, <2>5 DEF PipeTypes
    <2>7. /\ srcPc = "start" \/ pos \in Items
          /\ pos \in Nat
      BY <2>1 DEF SrcPlaces, SrcTypes
    <2>8. pos' \in 0..(Len(Walk) + 1) /\ (pos' > pos \/ pos' = pos)
      <3>1. pos \in Items => Walk[pos].skip \in 0..(Len(Walk) + 1) /\ Walk[pos].skip > pos
        BY <1>0
      <3>2. pos \in Items => pos + 1 \in 0..(Len(Walk) + 1)
        BY <1>0
      <3>3. srcPc = "start" => pos = 0
        BY DEF Contents
      <3>4. pos' = pos \/ pos' = pos + 1 \/ (pos \in Items /\ pos' = Walk[pos].skip)
        BY <2>2, <2>7
      <3>5. pos \in 0..(Len(Walk) + 1)
        BY DEF SrcTypes
      <3>. QED  BY <1>0, <2>7, <3>1, <3>2, <3>3, <3>4, <3>5
    <2>9. SrcTypes'
      BY <2>1, <2>2, <2>3, <2>8 DEF SrcTypes
    <2>10. SrcPlaces'
      BY <2>1, <2>2 DEF SrcPlaces, SrcGone
    <2>11. Contents'
      <3>1. \/ pos' = pos /\ srcPc \in {"T", "CD"} /\ srcPc' \in {"CD", "open"}
            \/ pos' > pos /\ srcPc' = "item"
        BY <1>0, <2>2, <2>7
      <3>. QED  BY <1>0, <2>1, <2>7, <2>8, <3>1 DEF Contents
    <2>. QED  BY <2>1, <2>6, <2>9, <2>10, <2>11
  <1>5. CASE OpenFile
    <2>1. /\ srcPc = "open" /\ srcPc' = "data" /\ pos \in Items /\ pos \in Nat
          /\ UNCHANGED <<pos, srcErr, srcExit, toSink, toSource, optVars, snkVars>>
          /\ Walk[pos].kind = "file"
      BY <1>5 DEF OpenFile, SrcPlaces, SrcTypes
    <2>2. Size(pos) \in Nat /\ content[pos] = Size(pos)
      BY <1>0, <2>1 DEF Contents
    <2>3. \/ srcLeft' \in {Size(pos), 0} /\ UNCHANGED <<content, data, faults>>
          \/ \E k \in 0..Size(pos) :
                /\ srcLeft' = k /\ content' = [content EXCEPT ![pos] = k]
                /\ Send(SizeAhead(pos, k))
                /\ faults' = faults \/ Fault("resize")
          \/ /\ srcLeft' = 0 /\ content' = content /\ Fault("gone")
             /\ Send(SizeAhead(pos, -1))
      BY <1>5 DEF OpenFile
    <2>4. \A k \in Nat \cup {-1} : SizeAhead(pos, k) \in Datum
      BY <2>1 DEF SizeAhead, Datum
    <2>5. /\ srcLeft' \in Nat /\ content' \in [Items -> Nat]
          /\ data' \in Seq(Datum) /\ faults' \in [left : 0..MaxFaults, had : SUBSET Faults]
      <3>1. CASE srcLeft' \in {Size(pos), 0} /\ UNCHANGED <<content, data, faults>>
        BY <2>2, <3>1 DEF SrcTypes, PipeTypes
      <3>2. ASSUME NEW k \in 0..Size(pos), srcLeft' = k, content' = [content EXCEPT ![pos] = k],
                   Send(SizeAhead(pos, k)), faults' = faults \/ Fault("resize")
            PROVE  /\ srcLeft' \in Nat /\ content' \in [Items -> Nat]
                   /\ data' \in Seq(Datum)
                   /\ faults' \in [left : 0..MaxFaults, had : SUBSET Faults]
        <4>1. k \in Nat
          BY <2>2
        <4>2. SizeAhead(pos, k) \in Datum
          BY <2>4, <4>1
        <4>3. data' \in Seq(Datum)
          BY <3>2, <4>2, SendFacts
        <4>4. content' \in [Items -> Nat] /\ srcLeft' \in Nat
          BY <2>1, <3>2, <4>1 DEF SrcTypes
        <4>. QED  BY <3>2, <4>3, <4>4, FaultFacts DEF PipeTypes
      <3>3. CASE /\ srcLeft' = 0 /\ content' = content /\ Fault("gone")
                 /\ Send(SizeAhead(pos, -1))
        <4>1. SizeAhead(pos, -1) \in Datum
          BY <2>4
        <4>2. data' \in Seq(Datum)
          BY <3>3, <4>1, SendFacts
        <4>. QED  BY <3>3, <4>2, FaultFacts DEF SrcTypes
      <3>. QED  BY <2>3, <3>1, <3>2, <3>3
    <2>6. /\ content'[pos] <= Size(pos) /\ srcLeft' <= content'[pos]
          /\ \A n \in Items : n # pos => content'[n] = content[n]
      BY <2>1, <2>2, <2>3 DEF SrcTypes
    <2>7. SrcTypes' /\ PipeTypes'
      BY <2>1, <2>5 DEF SrcTypes, PipeTypes
    <2>8. SrcPlaces'
      BY <2>1 DEF SrcPlaces, SrcGone
    <2>9. Contents'
      BY <2>1, <2>6 DEF Contents, Size
    <2>. QED  BY <2>1, <2>7, <2>8, <2>9
  <1>6. CASE SendUnit
    <2>1. /\ srcPc = "data" /\ srcLeft > 0 /\ pos \in Items
          /\ Send(Unit(pos)) /\ srcLeft' = srcLeft - 1
          /\ UNCHANGED <<pos, srcPc, srcErr, srcExit, content, toSink, toSource, faults,
                         optVars, snkVars>>
      BY <1>6 DEF SendUnit, SrcPlaces
    <2>2. Unit(pos) \in Datum
      BY <2>1 DEF Unit, Datum
    <2>3. data' \in Seq(Datum)
      BY <2>1, <2>2, SendFacts
    <2>4. SrcTypes' /\ PipeTypes'
      BY <2>1, <2>3 DEF SrcTypes, PipeTypes
    <2>5. Contents'
      BY <2>1 DEF Contents, SrcTypes
    <2>. QED  BY <2>1, <2>4, <2>5 DEF SrcPlaces, SrcGone
  <1>7. CASE FileEndsEarly
    <2>1. /\ srcPc = "data" /\ srcLeft > 0 /\ pos \in Items /\ srcLeft' = 0 /\ Fault("shrink")
          /\ content' = [content EXCEPT ![pos] = content[pos] - srcLeft]
          /\ UNCHANGED <<pos, srcPc, srcErr, srcExit, toSink, toSource, data, optVars, snkVars>>
      BY <1>7 DEF FileEndsEarly, SrcPlaces
    <2>2. /\ content[pos] \in Nat /\ srcLeft \in Nat /\ srcLeft <= content[pos]
          /\ content[pos] <= Size(pos) /\ Size(pos) \in Nat
      BY <1>0, <2>1 DEF Contents, SrcTypes
    <2>3. content[pos] - srcLeft \in Nat /\ content[pos] - srcLeft <= Size(pos)
      BY <2>2
    <2>4. SrcTypes'
      BY <2>1, <2>3 DEF SrcTypes
    <2>5. PipeTypes'
      BY <2>1, FaultFacts DEF PipeTypes
    <2>6. \A n \in Items : content'[n] = IF n = pos THEN content[pos] - srcLeft ELSE content[n]
      BY <2>1 DEF SrcTypes
    <2>7. Contents'
      <3>1. \A n \in Items : content'[n] <= Size(n)
        BY <2>3, <2>6 DEF Contents
      <3>2. \A n \in Items : n > pos => content'[n] = Size(n)
        <4>1. ~(pos > pos)
          BY <1>0, <2>1
        <4>. QED  BY <2>6, <4>1 DEF Contents
      <3>3. srcLeft' <= content'[pos]
        BY <2>1, <2>3, <2>6
      <3>. QED  BY <2>1, <3>1, <3>2, <3>3 DEF Contents
    <2>. QED  BY <2>1, <2>4, <2>5, <2>7 DEF SrcPlaces, SrcGone
  <1>8. CASE SendDone
    <2>1. /\ srcPc = "data" /\ srcPc' = "final" /\ pos \in Items
          /\ UNCHANGED <<pos, srcErr, toSource, faults>> /\ Stays
          /\ Put(Record("nul", pos)) /\ UNCHANGED <<optVars, snkVars>>
      BY <1>8 DEF SendDone, SrcPlaces
    <2>2. PipeTypes'
      BY <2>1, PutFacts, RecordFacts DEF PipeTypes
    <2>3. SrcTypes' /\ SrcPlaces'
      BY <2>1 DEF SrcTypes, SrcPlaces, SrcGone
    <2>4. Contents'
      BY <2>1 DEF Contents
    <2>. QED  BY <2>1, <2>2, <2>3, <2>4
  <1>9. CASE SourceEnds \/ SendFails \/ SourceLosesSink \/ SourceKilled
    <2>1. /\ srcPc' = "done" /\ srcExit' \in Exits /\ srcExit' # "no"
          /\ UNCHANGED <<pos, srcLeft, srcErr, content, toSink, toSource, optVars, snkVars>>
          /\ data' = data \/ CutOff
          /\ faults' \in [left : 0..MaxFaults, had : SUBSET Faults]
      BY <1>9, FaultFacts DEF SourceEnds, SendFails, SourceLosesSink, SourceKilled, SourceExits,
                              ExitOf, Exits, PipeTypes
    <2>4. data' \in Seq(Datum)
      BY <2>1, CutFacts DEF PipeTypes
    <2>2. SrcTypes' /\ PipeTypes'
      BY <2>1, <2>4 DEF SrcTypes, PipeTypes
    <2>3. SrcPlaces' /\ Contents'
      BY <2>1 DEF SrcPlaces, SrcGone, Contents
    <2>. QED  BY <2>1, <2>2, <2>3
  <1>10. CASE SourceDropsFile
    <2>1. /\ pos \in Items /\ pos' = Walk[pos].skip /\ srcPc = "CD" /\ srcPc' = "item"
          /\ srcErr' = TRUE /\ Stays /\ toSource # <<>> /\ toSource' = Tail(toSource)
          /\ Put(Record("error", pos)) /\ Fault("nobuffer") /\ UNCHANGED <<optVars, snkVars>>
      BY <1>10 DEF SourceDropsFile, SrcPlaces
    <2>2. pos' \in 0..(Len(Walk) + 1) /\ pos' > pos
      BY <1>0, <2>1 DEF SrcTypes
    <2>3. toSource' \in Seq(Answer)
      BY <2>1, TailFacts DEF PipeTypes
    <2>4. PipeTypes'
      BY <2>1, <2>3, PutFacts, RecordFacts, FaultFacts DEF PipeTypes
    <2>5. SrcTypes'
      BY <2>1, <2>2 DEF SrcTypes
    <2>6. SrcPlaces'
      BY <2>1 DEF SrcPlaces, SrcGone
    <2>7. Contents'
      BY <1>0, <2>1, <2>2 DEF Contents, SrcTypes
    <2>. QED  BY <2>1, <2>4, <2>5, <2>6, <2>7
  <1>. QED  BY <1>1, <1>2, <1>3, <1>4, <1>5, <1>6, <1>7, <1>8, <1>9, <1>10 DEF SourceStep

(* The frames of the nested calls of sink.                                 *)
LEMMA SetTimesFacts ==
    ASSUME stack \in Seq(Frame), stack # <<>>, NEW n \in 0..Len(Walk), SetTimes(Depth, n)
    PROVE  /\ stack' \in Seq(Frame) /\ stack' # <<>> /\ Len(stack') = Len(stack)
           /\ \A d \in 1..(Len(stack) - 1) : stack'[d] = stack[d]
           /\ \A d \in 1..Len(stack) : stack'[d].dir = stack[d].dir
           /\ stack'[Len(stack)].times = n
  <1>1. Len(stack) \in Nat /\ Len(stack) >= 1
    BY EmptyFacts
  <1>2. \A d \in 1..Len(stack) : stack[d] \in Frame
    OBVIOUS
  <1>. DEFINE f == [stack[Len(stack)] EXCEPT !.times = n]
  <1>3. f \in Frame /\ f.dir = stack[Len(stack)].dir /\ f.times = n
    BY <1>1, <1>2 DEF Frame
  <1>4. stack' = [stack EXCEPT ![Len(stack)] = f]
    BY DEF SetTimes, Depth
  <1>. HIDE DEF f
  <1>. QED  BY <1>1, <1>3, <1>4

LEMMA PopFacts ==
    ASSUME stack \in Seq(Frame), Depth > 1
    PROVE  /\ Popped \in Seq(Frame) /\ Popped # <<>> /\ Len(Popped) = Len(stack) - 1
           /\ \A d \in 1..(Len(stack) - 2) : Popped[d] = stack[d]
           /\ \A d \in 1..(Len(stack) - 1) : Popped[d].dir = stack[d].dir
           /\ Popped[Len(stack) - 1].times = 0
  <1>. DEFINE N == Len(stack)
  <1>. DEFINE t == SubSeq(stack, 1, N - 1)
  <1>. DEFINE g == t[N - 1]
  <1>. DEFINE f == [g EXCEPT !.times = 0]
  <1>. DEFINE i == N - 1
  <1>1. N \in Nat /\ N > 1
    BY DEF Depth
  <1>2. t \in Seq(Frame) /\ Len(t) = N - 1 /\ \A d \in 1..(N - 1) : t[d] = stack[d]
    BY <1>1
  <1>3. g \in Frame
    BY <1>1, <1>2, ElementOfSeq
  <1>4. Popped = [t EXCEPT ![i] = f]
    BY DEF Popped, Depth
  <1>5. i \in 1..Len(t)
    BY <1>1, <1>2
  <1>. HIDE DEF g
  <1>6. f \in Frame /\ f.dir = g.dir /\ f.times = 0
    <2>1. 0 \in 0..Len(Walk)
      BY WalkFacts
    <2>. QED  BY <1>3, <2>1 DEF Frame
  <1>. HIDE DEF f, t, i
  <1>7. /\ Popped \in Seq(Frame) /\ Len(Popped) = Len(t)
        /\ \A k \in 1..Len(t) : Popped[k] = IF k = i THEN f ELSE t[k]
    BY <1>2, <1>4, <1>5, <1>6, ExceptFacts
  <1>8. Popped # <<>>
    BY <1>1, <1>2, <1>7, EmptyFacts
  <1>9. \A d \in 1..(N - 1) : Popped[d] = IF d = N - 1 THEN f ELSE stack[d]
    BY <1>2, <1>7 DEF i
  <1>10. Popped[N - 1] = f /\ f.dir = stack[N - 1].dir
    BY <1>1, <1>2, <1>6, <1>9 DEF g
  <1>. HIDE DEF N
  <1>11. \A d \in 1..(N - 2) : Popped[d] = stack[d]
    BY <1>1, <1>9
  <1>12. \A d \in 1..(N - 1) : Popped[d].dir = stack[d].dir
    BY <1>6, <1>9, <1>10
  <1>13. Popped \in Seq(Frame) /\ Popped # <<>> /\ Len(Popped) = N - 1 /\ Popped[N - 1].times = 0
    BY <1>2, <1>6, <1>7, <1>8, <1>10
  <1>. QED  BY <1>11, <1>12, <1>13 DEF N

LEMMA ReplyFacts ==
    ASSUME PipeTypes, NEW R \in Seq(Answer), Reply(R)
    PROVE  toSource' \in Seq(Answer)
  BY DEF PipeTypes, Reply

LEMMA AnswerFacts ==
    ASSUME NEW n \in 0..Len(Walk), NEW what \in {"T", "CD", "final", "E", "times", "protocol"}
    PROVE  /\ Ok(what, n) \in Answer /\ Bad(what, n) \in Answer
           /\ <<Ok(what, n)>> \in Seq(Answer) /\ <<Bad(what, n)>> \in Seq(Answer)
  BY DEF Ok, Bad, Answer

LEMMA ReadFacts ==
    ASSUME PipeTypes, toSink # <<>>, toSink' = Tail(toSink)
    PROVE  /\ toSink' \in Seq(Rec) /\ Next1 = toSink[1] /\ Next1 \in Rec /\ Next1.item \in Items
           /\ Next1.item \in 0..Len(Walk)
  <1>1. Next1 = toSink[1] /\ Next1 \in Rec /\ toSink' \in Seq(Rec)
    BY TailFacts DEF PipeTypes, Next1
  <1>. QED  BY <1>1, WalkFacts DEF Rec

(* What a return of sink does to the sink.                                 *)
LEMMA ReturnTypes ==
    ASSUME SnkTypes, SnkPlaces, PipeTypes, snkPc = "read", NEW R \in Seq(Answer), SinkReturns(R),
           cur' = cur
    PROVE  /\ SnkTypes' /\ SnkPlaces' /\ toSource' \in Seq(Answer)
           /\ faults' \in [left : 0..MaxFaults, had : SUBSET Faults]
  <1>1. \/ /\ Depth = 1 /\ snkPc' = "done" /\ snkExit' = ExitOf(snkErr) /\ Reply(R)
           /\ UNCHANGED <<stack, snkErr, stored, faults>>
        \/ /\ Depth > 1 /\ Fault("dirtimes")
           /\ Reply(R \o <<Bad("times", stack[Depth].dir)>>) /\ snkErr' = TRUE
           /\ stack' = Popped
           /\ stored' = [stored EXCEPT ![stack[Depth].dir].done = TRUE]
           /\ UNCHANGED <<snkPc, snkExit>>
        \/ /\ Depth > 1 /\ Reply(R)
           /\ stack' = Popped
           /\ stored' = [stored EXCEPT ![stack[Depth].dir].done = TRUE,
                                       ![stack[Depth].dir].times = Times(Depth - 1)]
           /\ UNCHANGED <<snkPc, snkErr, snkExit, faults>>
    BY DEF SinkReturns
  <1>2. CASE /\ Depth = 1 /\ snkPc' = "done" /\ snkExit' = ExitOf(snkErr) /\ Reply(R)
             /\ UNCHANGED <<stack, snkErr, stored, faults>>
    <2>1. snkExit' \in Exits /\ snkExit' # "no"
      BY <1>2 DEF ExitOf, Exits
    <2>2. SnkTypes'
      BY <1>2, <2>1 DEF SnkTypes
    <2>3. SnkPlaces'
      BY <1>2, <2>1 DEF SnkPlaces, SnkGone, Receiving, Depth
    <2>. QED  BY <1>2, <2>2, <2>3, ReplyFacts DEF PipeTypes
  <1>. DEFINE dir == stack[Depth].dir
  <1>3. Depth > 1 => /\ dir \in Items /\ dir \in 0..Len(Walk)
                     /\ Times(Depth - 1) \in 0..Len(Walk) /\ Depth \in Nat
    <2>1. Depth \in Nat
      BY DEF Depth, SnkTypes
    <2>2. Depth > 1 => dir \in Items
      BY <2>1 DEF SnkPlaces
    <2>3. Depth > 1 => stack[Depth - 1] \in Frame
      BY <2>1, ElementOfSeq DEF SnkTypes, Depth
    <2>. QED  BY <2>1, <2>2, <2>3, WalkFacts DEF Frame, Times
  <1>4. ASSUME Depth > 1,
               stack' = Popped,
               stored' \in [Items -> Copy], snkErr' \in BOOLEAN, UNCHANGED <<snkPc, snkExit>>
        PROVE  SnkTypes' /\ SnkPlaces'
    <2>1. /\ stack' \in Seq(Frame) /\ stack' # <<>> /\ Len(stack') = Len(stack) - 1
          /\ \A d \in 1..(Len(stack) - 1) : stack'[d].dir = stack[d].dir
      BY <1>4, PopFacts DEF SnkTypes
    <2>2. SnkTypes'
      BY <1>4, <2>1 DEF SnkTypes
    <2>3. Len(stack) \in Nat
      BY DEF SnkTypes
    <2>4. \A d \in 2..Len(stack') : stack'[d].dir \in Items
      BY <2>1, <2>3 DEF SnkPlaces, Depth
    <2>. QED  BY <1>4, <2>2, <2>4 DEF SnkPlaces, SnkGone, Receiving, Depth
  <1>5. CASE /\ Depth > 1 /\ Fault("dirtimes")
             /\ Reply(R \o <<Bad("times", stack[Depth].dir)>>) /\ snkErr' = TRUE
             /\ stack' = Popped
             /\ stored' = [stored EXCEPT ![stack[Depth].dir].done = TRUE]
             /\ UNCHANGED <<snkPc, snkExit>>
    <2>1. <<Bad("times", dir)>> \in Seq(Answer)
      BY <1>3, <1>5, AnswerFacts
    <2>2. R \o <<Bad("times", dir)>> \in Seq(Answer)
      BY <2>1
    <2>3. toSource' \in Seq(Answer)
      BY <1>5, <2>2, ReplyFacts
    <2>4. stored' \in [Items -> Copy]
      BY <1>3, <1>5 DEF SnkTypes, Copy
    <2>. QED  BY <1>4, <1>5, <2>3, <2>4, FaultFacts
  <1>6. CASE /\ Depth > 1 /\ Reply(R)
             /\ stack' = Popped
             /\ stored' = [stored EXCEPT ![stack[Depth].dir].done = TRUE,
                                         ![stack[Depth].dir].times = Times(Depth - 1)]
             /\ UNCHANGED <<snkPc, snkErr, snkExit, faults>>
    <2>1. stored' \in [Items -> Copy]
      <3>. DEFINE x == Times(Depth - 1)
      <3>1. dir \in Items /\ x \in 0..Len(Walk)
        BY <1>3, <1>6
      <3>2. stored' = [stored EXCEPT ![dir].done = TRUE, ![dir].times = x]
        BY <1>6
      <3>. HIDE DEF dir, x
      <3>. QED  BY <3>1, <3>2 DEF SnkTypes, Copy
    <2>2. toSource' \in Seq(Answer) /\ snkErr' \in BOOLEAN
      BY <1>6, ReplyFacts DEF SnkTypes
    <2>. QED  BY <1>4, <1>6, <2>1, <2>2 DEF PipeTypes
  <1>. QED  BY <1>1, <1>2, <1>5, <1>6

LEMMA NextSnkTypes ==
    ASSUME OptTypes, SnkTypes, SnkPlaces, PipeTypes, SinkStep \/ SinkKilled
    PROVE  SnkTypes' /\ SnkPlaces' /\ PipeTypes' /\ UNCHANGED <<optVars, srcVars>>
  <1>0. UNCHANGED <<optVars, srcVars>>
    BY DEF SinkStep, SinkKilled, SinkHearsError, SinkTakesTimes, SinkRefuses, SinkEntersDir,
           SinkOpensFile, SinkEndsDir, SinkMeetsEnd, SinkScrewsUp, RecvSize, SizeNeverComes,
           RecvUnit, RecvDone,
           SinkFinishesFile, SinkMisreads, SinkLosesSource
  <1>. SUFFICES SnkTypes' /\ SnkPlaces' /\ PipeTypes'
    BY <1>0
  <1>00. 0 \in 0..Len(Walk)
    BY WalkFacts
  <1>1. CASE SinkHearsError
    <2>1. /\ toSink' \in Seq(Rec) /\ snkErr' = TRUE
          /\ UNCHANGED <<stack, snkPc, cur, snkExit, stored, toSource, data, faults>>
      BY <1>1, ReadFacts DEF SinkHearsError, Reads
    <2>. QED  BY <2>1 DEF SnkTypes, SnkPlaces, PipeTypes, SnkGone, Receiving, Depth
  <1>2. CASE SinkTakesTimes
    <2>1. /\ snkPc = "read" /\ toSink' \in Seq(Rec) /\ Next1.item \in 0..Len(Walk)
          /\ SetTimes(Depth, Next1.item) /\ Reply(<<Ok("T", Next1.item)>>)
          /\ UNCHANGED <<snkPc, cur, snkErr, snkExit, stored, data, faults>>
      BY <1>2, ReadFacts DEF SinkTakesTimes, Reads
    <2>2. toSource' \in Seq(Answer)
      BY <2>1, AnswerFacts, ReplyFacts
    <2>3. /\ stack' \in Seq(Frame) /\ stack' # <<>> /\ Len(stack') = Len(stack)
          /\ \A d \in 1..Len(stack) : stack'[d].dir = stack[d].dir
      BY <2>1, SetTimesFacts DEF SnkTypes
    <2>4. SnkPlaces'
      BY <2>1, <2>3 DEF SnkPlaces, SnkGone, Receiving, Depth
    <2>. QED  BY <2>1, <2>2, <2>3, <2>4 DEF SnkTypes, PipeTypes
  <1>3. CASE SinkRefuses
    <2>1. /\ toSink' \in Seq(Rec) /\ Next1.item \in 0..Len(Walk) /\ Fault("create")
          /\ Reply(<<Bad("CD", Next1.item)>>) /\ snkErr' = TRUE
          /\ UNCHANGED <<stack, snkPc, cur, snkExit, stored, data>>
      BY <1>3, ReadFacts DEF SinkRefuses, Reads, Refusal
    <2>2. toSource' \in Seq(Answer)
      BY <2>1, AnswerFacts, ReplyFacts
    <2>3. PipeTypes'
      BY <2>1, <2>2, FaultFacts DEF PipeTypes
    <2>. QED  BY <2>1, <2>3 DEF SnkTypes, SnkPlaces, SnkGone, Receiving, Depth
  <1>4. CASE SinkEntersDir
    <2>. DEFINE f == [dir |-> Next1.item, times |-> 0]
    <2>1. /\ snkPc = "read" /\ toSink' \in Seq(Rec) /\ Next1.item \in Items
          /\ Next1.item \in 0..Len(Walk)
          /\ Reply(<<Ok("CD", Next1.item)>>) /\ stack' = Append(stack, f)
          /\ UNCHANGED <<snkPc, cur, snkErr, snkExit, stored, data, faults>>
      BY <1>4, ReadFacts DEF SinkEntersDir, Reads
    <2>2. toSource' \in Seq(Answer)
      BY <2>1, AnswerFacts, ReplyFacts
    <2>3. f \in Frame /\ f.dir \in Items
      BY <2>1, WalkFacts DEF Frame
    <2>. HIDE DEF f
    <2>4. /\ stack' \in Seq(Frame) /\ stack' # <<>> /\ Len(stack') = Len(stack) + 1
          /\ \A d \in 1..Len(stack) : stack'[d] = stack[d]
          /\ stack'[Len(stack) + 1] = f
      BY <2>1, <2>3, AppendFacts DEF SnkTypes
    <2>5. \A d \in 2..Len(stack') : stack'[d].dir \in Items
      <3>1. Len(stack) \in Nat
        BY DEF SnkTypes
      <3>. QED  BY <2>3, <2>4, <3>1 DEF SnkPlaces, Depth
    <2>6. SnkTypes' /\ PipeTypes'
      BY <2>1, <2>2, <2>4 DEF SnkTypes, PipeTypes
    <2>. QED  BY <2>1, <2>5, <2>6 DEF SnkPlaces, SnkGone, Receiving, Depth
  <1>5. CASE SinkOpensFile
    <2>1. /\ snkPc = "read" /\ toSink' \in Seq(Rec) /\ Next1.item \in Items
          /\ Next1.item \in 0..Len(Walk)
          /\ Reply(<<Ok("CD", Next1.item)>>) /\ snkPc' \in {"recv", "size"}
          /\ cur' = [NoFile EXCEPT !.item = Next1.item, !.left = Size(Next1.item)]
          /\ UNCHANGED <<stack, snkErr, snkExit, stored, data, faults>>
      BY <1>5, ReadFacts DEF SinkOpensFile, Reads
    <2>2. toSource' \in Seq(Answer)
      BY <2>1, AnswerFacts, ReplyFacts
    <2>3. Size(Next1.item) \in Nat
      BY <2>1, WalkFacts
    <2>4. /\ cur' \in [item : 0..Len(Walk), left : Nat, got : Seq(Items), failed : BOOLEAN]
          /\ cur'.item \in Items
      <3>. DEFINE n == Next1.item
      <3>. DEFINE k == Size(n)
      <3>1. /\ n \in Items /\ n \in 0..Len(Walk) /\ k \in Nat
            /\ cur' = [NoFile EXCEPT !.item = n, !.left = k]
        BY <2>1, <2>3
      <3>. HIDE DEF n, k
      <3>2. NoFile \in [item : 0..Len(Walk), left : Nat, got : Seq(Items), failed : BOOLEAN]
        BY <1>00 DEF NoFile
      <3>. QED  BY <3>1, <3>2
    <2>5. SnkTypes' /\ PipeTypes'
      BY <2>1, <2>2, <2>4 DEF SnkTypes, PipeTypes
    <2>. QED  BY <2>1, <2>4, <2>5 DEF SnkPlaces, SnkGone, Receiving, Depth
  <1>6. CASE SinkEndsDir
    <2>1. /\ snkPc = "read" /\ toSink' \in Seq(Rec) /\ Next1.item \in 0..Len(Walk)
          /\ SinkReturns(<<Ok("E", Next1.item)>>) /\ UNCHANGED <<cur, data>>
      BY <1>6, ReadFacts DEF SinkEndsDir, Reads, EndReply
    <2>2. <<Ok("E", Next1.item)>> \in Seq(Answer)
      BY <2>1, AnswerFacts
    <2>. QED  BY <2>1, <2>2, ReturnTypes DEF PipeTypes
  <1>7. CASE SinkMeetsEnd
    <2>1. snkPc = "read" /\ SinkReturns(<<>>) /\ UNCHANGED <<cur, data, toSink>>
      BY <1>7 DEF SinkMeetsEnd
    <2>2. <<>> \in Seq(Answer)
      OBVIOUS
    <2>. QED  BY <2>1, <2>2, ReturnTypes DEF PipeTypes
  <1>8. CASE SinkScrewsUp
    <2>1. /\ snkPc = "read" /\ toSink' \in Seq(Rec) /\ Reply(<<Bad("protocol", 0)>>)
          /\ snkErr' = TRUE /\ snkPc' = "done" /\ snkExit' = "protocol"
          /\ UNCHANGED <<stack, cur, stored, data, faults>>
      BY <1>8, ReadFacts DEF SinkScrewsUp, Reads
    <2>2. toSource' \in Seq(Answer)
      BY <2>1, <1>00, AnswerFacts, ReplyFacts
    <2>. QED  BY <2>1, <2>2 DEF SnkTypes, SnkPlaces, PipeTypes, SnkGone, Receiving, Depth, Exits
  <1>9. CASE RecvSize
    <2>1. /\ snkPc = "size" /\ data # <<>> /\ data' = Tail(data) /\ snkPc' = "recv"
          /\ cur' = [cur EXCEPT !.left = Awaited(Head(data).size)]
          /\ UNCHANGED <<stack, snkErr, snkExit, stored, toSink, toSource, faults>>
      BY <1>9 DEF RecvSize
    <2>2. data' \in Seq(Datum) /\ Head(data) \in Datum
      BY <2>1, TailFacts DEF PipeTypes
    <2>3. Awaited(Head(data).size) \in Nat
      BY <2>2 DEF Awaited, Datum
    <2>4. /\ cur' \in [item : 0..Len(Walk), left : Nat, got : Seq(Items), failed : BOOLEAN]
          /\ cur'.item = cur.item
      BY <2>1, <2>3 DEF SnkTypes
    <2>5. SnkTypes' /\ PipeTypes'
      BY <2>1, <2>2, <2>4 DEF SnkTypes, PipeTypes
    <2>. QED  BY <2>1, <2>4, <2>5 DEF SnkPlaces, SnkGone, Receiving, Depth
  <1>10. CASE RecvUnit
    <2>1. /\ snkPc = "recv" /\ cur.left # 0 /\ data # <<>> /\ data' = Tail(data)
          /\ cur' = [cur EXCEPT !.left = cur.left - 1, !.got = Append(cur.got, Head(data).item)]
          /\ UNCHANGED <<snkPc, stack, snkErr, snkExit, stored, toSink, toSource, faults>>
      BY <1>10 DEF RecvUnit, AllReceived
    <2>2. data' \in Seq(Datum) /\ Head(data) \in Datum
      BY <2>1, TailFacts DEF PipeTypes
    <2>3. Head(data).item \in Items
      BY <2>2 DEF Datum
    <2>4. cur.left - 1 \in Nat /\ Append(cur.got, Head(data).item) \in Seq(Items)
      BY <2>1, <2>3, AppendFacts DEF SnkTypes
    <2>5. /\ cur' \in [item : 0..Len(Walk), left : Nat, got : Seq(Items), failed : BOOLEAN]
          /\ cur'.item = cur.item
      BY <2>1, <2>4 DEF SnkTypes
    <2>6. SnkTypes' /\ PipeTypes'
      BY <2>1, <2>2, <2>5 DEF SnkTypes, PipeTypes
    <2>. QED  BY <2>1, <2>5, <2>6 DEF SnkPlaces, SnkGone, Receiving, Depth
  <1>11. CASE RecvDone
    <2>1. /\ snkPc = "recv" /\ snkPc' = "resp"
          /\ stored' = [stored EXCEPT ![cur.item].whole = TRUE, ![cur.item].data = cur.got]
          /\ \/ /\ Fault("chmod") /\ snkErr' = TRUE /\ Reply(<<Bad("final", cur.item)>>)
                /\ cur' = [cur EXCEPT !.failed = TRUE]
             \/ UNCHANGED <<cur, snkErr, toSource, faults>>
          /\ UNCHANGED <<stack, snkExit, toSink, data>>
      BY <1>11 DEF RecvDone
    <2>2. cur.item \in Items /\ cur.item \in 0..Len(Walk) /\ cur.got \in Seq(Items)
      BY <2>1 DEF SnkPlaces, Receiving, SnkTypes
    <2>3. stored' \in [Items -> Copy]
      <3>. DEFINE n == cur.item
      <3>. DEFINE g == cur.got
      <3>1. stored' = [stored EXCEPT ![n].whole = TRUE, ![n].data = g] /\ n \in Items /\ g \in Seq(Items)
        BY <2>1, <2>2
      <3>. HIDE DEF n, g
      <3>. QED  BY <3>1 DEF SnkTypes, Copy
    <2>4. /\ cur' \in [item : 0..Len(Walk), left : Nat, got : Seq(Items), failed : BOOLEAN]
          /\ cur'.item = cur.item
      BY <2>1 DEF SnkTypes
    <2>5. toSource' \in Seq(Answer)
      BY <2>1, <2>2, AnswerFacts, ReplyFacts DEF PipeTypes
    <2>6. snkErr' \in BOOLEAN /\ faults' \in [left : 0..MaxFaults, had : SUBSET Faults]
      BY <2>1, FaultFacts DEF SnkTypes, PipeTypes
    <2>7. SnkTypes' /\ PipeTypes'
      BY <2>1, <2>3, <2>4, <2>5, <2>6 DEF SnkTypes, PipeTypes
    <2>. QED  BY <2>1, <2>2, <2>4, <2>7 DEF SnkPlaces, SnkGone, Receiving, Depth
  <1>12. CASE SinkFinishesFile
    <2>1. /\ snkPc = "resp" /\ toSink # <<>> /\ toSink' = Tail(toSink)
          /\ snkPc' = "read" /\ cur' = NoFile /\ UNCHANGED <<snkExit, data>>
      BY <1>12 DEF SinkFinishesFile
    <2>. DEFINE n == cur.item
    <2>2. \/ /\ snkErr' \in {snkErr, TRUE}
             /\ UNCHANGED <<stack, stored, toSource, faults>>
          \/ /\ Fault("utimes") /\ SetTimes(Depth, 0) /\ Reply(<<Bad("final", n)>>)
             /\ snkErr' = TRUE /\ UNCHANGED stored
          \/ /\ SetTimes(Depth, 0) /\ Reply(<<Ok("final", n)>>)
             /\ snkErr' \in {snkErr, TRUE}
             /\ stored' = [stored EXCEPT ![n].done = TRUE, ![n].times = Times(Depth)]
             /\ UNCHANGED faults
      <3>1. (snkErr \/ Next1.what = "error") \in {snkErr, TRUE}
        BY DEF SnkTypes
      <3>. QED  BY <1>12, <3>1 DEF SinkFinishesFile
    <2>3. n \in Items /\ n \in 0..Len(Walk) /\ 0 \in 0..Len(Walk)
      BY <2>1, WalkFacts DEF SnkPlaces, Receiving, SnkTypes
    <2>4. toSink' \in Seq(Rec)
      BY <2>1, ReadFacts
    <2>5. Times(Depth) \in 0..Len(Walk)
      <3>1. Len(stack) \in 1..Len(stack)
        BY EmptyFacts DEF SnkTypes
      <3>2. stack[Len(stack)] \in Frame
        BY <3>1, ElementOfSeq DEF SnkTypes
      <3>. QED  BY <3>2 DEF Times, Depth, Frame
    <2>6. cur' \in [item : 0..Len(Walk), left : Nat, got : Seq(Items), failed : BOOLEAN]
      BY <2>1, <2>3 DEF NoFile
    <2>7. /\ stack' \in Seq(Frame) /\ stack' # <<>> /\ Len(stack') = Len(stack)
          /\ \A d \in 1..Len(stack) : stack'[d].dir = stack[d].dir
      BY <2>2, <2>3, SetTimesFacts DEF SnkTypes
    <2>8. stored' \in [Items -> Copy]
      <3>. DEFINE x == Times(Depth)
      <3>1. stored' = stored \/ stored' = [stored EXCEPT ![n].done = TRUE, ![n].times = x]
        BY <2>2
      <3>2. n \in Items /\ x \in 0..Len(Walk)
        BY <2>3, <2>5
      <3>. HIDE DEF n, x
      <3>3. CASE stored' = stored
        BY <3>3 DEF SnkTypes
      <3>4. CASE stored' = [stored EXCEPT ![n].done = TRUE, ![n].times = x]
        BY <3>2, <3>4 DEF SnkTypes, Copy
      <3>. QED  BY <3>1, <3>3, <3>4
    <2>9. toSource' \in Seq(Answer)
      BY <2>2, <2>3, AnswerFacts, ReplyFacts DEF PipeTypes
    <2>10. snkErr' \in BOOLEAN /\ faults' \in [left : 0..MaxFaults, had : SUBSET Faults]
      BY <2>2, FaultFacts DEF SnkTypes, PipeTypes
    <2>11. SnkTypes' /\ PipeTypes'
      BY <2>1, <2>4, <2>6, <2>7, <2>8, <2>9, <2>10 DEF SnkTypes, PipeTypes
    <2>. QED  BY <2>1, <2>7, <2>11 DEF SnkPlaces, SnkGone, Receiving, Depth
  <1>13. CASE SinkMisreads
    <2>1. /\ snkPc = "resp" /\ toSink' \in Seq(Rec)
          /\ snkErr' = TRUE /\ snkPc' = "done" /\ snkExit' = "protocol"
          /\ UNCHANGED <<stack, cur, stored, toSource, data, faults>>
      BY <1>13, ReadFacts DEF SinkMisreads
    <2>. QED  BY <2>1 DEF SnkTypes, SnkPlaces, PipeTypes, SnkGone, Receiving, Depth, Exits
  <1>15. CASE SizeNeverComes
    <2>1. /\ snkPc = "size" /\ snkPc' = "recv" /\ cur' = [cur EXCEPT !.left = 0]
          /\ UNCHANGED <<stack, snkErr, snkExit, stored, toSink, toSource, data, faults>>
      BY <1>15 DEF SizeNeverComes
    <2>2. /\ cur' \in [item : 0..Len(Walk), left : Nat, got : Seq(Items), failed : BOOLEAN]
          /\ cur'.item = cur.item
      BY <2>1 DEF SnkTypes
    <2>3. SnkTypes' /\ PipeTypes'
      BY <2>1, <2>2 DEF SnkTypes, PipeTypes
    <2>. QED  BY <2>1, <2>2, <2>3 DEF SnkPlaces, SnkGone, Receiving, Depth
  <1>14. CASE SinkLosesSource \/ SinkKilled
    <2>1. /\ snkPc' = "done" /\ snkExit' = "err"
          /\ UNCHANGED <<stack, cur, snkErr, stored, toSink, toSource, data>>
          /\ faults' \in [left : 0..MaxFaults, had : SUBSET Faults]
      BY <1>14, FaultFacts DEF SinkLosesSource, SinkKilled, PipeTypes
    <2>. QED  BY <2>1 DEF SnkTypes, SnkPlaces, PipeTypes, SnkGone, Receiving, Depth, Exits
  <1>. QED  BY <1>1, <1>2, <1>3, <1>4, <1>5, <1>6, <1>7, <1>8, <1>9, <1>10, <1>11, <1>12, <1>13,
               <1>14, <1>15 DEF SinkStep

-----------------------------------------------------------------------------
(***************************************************************************)
(* In step: what the source does.                                          *)
(***************************************************************************)
LEMMA NoneStays ==
    ASSUME PipeTypes, NEW F, None(F)',
           faults' = faults \/ \E f \in Faults : Fault(f)
    PROVE  None(F)
  BY FaultFacts DEF None

LEMMA RecordsPut ==
    ASSUME PipeTypes, Records, UNCHANGED <<snkPc, cur>>, NEW r \in Rec, Put(r),
           \A i \in 1..Len(toSink) : toSink[i].what \in {"nul", "error"},
           r.what \in {"T", "CD", "E"} => r.item = pos',
           r.what = "nul" => Receiving /\ toSink = <<>>,
           Receiving /\ r.what # "nul" => cur.failed /\ toSink # <<>>,
           Receiving /\ ~cur.failed => cur.item = pos'
    PROVE  Records'
  <1>1. /\ Len(toSink) \in Nat /\ Len(toSink') = Len(toSink) + 1
        /\ toSink'[Len(toSink) + 1] = r
        /\ \A i \in 1..Len(toSink) : toSink'[i] = toSink[i]
        /\ toSink = <<>> <=> Len(toSink) = 0
    BY AppendFacts, EmptyFacts DEF PipeTypes, Put
  <1>2. Receiving' <=> Receiving
    BY DEF Receiving
  <1>3. ASSUME NEW i \in 1..Len(toSink')
        PROVE  /\ toSink'[i].what \in {"T", "CD", "E"} => i = Len(toSink') /\ toSink'[i].item = pos'
               /\ toSink'[i].what = "nul" => i = 1 /\ Receiving
               /\ Receiving /\ toSink'[i].what # "nul" => cur.failed /\ i > 1
    <2>1. CASE i \in 1..Len(toSink)
      <3>1. toSink'[i] = toSink[i] /\ toSink[i].what \in {"nul", "error"}
        BY <1>1, <2>1
      <3>2. /\ toSink[i].what = "nul" => i = 1 /\ Receiving
            /\ Receiving /\ toSink[i].what # "nul" => cur.failed /\ i > 1
        BY <2>1 DEF Records
      <3>. QED  BY <3>1, <3>2
    <2>2. CASE i = Len(toSink) + 1
      BY <1>1, <2>2
    <2>. QED  BY <1>1, <2>1, <2>2
  <1>. QED  BY <1>2, <1>3 DEF Records

LEMMA PendingSame ==
    ASSUME Pending, UNCHANGED <<pflag, snkPc, cur, stack>>,
           \A i \in 1..Len(toSink') :
               /\ toSink'[i].what = "T" => pflag
               /\ pflag /\ toSink'[i].what = "CD" => Times(Depth) = pos' /\ snkPc = "read",
           pflag /\ srcPc' = "T" /\ toSource' # <<>> => Times(Depth) = pos'
    PROVE  Pending'
  <1>1. /\ Depth' = Depth /\ Times(Depth)' = Times(Depth)
        /\ Receiving' <=> Receiving
    BY DEF Depth, Times, Receiving
  <1>. QED  BY <1>1 DEF Pending

LEMMA SourceInStep ==
    ASSUME IInv, SourceStep \/ SourceKilled
    PROVE  InStepInv'
  <1>1. /\ SrcTypes /\ SrcPlaces /\ PipeTypes /\ SnkTypes /\ SnkPlaces /\ OptTypes /\ Contents
        /\ SrcTypes' /\ SrcPlaces' /\ PipeTypes' /\ UNCHANGED <<optVars, snkVars>>
    BY NextSrcTypes DEF IInv
  <1>2. /\ UNCHANGED <<client, pflag, protocol, stack, snkPc, cur, snkErr, snkExit, stored>>
        /\ (Receiving' <=> Receiving) /\ (SnkGone' <=> SnkGone)
    BY <1>1 DEF optVars, snkVars, Receiving, SnkGone
  <1>3. faults' = faults \/ \E f \in Faults : Fault(f)
    <2>1. \A f : Fault(f) => f \in Faults
      BY DEF Fault
    <2>2. faults' = faults \/ \E f : Fault(f)
      BY DEF SourceStep, SourceKilled, SourceFails, AnnounceFile, AnnounceDir, LeaveDir,
             SourceResponse, SourceDropsFile, OpenFile, SendUnit, FileEndsEarly,
             SendDone, SendFails, SourceEnds,
             SourceLosesSink
    <2>. QED  BY <2>1, <2>2
  <1>. SUFFICES ASSUME Steady'
                PROVE  /\ ~SrcGone' => Replies'
                       /\ ~SnkGone' => Records' /\ Pending'
                       /\ ~SrcGone' /\ ~SnkGone' => Turns'
                       /\ OwnTimes'
    BY DEF InStepInv
  <1>4. Steady
    BY <1>1, <1>3, NoneStays DEF Steady
  <1>5. OwnTimes'
    BY <1>2, <1>4 DEF IInv, InStepInv, OwnTimes
  <1>6. /\ Len(toSink) \in Nat /\ Len(toSource) \in Nat
        /\ toSink = <<>> <=> Len(toSink) = 0
        /\ toSource = <<>> <=> Len(toSource) = 0
    BY <1>1, EmptyFacts DEF PipeTypes
  <1>. SUFFICES ASSUME ~SrcGone
                PROVE  /\ ~SrcGone' => Replies'
                       /\ ~SnkGone => Records' /\ Pending'
                       /\ ~SrcGone' /\ ~SnkGone => Turns'
    <2>1. ~SrcGone
      BY <1>1 DEF SourceStep, SourceKilled, SourceFails, AnnounceFile, AnnounceDir, LeaveDir,
             SourceResponse, SourceDropsFile, OpenFile, SendUnit, FileEndsEarly,
             SendDone, SendFails, SourceEnds,
             SourceLosesSink, SrcPlaces
    <2>. QED  BY <1>2, <1>5, <2>1
  <1>7. /\ Replies
        /\ ~SnkGone => Records /\ Pending /\ Turns
    BY <1>4 DEF IInv, InStepInv
  <1>8. CASE SourceFails
    <2>1. /\ srcPc = "item" /\ srcPc' = "item" /\ toSource' = toSource
          /\ Put(Record("error", pos)) /\ pos \in Items
      BY <1>8 DEF SourceFails
    <2>2. Len(toSource) = 0
      BY <1>7, <2>1 DEF Replies
    <2>3. Replies'
      BY <2>1, <2>2 DEF Replies
    <2>4. ASSUME ~SnkGone PROVE Records' /\ Pending' /\ Turns'
      <3>1. /\ \A i \in 1..Len(toSink) : toSink[i].what \in {"nul", "error"}
            /\ snkPc = "read" \/ (cur.failed /\ toSink # <<>>)
        BY <1>7, <2>1, <2>4 DEF Turns
      <3>. DEFINE r == Record("error", pos)
      <3>2. r \in Rec /\ r.what = "error"
        BY <2>1, RecordFacts DEF Record
      <3>3. ~(snkPc = "read" /\ Receiving)
        BY DEF Receiving
      <3>4. Records'
        BY <1>1, <1>2, <1>7, <2>1, <2>4, <3>1, <3>2, <3>3, RecordsPut
      <3>5. \A i \in 1..Len(toSink') : toSink'[i].what \in {"nul", "error"}
        <4>1. /\ Len(toSink') = Len(toSink) + 1 /\ toSink'[Len(toSink) + 1] = r
              /\ \A i \in 1..Len(toSink) : toSink'[i] = toSink[i]
          BY <1>1, <2>1, <3>2, AppendFacts DEF PipeTypes, Put
        <4>. QED  BY <1>6, <3>1, <3>2, <4>1
      <3>6. Pending'
        BY <1>2, <1>7, <2>1, <2>4, <3>5, PendingSame
      <3>7. toSink' # <<>>
        BY <1>1, <2>1, <3>2, AppendFacts DEF PipeTypes, Put
      <3>8. Turns'
        BY <1>2, <2>1, <3>1, <3>5, <3>7 DEF Turns
      <3>. QED  BY <3>4, <3>6, <3>8
    <2>. QED  BY <2>3, <2>4
  <1>9. CASE AnnounceFile \/ AnnounceDir \/ LeaveDir
    <2>1. PICK r \in Rec : /\ Put(r) /\ r.what = srcPc' /\ r.item = pos
                           /\ srcPc' \in {"T", "CD", "E"}
                           /\ (srcPc' = "CD" => ~pflag) /\ (srcPc' = "T" => pflag)
      <3>1. pos \in Items /\ Announce(pos) \in Rec /\ Record("T", pos) \in Rec
        BY <1>9, RecordFacts DEF AnnounceFile, AnnounceDir, LeaveDir
      <3>2. /\ Announce(pos).what = (IF Walk[pos].kind = "end" THEN "E" ELSE "CD")
            /\ Announce(pos).item = pos
            /\ Record("T", pos).what = "T" /\ Record("T", pos).item = pos
        BY <3>1, RecordFacts DEF Record
      <3>3. CASE LeaveDir
        BY <3>1, <3>2, <3>3 DEF LeaveDir
      <3>4. CASE AnnounceFile \/ AnnounceDir
        <4>1. /\ Walk[pos].kind # "end"
              /\ IF pflag THEN Put(Record("T", pos)) /\ srcPc' = "T"
                 ELSE Put(Announce(pos)) /\ srcPc' = "CD"
          BY <3>4 DEF AnnounceFile, AnnounceDir, Announces
        <4>. QED  BY <3>1, <3>2, <4>1
      <3>. QED  BY <1>9, <3>3, <3>4
    <2>2. /\ srcPc = "item" /\ toSource' = toSource /\ pos' = pos
      BY <1>9 DEF AnnounceFile, AnnounceDir, LeaveDir
    <2>3. Len(toSource) = 0
      BY <1>7, <2>2 DEF Replies
    <2>4. Replies'
      BY <2>1, <2>2, <2>3 DEF Replies
    <2>5. ASSUME ~SnkGone PROVE Records' /\ Pending' /\ Turns'
      <3>1. /\ \A i \in 1..Len(toSink) : toSink[i].what \in {"nul", "error"}
            /\ snkPc = "read" \/ (cur.failed /\ toSink # <<>>)
        BY <1>7, <2>2, <2>5 DEF Turns
      <3>2. ~(snkPc = "read" /\ Receiving)
        BY DEF Receiving
      <3>3. Records'
        BY <1>1, <1>2, <1>7, <2>1, <2>2, <2>5, <3>1, <3>2, RecordsPut
      <3>4. /\ Len(toSink') = Len(toSink) + 1 /\ toSink'[Len(toSink) + 1] = r
            /\ \A i \in 1..Len(toSink) : toSink'[i] = toSink[i]
            /\ toSink' # <<>>
        BY <1>1, <2>1, AppendFacts DEF PipeTypes, Put
      <3>5. \A i \in 1..Len(toSink') : /\ pflag => toSink'[i].what # "CD"
                                       /\ toSink'[i].what = "T" => pflag
        BY <1>6, <2>1, <3>1, <3>4
      <3>6. toSource' = <<>>
        BY <1>6, <2>2, <2>3
      <3>7. Pending'
        BY <1>2, <1>7, <2>5, <3>5, <3>6, PendingSame
      <3>8. toSink'[Len(toSink')].what = srcPc'
        BY <2>1, <3>4
      <3>9. Turns'
        BY <1>2, <2>1, <3>1, <3>4, <3>6, <3>8 DEF Turns
      <3>. QED  BY <3>3, <3>7, <3>9
    <2>. QED  BY <2>4, <2>5
  <1>10. CASE SourceResponse
    <2>. DEFINE ok == Head(toSource).ok
    <2>1. /\ srcPc \in {"start", "T", "CD", "final", "E"} /\ toSource # <<>>
          /\ toSource' = Tail(toSource)
      BY <1>10 DEF SourceResponse
    <2>2. /\ Len(toSource) >= 1 /\ Head(toSource) = toSource[1]
          /\ Len(toSource') = Len(toSource) - 1
          /\ \A i \in 1..(Len(toSource) - 1) : toSource'[i] = toSource[i + 1]
          /\ toSource' = <<>> <=> Len(toSource') = 0
      BY <1>1, <2>1, TailFacts, EmptyFacts DEF PipeTypes
    <2>3. \/ /\ ~ok /\ srcPc \in {"T", "CD"} /\ pos' = Walk[pos].skip /\ srcPc' = "item"
             /\ toSink' = toSink
          \/ /\ srcPc = "T" /\ Put(Announce(pos)) /\ srcPc' = "CD" /\ pos' = pos
          \/ /\ ok /\ srcPc = "CD" /\ Walk[pos].kind = "file" /\ srcPc' = "open"
             /\ pos' = pos /\ toSink' = toSink
          \/ /\ pos' = pos + 1 /\ srcPc' = "item" /\ toSink' = toSink
             /\ \/ srcPc \in {"start", "final", "E"}
                \/ srcPc = "CD" /\ ok /\ Walk[pos].kind = "dir"
      BY <1>10 DEF SourceResponse, SkipsItem
    <2>4. /\ Len(toSource) = 1 \/ (Len(toSource) = 2 /\ srcPc = "CD" /\ Walk[pos].kind = "file" /\ ok)
          /\ Len(toSource) = 2 => toSource[2].what = "final" /\ ~toSource[2].ok
          /\ \A i \in 1..Len(toSource) : toSource[i].item = pos
      BY <1>6, <1>7, <2>1, <2>2 DEF Replies
    <2>5. CASE srcPc' = "item"
      <3>1. toSink' = toSink /\ Len(toSource) = 1
        BY <2>3, <2>4, <2>5
      <3>2. Replies'
        BY <2>2, <2>5, <3>1 DEF Replies
      <3>3. ASSUME ~SnkGone PROVE Records' /\ Pending' /\ Turns'
        <4>1. /\ srcPc = "final" \/ snkPc = "read"
              /\ \/ snkPc = "read" /\ toSink = <<>>
                 \/ cur.failed /\ Len(toSink) = 1 /\ toSink[1].what = "nul" /\ Receiving
          <5>1. CASE srcPc = "CD"
            BY <1>7, <2>1, <2>2, <2>3, <2>5, <3>3, <5>1 DEF Turns
          <5>2. CASE srcPc # "CD"
            BY <1>7, <2>1, <3>3, <5>2 DEF Turns
          <5>. QED  BY <5>1, <5>2
        <4>2. \A i \in 1..Len(toSink) : toSink[i].what = "nul"
          BY <1>6, <4>1
        <4>3. ~(snkPc = "read" /\ Receiving)
          BY DEF Receiving
        <4>4. Records'
          <5>1. Records
            BY <1>7, <3>3
          <5>. QED  BY <1>2, <3>1, <4>1, <4>2, <4>3, <5>1 DEF Records
        <4>5. Pending'
          BY <1>2, <1>7, <2>5, <3>1, <3>3, <4>2, PendingSame
        <4>6. Turns'
          BY <1>2, <1>6, <2>5, <3>1, <4>1, <4>2 DEF Turns
        <4>. QED  BY <4>4, <4>5, <4>6
      <3>. QED  BY <3>2, <3>3
    <2>6. CASE srcPc = "T" /\ Put(Announce(pos)) /\ srcPc' = "CD" /\ pos' = pos
      <3>1. toSource' = <<>> /\ Len(toSource') = 0
        <4>1. Len(toSource) = 1
          BY <2>4, <2>6
        <4>. QED  BY <2>2, <4>1
      <3>2. Replies'
        BY <2>6, <3>1 DEF Replies
      <3>. DEFINE r == Announce(pos)
      <3>3. r \in Rec /\ r.what = "CD" /\ r.item = pos
        BY <1>1, <2>6, RecordFacts DEF SrcPlaces
      <3>. HIDE DEF r
      <3>4. Put(r)
        BY <2>6 DEF r
      <3>5. ASSUME ~SnkGone PROVE Records' /\ Pending' /\ Turns'
        <4>1. toSink = <<>> /\ snkPc = "read" /\ ~Receiving
          BY <1>7, <2>1, <2>6, <3>5 DEF Turns, Receiving
        <4>2. Records'
          BY <1>1, <1>2, <1>6, <1>7, <2>6, <3>3, <3>4, <3>5, <4>1, RecordsPut
        <4>3. Len(toSink') = 1 /\ toSink'[1] = r /\ toSink' # <<>>
          BY <1>1, <1>6, <3>3, <3>4, <4>1, AppendFacts DEF PipeTypes, Put
        <4>4. pflag => Times(Depth) = pos
          BY <1>7, <2>1, <2>6, <3>5 DEF Pending
        <4>5. Pending'
          BY <1>2, <1>7, <2>6, <3>1, <3>3, <3>5, <4>1, <4>3, <4>4, PendingSame
        <4>6. Turns'
          BY <1>2, <2>6, <3>1, <3>3, <4>1, <4>3 DEF Turns
        <4>. QED  BY <4>2, <4>5, <4>6
      <3>. QED  BY <3>2, <3>5
    <2>7. CASE srcPc' = "open"
      <3>1. /\ ok /\ srcPc = "CD" /\ Walk[pos].kind = "file" /\ pos' = pos /\ toSink' = toSink
        BY <2>3, <2>7
      <3>2. Replies'
        <4>1. CASE Len(toSource) = 1
          BY <2>2, <2>7, <4>1 DEF Replies
        <4>2. CASE Len(toSource) = 2
          <5>1. Len(toSource') = 1 /\ toSource'[1] = toSource[2] /\ toSource[2].item = pos
            BY <2>2, <2>4, <4>2
          <5>. QED  BY <2>4, <2>7, <3>1, <4>2, <5>1 DEF Replies
        <4>. QED  BY <2>4, <4>1, <4>2
      <3>3. ASSUME ~SnkGone PROVE Records' /\ Pending' /\ Turns'
        <4>1. toSink = <<>> /\ Receiving /\ (cur.failed <=> Len(toSource) = 2)
          BY <1>7, <2>1, <2>2, <3>1, <3>3 DEF Turns
        <4>2. Records'
          <5>1. Records
            BY <1>7, <3>3
          <5>. QED  BY <1>2, <3>1, <5>1 DEF Records
        <4>3. Pending'
          BY <1>2, <1>6, <1>7, <2>7, <3>1, <3>3, <4>1, PendingSame
        <4>4. cur.failed <=> toSource' # <<>>
          BY <2>2, <2>4, <4>1
        <4>5. Turns'
          BY <1>2, <2>7, <3>1, <4>1, <4>4 DEF Turns
        <4>. QED  BY <4>2, <4>3, <4>5
      <3>. QED  BY <3>2, <3>3
    <2>. QED  BY <2>3, <2>5, <2>6, <2>7
  <1>11. CASE OpenFile \/ SendUnit \/ FileEndsEarly
    <2>1. /\ srcPc \in {"open", "data"} /\ srcPc' = "data" /\ UNCHANGED <<pos, toSink, toSource>>
      BY <1>11 DEF OpenFile, SendUnit, FileEndsEarly
    <2>2. Replies'
      BY <1>7, <2>1 DEF Replies
    <2>3. ASSUME ~SnkGone PROVE Records' /\ Pending' /\ Turns'
      <3>1. Records'
        BY <1>2, <1>7, <2>1, <2>3 DEF Records
      <3>2. Pending'
        <4>1. toSink = <<>>
          BY <1>7, <2>1, <2>3 DEF Turns
        <4>. QED  BY <1>2, <1>6, <1>7, <2>1, <2>3, <4>1, PendingSame
      <3>3. Turns'
        BY <1>2, <1>7, <2>1, <2>3 DEF Turns
      <3>. QED  BY <3>1, <3>2, <3>3
    <2>. QED  BY <2>2, <2>3
  <1>12. CASE SendDone
    <2>. DEFINE r == Record("nul", pos)
    <2>1. /\ srcPc = "data" /\ srcPc' = "final" /\ UNCHANGED <<pos, toSource>> /\ Put(r)
      BY <1>12 DEF SendDone
    <2>2. r \in Rec /\ r.what = "nul"
      BY <1>1, <2>1, RecordFacts DEF Record, SrcPlaces
    <2>. HIDE DEF r
    <2>3. Replies'
      BY <1>7, <2>1 DEF Replies
    <2>4. ASSUME ~SnkGone PROVE Records' /\ Pending' /\ Turns'
      <3>1. toSink = <<>> /\ Receiving /\ (cur.failed <=> toSource # <<>>)
        BY <1>7, <2>1, <2>4 DEF Turns
      <3>2. Len(toSink') = 1 /\ toSink'[1] = r
        BY <1>1, <1>6, <2>1, <2>2, <3>1, AppendFacts DEF PipeTypes, Put
      <3>3. Receiving /\ ~cur.failed => cur.item = pos
        BY <1>7, <2>4 DEF Records
      <3>4. Records'
        BY <1>1, <1>2, <1>6, <1>7, <2>1, <2>2, <2>4, <3>1, <3>3, RecordsPut
      <3>5. Pending'
        BY <1>2, <1>7, <2>1, <2>2, <2>4, <3>2, PendingSame
      <3>6. Turns'
        BY <1>2, <2>1, <2>2, <3>1, <3>2 DEF Turns
      <3>. QED  BY <3>4, <3>5, <3>6
    <2>. QED  BY <2>3, <2>4
  <1>13. CASE SourceEnds \/ SendFails \/ SourceLosesSink \/ SourceKilled
    <2>1. /\ srcPc' = "done" /\ UNCHANGED <<pos, toSink, toSource>>
      BY <1>13 DEF SourceEnds, SendFails, SourceLosesSink, SourceKilled, SourceExits
    <2>2. SrcGone'
      BY <1>1, <2>1 DEF SrcPlaces
    <2>3. ASSUME ~SnkGone PROVE Records' /\ Pending'
      <3>1. Records'
        BY <1>2, <1>7, <2>1, <2>3 DEF Records
      <3>2. Pending'
        <4>1. Pending
          BY <1>7, <2>3
        <4>2. \A i \in 1..Len(toSink) :
                 /\ toSink[i].what = "T" => pflag
                 /\ pflag /\ toSink[i].what = "CD" => Times(Depth) = pos /\ snkPc = "read"
          BY <4>1 DEF Pending
        <4>. QED  BY <1>2, <2>1, <4>1, <4>2, PendingSame
      <3>. QED  BY <3>1, <3>2
    <2>. QED  BY <2>2, <2>3
  <1>14. ~SourceDropsFile
    BY <1>1, FaultFacts DEF SourceDropsFile, Steady, None
  <1>. QED  BY <1>8, <1>9, <1>10, <1>11, <1>12, <1>13, <1>14 DEF SourceStep

-----------------------------------------------------------------------------
(***************************************************************************)
(* In step: what the sink does.                                            *)
(***************************************************************************)
(* A record that the source waits for is the last one, and has no reply.   *)
LEMMA HeadOfTurn ==
    ASSUME PipeTypes, SrcPlaces, SrcTypes, Records, snkPc = "read", toSink # <<>>,
           toSink[1].what \in {"T", "CD", "E"}
    PROVE  /\ Len(toSink) = 1 /\ toSink[1].item = pos
           /\ ~SrcGone /\ Turns => toSource = <<>> /\ srcPc = toSink[1].what
  <1>1. /\ Len(toSink) \in Nat /\ Len(toSink) >= 1
    BY EmptyFacts DEF PipeTypes
  <1>2. Len(toSink) = 1 /\ toSink[1].item = pos
    <2>1. 1 \in 1..Len(toSink)
      BY <1>1
    <2>. QED  BY <2>1 DEF Records
  <1>3. ~Receiving
    BY DEF Receiving
  <1>4. ASSUME ~SrcGone, Turns PROVE toSource = <<>> /\ srcPc = toSink[1].what
    <2>1. srcPc # "done"
      BY <1>4 DEF SrcPlaces
    <2>2. /\ srcPc # "start" /\ srcPc # "item"
          /\ srcPc \notin {"open", "data", "final"}
      BY <1>1, <1>2, <1>3, <1>4 DEF Turns
    <2>3. srcPc \in {"T", "CD", "E"}
      BY <2>1, <2>2 DEF SrcTypes
    <2>4. toSource = <<>>
      BY <1>4, <2>3 DEF Turns
    <2>. QED  BY <1>2, <1>4, <2>3, <2>4 DEF Turns
  <1>. QED  BY <1>2, <1>4

LEMMA ReplyOne ==
    ASSUME PipeTypes, NEW r \in Answer, Reply(<<r>>)
    PROVE  /\ Len(toSource') = Len(toSource) + 1 /\ toSource'[Len(toSource) + 1] = r
           /\ \A i \in 1..Len(toSource) : toSource'[i] = toSource[i]
           /\ toSource' # <<>>
  <1>1. toSource' = Append(toSource, r)
    BY ConcatIsAppend DEF PipeTypes, Reply
  <1>. QED  BY <1>1, AppendFacts DEF PipeTypes

(* The reply to the record that the source waits for.                      *)
LEMMA FirstReply ==
    ASSUME PipeTypes, toSource = <<>>, NEW r \in Answer, Reply(<<r>>), r.item = pos,
           r.what = srcPc, srcPc \in {"T", "CD", "final", "E"}, UNCHANGED <<pos, srcPc>>
    PROVE  Replies' /\ Len(toSource') = 1 /\ toSource'[1] = r /\ toSource' # <<>>
  <1>1. Len(toSource') = 1 /\ toSource'[1] = r /\ toSource' # <<>>
    BY ReplyOne, EmptyFacts DEF PipeTypes
  <1>. QED  BY <1>1 DEF Replies

(* sink returns when nothing is left in the pipe.                          *)
LEMMA PopInStep ==
    ASSUME SnkTypes, PipeTypes, Records, Pending, Depth > 1, stack' = Popped, toSink' = <<>>,
           UNCHANGED <<pflag, snkPc, cur, srcPc>>, snkPc = "read", srcPc # "T"
    PROVE  Records' /\ Pending'
  <1>1. /\ Len(stack') = Len(stack) - 1 /\ Len(stack) \in Nat
        /\ \A d \in 1..(Len(stack) - 2) : stack'[d] = stack[d]
        /\ \A d \in 1..(Len(stack) - 1) : stack'[d].dir = stack[d].dir
        /\ stack'[Len(stack) - 1].times = 0
    BY PopFacts DEF SnkTypes
  <1>2. ~Receiving'
    BY DEF Receiving
  <1>3. Times(Depth)' = 0
    BY <1>1 DEF Times, Depth
  <1>4. ASSUME NEW d \in 1..(Len(stack') - 1)
        PROVE  stack'[d].times = IF pflag THEN stack'[d + 1].dir ELSE 0
    <2>1. d \in 1..(Len(stack) - 2) /\ d \in 1..(Len(stack) - 1) /\ d + 1 \in 1..(Len(stack) - 1)
      BY <1>1
    <2>2. stack'[d] = stack[d] /\ stack'[d + 1].dir = stack[d + 1].dir
      BY <1>1, <2>1
    <2>3. stack[d].times = IF pflag THEN stack[d + 1].dir ELSE 0
      BY <2>1 DEF Pending, Depth
    <2>. QED  BY <2>2, <2>3
  <1>5. Pending'
    BY <1>2, <1>3, <1>4 DEF Pending, Depth
  <1>6. ~cur.failed
    BY DEF Records
  <1>. QED  BY <1>2, <1>5, <1>6 DEF Records

LEMMA OwnTimesSet ==
    ASSUME SnkTypes, OwnTimes, NEW n \in Items, NEW t \in {0, n},
           stored' = [stored EXCEPT ![n].done = TRUE, ![n].times = t]
    PROVE  OwnTimes'
  BY DEF SnkTypes, Copy, OwnTimes

LEMMA SinkInStep ==
    ASSUME IInv, SinkStep \/ SinkKilled
    PROVE  InStepInv'
  <1>1. /\ SrcTypes /\ SrcPlaces /\ PipeTypes /\ SnkTypes /\ SnkPlaces /\ OptTypes
        /\ SnkTypes' /\ SnkPlaces' /\ PipeTypes' /\ UNCHANGED <<optVars, srcVars>>
    BY NextSnkTypes DEF IInv
  <1>2. /\ UNCHANGED <<client, pflag, protocol, pos, srcPc, srcLeft, srcErr, srcExit, content>>
        /\ (SrcGone' <=> SrcGone)
    BY <1>1 DEF optVars, srcVars, SrcGone
  <1>3. faults' = faults \/ \E f \in Faults : Fault(f)
    <2>1. \A f : Fault(f) => f \in Faults
      BY DEF Fault
    <2>2. faults' = faults \/ \E f : Fault(f)
      BY DEF SinkStep, SinkKilled, SinkHearsError, SinkTakesTimes, SinkRefuses, SinkEntersDir,
             SinkOpensFile, SinkEndsDir, SinkMeetsEnd, SinkReturns, SinkScrewsUp, RecvSize,
             SizeNeverComes, RecvUnit, RecvDone, SinkFinishesFile, SinkMisreads, SinkLosesSource
    <2>. QED  BY <2>1, <2>2
  <1>. SUFFICES ASSUME Steady'
                PROVE  /\ ~SrcGone' => Replies'
                       /\ ~SnkGone' => Records' /\ Pending'
                       /\ ~SrcGone' /\ ~SnkGone' => Turns'
                       /\ OwnTimes'
    BY DEF InStepInv
  <1>4. Steady
    BY <1>1, <1>3, NoneStays DEF Steady
  <1>5. ~SnkGone
    BY <1>1 DEF SinkStep, SinkKilled, SinkHearsError, SinkTakesTimes, SinkRefuses, SinkEntersDir,
           SinkOpensFile, SinkEndsDir, SinkMeetsEnd, SinkScrewsUp, RecvSize, SizeNeverComes,
           RecvUnit, RecvDone,
           SinkFinishesFile, SinkMisreads, SinkLosesSource, Reads, SnkPlaces
  <1>6. /\ Len(toSink) \in Nat /\ Len(toSource) \in Nat
        /\ toSink = <<>> <=> Len(toSink) = 0
        /\ toSource = <<>> <=> Len(toSource) = 0
        /\ Len(stack) \in Nat
    BY <1>1, EmptyFacts DEF PipeTypes, SnkTypes
  <1>7. /\ Records /\ Pending /\ OwnTimes
        /\ ~SrcGone => Replies /\ Turns
    BY <1>4, <1>5 DEF IInv, InStepInv
  <1>8. ASSUME NEW what, Reads(what)
        PROVE  /\ snkPc = "read" /\ ~Receiving /\ toSink # <<>> /\ toSink[1].what = what
               /\ Next1 = toSink[1] /\ Next1 \in Rec /\ toSink' = Tail(toSink)
               /\ ~cur.failed
    <2>1. snkPc = "read" /\ toSink # <<>> /\ Next1.what = what /\ toSink' = Tail(toSink)
      BY <1>8 DEF Reads
    <2>2. Next1 = toSink[1] /\ Next1 \in Rec
      BY <1>1, <2>1, ReadFacts
    <2>. QED  BY <1>7, <2>1, <2>2 DEF Receiving, Records
  <1>9. toSink # <<>> /\ toSink' = Tail(toSink) =>
           /\ Len(toSink) >= 1 /\ Len(toSink') = Len(toSink) - 1
           /\ \A i \in 1..(Len(toSink) - 1) : toSink'[i] = toSink[i + 1]
           /\ toSink' = <<>> <=> Len(toSink') = 0
    BY <1>1, TailFacts, EmptyFacts DEF PipeTypes
  <1>10. ASSUME NEW what \in {"T", "CD", "E"}, Reads(what)
         PROVE  /\ toSink' = <<>> /\ Len(toSink') = 0 /\ Next1.item = pos
                /\ ~SrcGone => toSource = <<>> /\ srcPc = what
                /\ what \in {"T", "CD"} => \A i \in 1..Len(toSink) : toSink[i].what = what
                /\ Len(toSink) = 1
    <2>1. /\ snkPc = "read" /\ toSink # <<>> /\ toSink[1].what = what /\ Next1 = toSink[1]
          /\ toSink' = Tail(toSink)
      BY <1>8, <1>10
    <2>2. /\ Len(toSink) = 1 /\ toSink[1].item = pos
          /\ ~SrcGone => toSource = <<>> /\ srcPc = what
      BY <1>1, <1>7, <2>1, HeadOfTurn
    <2>. QED  BY <1>9, <2>1, <2>2
  <1>11. CASE SinkHearsError
    <2>1. /\ Reads("error") /\ UNCHANGED <<stack, snkPc, cur, stored, toSource>>
      BY <1>11 DEF SinkHearsError
    <2>2. /\ snkPc = "read" /\ ~Receiving /\ ~Receiving' /\ toSink # <<>> /\ toSink' = Tail(toSink)
          /\ toSink[1].what = "error" /\ ~cur.failed /\ Len(toSink) >= 1
      BY <1>6, <1>8, <2>1 DEF Receiving
    <2>3. /\ Len(toSink') = Len(toSink) - 1
          /\ \A i \in 1..Len(toSink') : i + 1 \in 1..Len(toSink) /\ toSink'[i] = toSink[i + 1]
          /\ toSink' = <<>> <=> Len(toSink') = 0
      BY <1>6, <1>9, <2>2
    <2>4. Replies' \/ SrcGone
      BY <1>2, <1>7, <2>1 DEF Replies
    <2>5. Records'
      <3>1. ASSUME NEW i \in 1..Len(toSink')
            PROVE  /\ toSink'[i].what \in {"T", "CD", "E"} =>
                         i = Len(toSink') /\ toSink'[i].item = pos
                   /\ toSink'[i].what # "nul"
        <4>1. /\ i \in Int /\ i >= 1 /\ i + 1 \in 1..Len(toSink) /\ toSink'[i] = toSink[i + 1]
              /\ i + 1 # 1
          BY <1>6, <2>3
        <4>2. /\ toSink[i + 1].what \in {"T", "CD", "E"} =>
                    i + 1 = Len(toSink) /\ toSink[i + 1].item = pos
              /\ toSink[i + 1].what # "nul"
          BY <1>7, <4>1 DEF Records
        <4>. QED  BY <1>6, <2>3, <4>1, <4>2
      <3>. QED  BY <1>2, <2>1, <2>2, <3>1 DEF Records
    <2>6. Pending'
      BY <1>2, <1>7, <2>1, <2>3, PendingSame DEF Pending
    <2>7. ASSUME ~SrcGone PROVE Turns'
      <3>1. Turns /\ srcPc # "done"
        BY <1>1, <1>7, <2>7 DEF SrcPlaces
      <3>2. srcPc = "item" \/ (srcPc \in {"T", "CD", "E"} /\ toSource = <<>>)
        BY <1>1, <1>6, <2>2, <3>1 DEF Turns, SrcTypes
      <3>3. CASE srcPc = "item"
        <4>1. \A i \in 1..Len(toSink') : toSink'[i].what \in {"nul", "error"}
          BY <2>3, <3>1, <3>3 DEF Turns
        <4>. QED  BY <1>2, <2>1, <2>2, <3>3, <4>1 DEF Turns
      <3>4. CASE srcPc \in {"T", "CD", "E"} /\ toSource = <<>>
        <4>1. toSink[Len(toSink)].what = srcPc
          BY <3>1, <3>4 DEF Turns
        <4>2. Len(toSink) > 1
          BY <1>6, <2>2, <3>4, <4>1
        <4>3. toSink' # <<>> /\ toSink'[Len(toSink')] = toSink[Len(toSink)]
          <5>1. Len(toSink') \in 1..Len(toSink')
            BY <1>6, <2>3, <4>2
          <5>. QED  BY <1>6, <2>3, <4>2, <5>1
        <4>. QED  BY <1>2, <2>1, <2>2, <3>4, <4>1, <4>3 DEF Turns
      <3>. QED  BY <3>2, <3>3, <3>4
    <2>. QED  BY <1>2, <1>7, <2>1, <2>4, <2>5, <2>6, <2>7 DEF OwnTimes
  <1>12. CASE SinkTakesTimes
    <2>1. /\ Reads("T") /\ SetTimes(Depth, Next1.item) /\ Reply(<<Ok("T", Next1.item)>>)
          /\ UNCHANGED <<snkPc, cur, stored>>
      BY <1>12 DEF SinkTakesTimes
    <2>2. /\ snkPc = "read" /\ ~Receiving /\ ~Receiving' /\ ~cur.failed /\ Next1 \in Rec
          /\ toSink # <<>> /\ toSink[1].what = "T"
      BY <1>8, <2>1 DEF Receiving
    <2>3. /\ toSink' = <<>> /\ Len(toSink') = 0 /\ Next1.item = pos /\ Len(toSink) = 1
          /\ ~SrcGone => toSource = <<>> /\ srcPc = "T"
      BY <1>10, <2>1
    <2>4. pos \in 0..Len(Walk) /\ pos \in Items
      BY <2>2, <2>3, WalkFacts DEF Rec
    <2>. DEFINE r == Ok("T", pos)
    <2>5. r \in Answer /\ r.ok /\ r.what = "T" /\ r.item = pos /\ Reply(<<r>>)
      BY <2>1, <2>3, <2>4, AnswerFacts DEF Ok
    <2>. HIDE DEF r
    <2>6. ~SrcGone => Replies' /\ toSource' # <<>>
      BY <1>1, <1>2, <2>3, <2>5, FirstReply
    <2>7. Records'
      BY <2>1, <2>2, <2>3, <1>7 DEF Records
    <2>8. pflag
      <3>1. 1 \in 1..Len(toSink)
        BY <2>3
      <3>. QED  BY <1>7, <2>2, <3>1 DEF Pending
    <2>9. /\ Len(stack') = Len(stack) /\ Len(stack) \in Nat
          /\ \A d \in 1..(Len(stack) - 1) : stack'[d] = stack[d]
          /\ \A d \in 1..Len(stack) : stack'[d].dir = stack[d].dir
          /\ stack'[Len(stack)].times = pos
      BY <1>1, <2>1, <2>3, <2>4, SetTimesFacts DEF SnkTypes
    <2>10. Pending'
      <3>1. ASSUME NEW d \in 1..(Len(stack') - 1) PROVE stack'[d].times = stack'[d + 1].dir
        <4>1. d \in 1..(Len(stack) - 1) /\ d + 1 \in 1..Len(stack)
          BY <2>9
        <4>. QED  BY <1>7, <2>8, <2>9, <4>1 DEF Pending, Depth
      <3>2. Times(Depth)' = pos
        BY <2>9 DEF Times, Depth
      <3>. QED  BY <1>2, <2>2, <2>3, <2>8, <3>1, <3>2 DEF Pending, Depth
    <2>11. ~SrcGone => Turns'
      BY <1>2, <2>1, <2>2, <2>3, <2>6 DEF Turns
    <2>. QED  BY <1>2, <1>7, <2>1, <2>6, <2>7, <2>10, <2>11 DEF OwnTimes
  <1>13. CASE SinkRefuses
    <2>1. /\ Reads("CD") /\ Reply(<<Bad("CD", Next1.item)>>)
          /\ UNCHANGED <<stack, snkPc, cur, stored>>
      BY <1>13 DEF SinkRefuses, Refusal
    <2>2. /\ snkPc = "read" /\ ~Receiving /\ ~Receiving' /\ ~cur.failed /\ Next1 \in Rec
      BY <1>8, <2>1 DEF Receiving
    <2>3. /\ toSink' = <<>> /\ Len(toSink') = 0 /\ Next1.item = pos
          /\ ~SrcGone => toSource = <<>> /\ srcPc = "CD"
      BY <1>10, <2>1
    <2>4. pos \in 0..Len(Walk)
      BY <2>2, <2>3, WalkFacts DEF Rec
    <2>. DEFINE r == Bad("CD", pos)
    <2>5. r \in Answer /\ ~r.ok /\ r.what = "CD" /\ r.item = pos /\ Reply(<<r>>)
      BY <2>1, <2>3, <2>4, AnswerFacts DEF Bad
    <2>. HIDE DEF r
    <2>6. ~SrcGone => Replies' /\ toSource' # <<>> /\ toSource'[1] = r
      BY <1>1, <1>2, <2>3, <2>5, FirstReply
    <2>7. Records'
      BY <2>1, <2>2, <2>3 DEF Records
    <2>8. srcPc # "T" \/ SrcGone
      BY <2>3
    <2>9. Pending'
      <3>1. srcPc # "T"
        BY <1>1, <2>8 DEF SrcPlaces
      <3>. QED  BY <1>2, <1>7, <2>1, <2>3, <3>1, PendingSame
    <2>10. ~SrcGone => Turns'
      BY <1>2, <2>1, <2>2, <2>3, <2>5, <2>6 DEF Turns
    <2>. QED  BY <1>2, <1>7, <2>1, <2>6, <2>7, <2>9, <2>10 DEF OwnTimes
  <1>14. CASE SinkEntersDir
    <2>. DEFINE f == [dir |-> pos, times |-> 0]
    <2>1. /\ Reads("CD") /\ Walk[Next1.item].kind = "dir" /\ Reply(<<Ok("CD", Next1.item)>>)
          /\ stack' = Append(stack, [dir |-> Next1.item, times |-> 0])
          /\ UNCHANGED <<snkPc, cur, stored>>
      BY <1>14 DEF SinkEntersDir
    <2>2. /\ snkPc = "read" /\ ~Receiving /\ ~Receiving' /\ ~cur.failed /\ Next1 \in Rec
          /\ toSink # <<>> /\ toSink[1].what = "CD"
      BY <1>8, <2>1 DEF Receiving
    <2>3. /\ toSink' = <<>> /\ Len(toSink') = 0 /\ Next1.item = pos /\ Len(toSink) = 1
          /\ ~SrcGone => toSource = <<>> /\ srcPc = "CD"
      BY <1>10, <2>1
    <2>4. pos \in 0..Len(Walk) /\ 0 \in 0..Len(Walk)
      BY <2>2, <2>3, WalkFacts DEF Rec
    <2>. DEFINE r == Ok("CD", pos)
    <2>5. r \in Answer /\ r.what = "CD" /\ r.item = pos /\ Reply(<<r>>)
      BY <2>1, <2>3, <2>4, AnswerFacts DEF Ok
    <2>. HIDE DEF r
    <2>6. ~SrcGone => Replies' /\ toSource' # <<>>
      BY <1>1, <1>2, <2>3, <2>5, FirstReply
    <2>7. Records'
      BY <2>1, <2>2, <2>3 DEF Records
    <2>8. f \in Frame /\ f.dir = pos /\ f.times = 0 /\ stack' = Append(stack, f)
      BY <2>1, <2>3, <2>4 DEF Frame
    <2>. HIDE DEF f
    <2>9. /\ Len(stack') = Len(stack) + 1 /\ Len(stack) >= 1
          /\ \A d \in 1..Len(stack) : stack'[d] = stack[d]
          /\ stack'[Len(stack) + 1] = f
      BY <1>1, <2>8, AppendFacts, EmptyFacts DEF SnkTypes
    <2>10. Times(Depth) = IF pflag THEN pos ELSE 0
      <3>1. 1 \in 1..Len(toSink)
        BY <2>3
      <3>. QED  BY <1>7, <2>2, <3>1 DEF Pending
    <2>11. Pending'
      <3>1. ASSUME NEW d \in 1..(Len(stack') - 1)
            PROVE  stack'[d].times = IF pflag THEN stack'[d + 1].dir ELSE 0
        <4>1. CASE d \in 1..(Len(stack) - 1)
          <5>1. d \in 1..Len(stack) /\ d + 1 \in 1..Len(stack)
            BY <1>6, <4>1
          <5>2. stack'[d] = stack[d] /\ stack'[d + 1] = stack[d + 1]
            BY <2>9, <5>1
          <5>. QED  BY <1>7, <4>1, <5>2 DEF Pending, Depth
        <4>2. CASE d = Len(stack)
          <5>1. stack'[d] = stack[d] /\ stack'[d + 1] = f
            BY <1>6, <2>9, <4>2
          <5>. QED  BY <2>8, <2>10, <4>2, <5>1 DEF Times, Depth
        <4>. QED  BY <1>6, <2>9, <4>1, <4>2
      <3>2. Times(Depth)' = 0
        BY <2>8, <2>9 DEF Times, Depth
      <3>3. srcPc # "T"
        BY <1>1, <2>3 DEF SrcPlaces
      <3>. QED  BY <1>2, <2>2, <2>3, <3>1, <3>2, <3>3 DEF Pending, Depth
    <2>12. Walk[pos].kind = "dir"
      BY <2>1, <2>3
    <2>13. ~SrcGone => Turns'
      BY <1>2, <2>1, <2>2, <2>3, <2>6, <2>12 DEF Turns
    <2>. QED  BY <1>2, <1>7, <2>1, <2>6, <2>7, <2>11, <2>13 DEF OwnTimes
  <1>15. CASE SinkOpensFile
    <2>1. /\ Reads("CD") /\ Walk[Next1.item].kind = "file" /\ Reply(<<Ok("CD", Next1.item)>>)
          /\ snkPc' \in {"recv", "size"}
          /\ cur' = [NoFile EXCEPT !.item = Next1.item, !.left = Size(Next1.item)]
          /\ UNCHANGED <<stack, stored>>
      BY <1>15 DEF SinkOpensFile
    <2>2. /\ snkPc = "read" /\ Receiving' /\ Next1 \in Rec
          /\ toSink # <<>> /\ toSink[1].what = "CD"
      BY <1>8, <2>1 DEF Receiving
    <2>3. /\ toSink' = <<>> /\ Len(toSink') = 0 /\ Next1.item = pos /\ Len(toSink) = 1
          /\ ~SrcGone => toSource = <<>> /\ srcPc = "CD"
      BY <1>10, <2>1
    <2>4. pos \in 0..Len(Walk) /\ cur'.item = pos /\ ~cur'.failed
      BY <2>1, <2>2, <2>3, WalkFacts DEF Rec, NoFile
    <2>. DEFINE r == Ok("CD", pos)
    <2>5. r \in Answer /\ r.what = "CD" /\ r.item = pos /\ r.ok /\ Reply(<<r>>)
      BY <2>1, <2>3, <2>4, AnswerFacts DEF Ok
    <2>. HIDE DEF r
    <2>6. ~SrcGone => Replies' /\ Len(toSource') = 1 /\ toSource'[1] = r /\ toSource' # <<>>
      BY <1>1, <1>2, <2>3, <2>5, FirstReply
    <2>7. Records'
      BY <1>2, <2>3, <2>4 DEF Records
    <2>8. Times(Depth) = IF pflag THEN pos ELSE 0
      <3>1. 1 \in 1..Len(toSink)
        BY <2>3
      <3>. QED  BY <1>7, <2>2, <3>1 DEF Pending
    <2>9. Pending'
      <3>1. Depth' = Depth /\ Times(Depth)' = Times(Depth)
        BY <2>1 DEF Times, Depth
      <3>2. srcPc # "T"
        BY <1>1, <2>3 DEF SrcPlaces
      <3>. QED  BY <1>2, <1>7, <2>1, <2>3, <2>4, <2>8, <3>1, <3>2 DEF Pending
    <2>10. Walk[pos].kind = "file"
      BY <2>1, <2>3
    <2>11. ~SrcGone => Turns'
      BY <1>2, <2>2, <2>3, <2>4, <2>5, <2>6, <2>10 DEF Turns
    <2>. QED  BY <1>2, <1>7, <2>1, <2>6, <2>7, <2>9, <2>11 DEF OwnTimes
  <1>16. ASSUME NEW R \in Seq(Answer), SinkReturns(R), snkPc = "read", cur' = cur, toSink' = <<>>,
                srcPc # "T"
         PROVE  /\ ~SnkGone' => /\ Records' /\ Pending' /\ Reply(R) /\ snkPc' = "read"
                /\ SnkGone' => Reply(R)
                /\ OwnTimes'
    <2>1. ~Fault("dirtimes")
      <3>1. Fault("dirtimes") => faults'.had = faults.had \cup {"dirtimes"}
        BY <1>1, FaultFacts
      <3>. QED  BY <3>1 DEF Steady, None
    <2>2. CASE snkPc' = "done" /\ Reply(R) /\ stored' = stored
      <3>1. SnkGone'
        BY <1>1, <2>2 DEF SnkPlaces
      <3>. QED  BY <1>7, <2>2, <3>1 DEF OwnTimes
    <2>3. CASE /\ Depth > 1 /\ Reply(R) /\ stack' = Popped
               /\ stored' = [stored EXCEPT ![stack[Depth].dir].done = TRUE,
                                           ![stack[Depth].dir].times = Times(Depth - 1)]
               /\ UNCHANGED <<snkPc, snkErr, snkExit, faults>>
      <3>1. Records' /\ Pending'
        BY <1>1, <1>2, <1>7, <1>16, <2>3, PopInStep
      <3>2. OwnTimes'
        <4>. DEFINE n == stack[Depth].dir
        <4>. DEFINE t == Times(Depth - 1)
        <4>1. n \in Items
          BY <1>1, <1>6, <2>3 DEF SnkPlaces, Depth
        <4>2. t \in {0, n}
          <5>1. /\ Depth - 1 \in 1..(Depth - 1) /\ Depth - 1 + 1 = Depth
            BY <1>6, <2>3 DEF Depth
          <5>2. stack[Depth - 1].times = IF pflag THEN stack[Depth - 1 + 1].dir ELSE 0
            BY <1>7, <5>1 DEF Pending
          <5>. QED  BY <5>1, <5>2 DEF Times
        <4>3. stored' = [stored EXCEPT ![n].done = TRUE, ![n].times = t]
          BY <2>3
        <4>. HIDE DEF n, t
        <4>. QED  BY <1>1, <1>7, <4>1, <4>2, <4>3, OwnTimesSet
      <3>. QED  BY <1>16, <2>3, <3>1, <3>2
    <2>. QED  BY <1>16, <2>1, <2>2, <2>3 DEF SinkReturns
  <1>17. CASE SinkEndsDir
    <2>1. /\ Reads("E") /\ SinkReturns(<<Ok("E", Next1.item)>>) /\ cur' = cur
      BY <1>17 DEF SinkEndsDir, EndReply
    <2>2. /\ snkPc = "read" /\ Next1 \in Rec
      BY <1>8, <2>1
    <2>3. /\ toSink' = <<>> /\ Next1.item = pos
          /\ ~SrcGone => toSource = <<>> /\ srcPc = "E"
      BY <1>10, <2>1
    <2>4. pos \in 0..Len(Walk)
      BY <2>2, <2>3, WalkFacts DEF Rec
    <2>. DEFINE r == Ok("E", pos)
    <2>5. r \in Answer /\ r.what = "E" /\ r.item = pos /\ <<r>> \in Seq(Answer) /\ SinkReturns(<<r>>)
      BY <2>1, <2>3, <2>4, AnswerFacts DEF Ok
    <2>. HIDE DEF r
    <2>6. srcPc # "T"
      BY <1>1, <2>3 DEF SrcPlaces
    <2>7. /\ ~SnkGone' => Records' /\ Pending' /\ snkPc' = "read"
          /\ Reply(<<r>>) /\ OwnTimes'
      BY <1>16, <2>1, <2>2, <2>3, <2>5, <2>6
    <2>8. ~SrcGone => Replies' /\ toSource' # <<>>
      BY <1>1, <1>2, <2>3, <2>5, <2>7, FirstReply
    <2>9. ~SrcGone /\ ~SnkGone' => Turns'
      BY <1>2, <2>3, <2>7, <2>8 DEF Turns
    <2>. QED  BY <1>2, <2>7, <2>8, <2>9
  <1>18. CASE SinkMeetsEnd
    <2>1. /\ snkPc = "read" /\ toSink' = <<>> /\ SrcGone /\ SinkReturns(<<>>) /\ cur' = cur
      BY <1>18 DEF SinkMeetsEnd
    <2>2. srcPc # "T" /\ <<>> \in Seq(Answer)
      BY <1>1, <2>1 DEF SrcPlaces
    <2>. QED  BY <1>2, <1>16, <2>1, <2>2
  <1>19. ~SinkScrewsUp
    <2>. SUFFICES ASSUME SinkScrewsUp PROVE FALSE
      OBVIOUS
    <2>1. Reads("nul")
      BY DEF SinkScrewsUp
    <2>2. toSink # <<>> /\ toSink[1].what = "nul" /\ ~Receiving
      BY <1>8, <2>1
    <2>3. 1 \in 1..Len(toSink)
      BY <1>6, <2>2
    <2>. QED  BY <1>7, <2>2, <2>3 DEF Records
  <1>20. CASE RecvSize \/ SizeNeverComes \/ RecvUnit
    <2>1. /\ snkPc \in {"size", "recv"} /\ snkPc' = "recv" /\ cur'.item = cur.item
          /\ cur'.failed = cur.failed /\ UNCHANGED <<stack, stored, toSink, toSource>>
      BY <1>1, <1>20 DEF RecvSize, SizeNeverComes, RecvUnit, SnkTypes
    <2>2. ~cur.failed /\ Receiving /\ Receiving'
      BY <1>7, <2>1 DEF Records, Receiving
    <2>3. Depth' = Depth /\ Times(Depth)' = Times(Depth)
      BY <2>1 DEF Depth, Times
    <2>4. Records'
      BY <1>2, <1>7, <2>1, <2>2 DEF Records
    <2>5. Pending'
      BY <1>2, <1>7, <2>1, <2>2, <2>3 DEF Pending
    <2>6. ~SrcGone => Replies' /\ Turns'
      <3>1. ~SrcGone => Replies'
        BY <1>2, <1>7, <2>1 DEF Replies
      <3>2. ~SrcGone => Turns'
        BY <1>2, <1>7, <2>1, <2>2 DEF Turns
      <3>. QED  BY <3>1, <3>2
    <2>. QED  BY <1>2, <1>7, <2>1, <2>4, <2>5, <2>6 DEF OwnTimes
  <1>21. CASE RecvDone
    <2>1. /\ snkPc = "recv" /\ snkPc' = "resp" /\ UNCHANGED <<stack, toSink>>
          /\ stored' = [stored EXCEPT ![cur.item].whole = TRUE, ![cur.item].data = cur.got]
      BY <1>21 DEF RecvDone
    <2>2. ~cur.failed /\ Receiving /\ Receiving' /\ cur.item = pos
      BY <1>7, <2>1 DEF Records, Receiving
    <2>3. OwnTimes'
      BY <1>1, <1>7, <2>1 DEF OwnTimes, SnkTypes, Copy
    <2>4. Depth' = Depth /\ Times(Depth)' = Times(Depth)
      BY <2>1 DEF Depth, Times
    <2>5. CASE UNCHANGED <<cur, toSource>>
      <3>1. Records'
        BY <1>2, <1>7, <2>1, <2>2, <2>5 DEF Records
      <3>2. Pending'
        BY <1>2, <1>7, <2>1, <2>2, <2>4, <2>5 DEF Pending
      <3>3. ~SrcGone => Replies'
        BY <1>2, <1>7, <2>5 DEF Replies
      <3>4. ~SrcGone => Turns'
        BY <1>2, <1>7, <2>1, <2>2, <2>5 DEF Turns
      <3>. QED  BY <1>2, <2>3, <3>1, <3>2, <3>3, <3>4
    <2>6. CASE /\ Reply(<<Bad("final", cur.item)>>) /\ cur' = [cur EXCEPT !.failed = TRUE]
      <3>. DEFINE r == Bad("final", pos)
      <3>1. pos \in 0..Len(Walk)
        BY <1>1, <2>2 DEF SnkTypes
      <3>2. r \in Answer /\ r.what = "final" /\ r.item = pos /\ ~r.ok /\ Reply(<<r>>)
        BY <2>2, <2>6, <3>1, AnswerFacts DEF Bad
      <3>. HIDE DEF r
      <3>3. /\ Len(toSource') = Len(toSource) + 1 /\ toSource'[Len(toSource) + 1] = r
            /\ \A i \in 1..Len(toSource) : toSource'[i] = toSource[i]
            /\ toSource' # <<>>
        BY <1>1, <3>2, ReplyOne
      <3>4. cur'.failed /\ cur'.item = cur.item
        BY <1>1, <2>6 DEF SnkTypes
      <3>5. \A i \in 1..Len(toSink) : i = 1 /\ toSink[i].what = "nul"
        BY <1>7, <2>2 DEF Records
      <3>6. Records'
        BY <2>1, <2>2, <3>4, <3>5 DEF Records
      <3>7. ~SrcGone => \/ srcPc = "CD" /\ Len(toSource) = 1 /\ toSource[1].ok /\ Walk[pos].kind = "file"
                        \/ srcPc \in {"open", "data"} /\ toSource = <<>> /\ toSink = <<>>
                        \/ srcPc = "final" /\ toSource = <<>> /\ Len(toSink) = 1
        <4>. SUFFICES ASSUME ~SrcGone
                      PROVE  \/ /\ srcPc = "CD" /\ Len(toSource) = 1 /\ toSource[1].ok
                                /\ Walk[pos].kind = "file"
                             \/ srcPc \in {"open", "data"} /\ toSource = <<>> /\ toSink = <<>>
                             \/ srcPc = "final" /\ toSource = <<>> /\ Len(toSink) = 1
          OBVIOUS
        <4>1. Turns /\ Replies /\ srcPc # "done" /\ snkPc # "read"
          BY <1>1, <1>7, <2>1 DEF SrcPlaces
        <4>2. srcPc \notin {"start", "item", "T", "E"}
          BY <2>2, <4>1 DEF Turns
        <4>3. CASE srcPc = "CD"
          <5>1. /\ toSource # <<>> /\ toSource[1].ok /\ Walk[pos].kind = "file"
                /\ ~(Len(toSource) = 2)
            BY <2>2, <4>1, <4>3 DEF Turns
          <5>2. Len(toSource) = 1
            BY <1>6, <4>1, <4>3, <5>1 DEF Replies
          <5>. QED  BY <4>3, <5>1, <5>2
        <4>4. CASE srcPc \in {"open", "data"}
          BY <2>2, <4>1, <4>4 DEF Turns
        <4>5. CASE srcPc = "final"
          BY <2>2, <4>1, <4>5 DEF Turns
        <4>. QED  BY <1>1, <4>1, <4>2, <4>3, <4>4, <4>5 DEF SrcTypes
      <3>8. Pending'
        <4>1. srcPc # "T"
          BY <1>1, <3>7 DEF SrcPlaces
        <4>. QED  BY <1>2, <1>7, <2>1, <2>4, <3>4, <3>5, <4>1 DEF Pending
      <3>9. ASSUME ~SrcGone PROVE Replies' /\ Turns'
        <4>1. Replies /\ Turns
          BY <1>7, <3>9
        <4>2. CASE srcPc = "CD"
          <5>1. Len(toSource) = 1 /\ toSource[1].ok /\ Walk[pos].kind = "file" /\ toSink = <<>>
                /\ toSource[1].what = "CD" /\ toSource[1].item = pos
            <6>1. Len(toSource) = 1 /\ toSource[1].ok /\ Walk[pos].kind = "file"
              BY <3>7, <3>9, <4>2
            <6>2. 1 \in 1..Len(toSource) /\ toSource # <<>>
              BY <1>6, <6>1
            <6>3. toSource[1].what = "CD" /\ toSource[1].item = pos
              BY <4>1, <4>2, <6>1, <6>2 DEF Replies
            <6>. QED  BY <4>1, <4>2, <6>1, <6>2, <6>3 DEF Turns
          <5>2. Len(toSource') = 2 /\ toSource'[1] = toSource[1] /\ toSource'[2] = r
            BY <3>3, <5>1
          <5>3. Replies'
            BY <1>2, <3>2, <4>2, <5>1, <5>2 DEF Replies
          <5>4. Turns'
            BY <1>2, <2>1, <2>2, <3>4, <4>2, <5>1, <5>2 DEF Turns
          <5>. QED  BY <5>3, <5>4
        <4>3. CASE srcPc \in {"open", "data"}
          <5>1. toSource = <<>> /\ toSink = <<>>
            BY <3>7, <3>9, <4>3
          <5>2. Len(toSource') = 1 /\ toSource'[1] = r
            BY <1>6, <3>3, <5>1
          <5>3. Replies'
            BY <1>2, <3>2, <4>3, <5>2 DEF Replies
          <5>4. Turns'
            BY <1>2, <2>1, <2>2, <3>3, <3>4, <4>3, <5>1 DEF Turns
          <5>. QED  BY <5>3, <5>4
        <4>4. CASE srcPc = "final"
          <5>1. toSource = <<>> /\ Len(toSink) = 1 /\ toSink[1].what = "nul"
            <6>1. toSource = <<>> /\ Len(toSink) = 1
              BY <3>7, <3>9, <4>4
            <6>. QED  BY <3>5, <6>1
          <5>2. Len(toSource') = 1 /\ toSource'[1] = r
            BY <1>6, <3>3, <5>1
          <5>3. Replies'
            BY <1>2, <3>2, <4>4, <5>2 DEF Replies
          <5>4. Turns'
            BY <1>2, <2>1, <2>2, <3>3, <3>4, <4>4, <5>1 DEF Turns
          <5>. QED  BY <5>3, <5>4
        <4>. QED  BY <3>7, <3>9, <4>2, <4>3, <4>4
      <3>. QED  BY <1>2, <2>3, <3>6, <3>8, <3>9
    <2>. QED  BY <1>21, <2>5, <2>6 DEF RecvDone
  <1>22. CASE SinkFinishesFile
    <2>1. /\ snkPc = "resp" /\ toSink # <<>> /\ toSink' = Tail(toSink) /\ snkPc' = "read"
          /\ cur' = NoFile
      BY <1>22 DEF SinkFinishesFile
    <2>2. /\ Receiving /\ ~Receiving' /\ ~cur'.failed /\ cur.item \in Items
          /\ Len(toSink) >= 1 /\ 1 \in 1..Len(toSink)
      BY <1>1, <1>6, <2>1 DEF Receiving, NoFile, SnkPlaces
    <2>3. toSink[1].what = "nul"
      BY <1>7, <2>2 DEF Records
    <2>4. /\ Len(toSink') = Len(toSink) - 1
          /\ \A i \in 1..Len(toSink') : i + 1 \in 1..Len(toSink) /\ toSink'[i] = toSink[i + 1]
          /\ toSink' = <<>> <=> Len(toSink') = 0
      BY <1>6, <1>9, <2>1
    <2>5. \A i \in 2..Len(toSink) : toSink[i].what # "nul"
      BY <1>7 DEF Records
    <2>6. Records'
      <3>1. ASSUME NEW i \in 1..Len(toSink')
            PROVE  /\ toSink'[i].what \in {"T", "CD", "E"} =>
                         i = Len(toSink') /\ toSink'[i].item = pos
                   /\ toSink'[i].what # "nul"
        <4>1. i \in Int /\ i + 1 \in 2..Len(toSink) /\ i + 1 \in 1..Len(toSink)
              /\ toSink'[i] = toSink[i + 1]
          BY <1>6, <2>4
        <4>2. toSink[i + 1].what \in {"T", "CD", "E"} =>
                 i + 1 = Len(toSink) /\ toSink[i + 1].item = pos
          BY <1>7, <4>1 DEF Records
        <4>. QED  BY <1>6, <2>4, <2>5, <4>1, <4>2
      <3>. QED  BY <1>2, <2>2, <3>1 DEF Records
    <2>7. ~SrcGone => srcPc # "start"
      BY <1>7, <2>1 DEF Turns
    <2>8. CASE cur.failed /\ UNCHANGED <<stack, stored, toSource>>
      <3>1. Pending'
        <4>1. Depth' = Depth /\ Times(Depth)' = Times(Depth)
          BY <2>8 DEF Depth, Times
        <4>2. \A i \in 1..Len(toSink) : pflag => toSink[i].what # "CD"
          BY <1>7, <2>1 DEF Pending
        <4>. QED  BY <1>2, <1>7, <2>2, <2>4, <2>8, <4>1, <4>2 DEF Pending
      <3>2. ~SrcGone => Replies'
        BY <1>2, <1>7, <2>8 DEF Replies
      <3>3. ASSUME ~SrcGone PROVE Turns'
        <4>1. Turns /\ srcPc # "done" /\ srcPc # "start"
          BY <1>1, <1>7, <2>7, <3>3 DEF SrcPlaces
        <4>2. CASE srcPc = "item"
          <5>1. \A i \in 1..Len(toSink') : toSink'[i].what \in {"nul", "error"}
            BY <2>4, <4>1, <4>2 DEF Turns
          <5>. QED  BY <1>2, <2>1, <4>2, <5>1 DEF Turns
        <4>3. CASE srcPc \in {"T", "CD", "E"}
          <5>1. toSource = <<>>
            BY <1>6, <2>1, <2>2, <4>1, <4>3 DEF Turns
          <5>2. toSink[Len(toSink)].what = srcPc
            BY <4>1, <4>3, <5>1 DEF Turns
          <5>3. Len(toSink) > 1
            BY <1>6, <2>2, <2>3, <4>3, <5>2
          <5>4. toSink' # <<>> /\ toSink'[Len(toSink')] = toSink[Len(toSink)]
            <6>1. Len(toSink') \in 1..Len(toSink')
              BY <1>6, <2>4, <5>3
            <6>. QED  BY <1>6, <2>4, <5>3, <6>1
          <5>. QED  BY <1>2, <2>1, <2>8, <4>3, <5>1, <5>2, <5>4 DEF Turns
        <4>4. CASE srcPc = "final"
          <5>1. Len(toSink) = 1 /\ toSource # <<>>
            BY <2>1, <2>8, <4>1, <4>4 DEF Turns
          <5>2. toSink' = <<>>
            BY <2>4, <5>1
          <5>. QED  BY <1>2, <2>1, <2>8, <4>4, <5>1, <5>2 DEF Turns
        <4>5. srcPc \notin {"open", "data"}
          BY <2>1, <4>1 DEF Turns
        <4>. QED  BY <1>1, <4>1, <4>2, <4>3, <4>4, <4>5 DEF SrcTypes
      <3>. QED  BY <1>2, <1>7, <2>6, <2>8, <3>1, <3>2, <3>3 DEF OwnTimes
    <2>9. ASSUME ~cur.failed
          PROVE  /\ Len(toSink) = 1 /\ toSink' = <<>> /\ cur.item = pos
                 /\ ~SrcGone => srcPc = "final" /\ toSource = <<>>
      <3>1. ~(Len(toSink) >= 2)
        <4>. SUFFICES ASSUME Len(toSink) >= 2 PROVE FALSE
          OBVIOUS
        <4>1. 2 \in 1..Len(toSink)
          BY <1>6
        <4>2. toSink[2].what = "nul"
          BY <1>7, <2>2, <2>9, <4>1 DEF Records
        <4>. QED  BY <2>5, <4>1, <4>2
      <3>2. Len(toSink) = 1 /\ toSink' = <<>>
        BY <1>6, <2>2, <2>4, <3>1
      <3>3. cur.item = pos
        BY <1>7, <2>2, <2>9 DEF Records
      <3>4. ASSUME ~SrcGone PROVE srcPc = "final" /\ toSource = <<>>
        <4>1. Turns /\ srcPc # "done" /\ srcPc # "start" /\ snkPc # "read"
          BY <1>1, <1>7, <2>1, <2>7, <3>4 DEF SrcPlaces
        <4>2. srcPc = "final"
          BY <1>1, <2>1, <2>9, <4>1 DEF Turns, SrcTypes
        <4>. QED  BY <2>9, <4>1, <4>2 DEF Turns
      <3>. QED  BY <3>2, <3>3, <3>4
    <2>10. ASSUME ~cur.failed, SetTimes(Depth, 0), NEW r \in Answer, Reply(<<r>>),
                  r.item = pos, r.what = "final"
           PROVE  Pending' /\ (~SrcGone => Replies' /\ Turns')
      <3>1. /\ toSink' = <<>> /\ Len(toSink') = 0
            /\ ~SrcGone => srcPc = "final" /\ toSource = <<>>
        BY <2>4, <2>9, <2>10
      <3>2. /\ Len(stack') = Len(stack) /\ Len(stack) \in Nat
            /\ \A d \in 1..(Len(stack) - 1) : stack'[d] = stack[d]
            /\ \A d \in 1..Len(stack) : stack'[d].dir = stack[d].dir
            /\ stack'[Len(stack)].times = 0
        <4>1. 0 \in 0..Len(Walk)
          BY WalkFacts
        <4>. QED  BY <1>1, <2>10, <4>1, SetTimesFacts DEF SnkTypes
      <3>3. Pending'
        <4>1. ASSUME NEW d \in 1..(Len(stack') - 1)
              PROVE  stack'[d].times = IF pflag THEN stack'[d + 1].dir ELSE 0
          <5>1. d \in 1..(Len(stack) - 1) /\ d + 1 \in 1..Len(stack)
            BY <3>2
          <5>. QED  BY <1>7, <3>2, <5>1 DEF Pending, Depth
        <4>2. Times(Depth)' = 0
          BY <3>2 DEF Times, Depth
        <4>3. srcPc # "T"
          BY <1>1, <3>1 DEF SrcPlaces
        <4>. QED  BY <1>2, <2>2, <3>1, <4>1, <4>2, <4>3 DEF Pending, Depth
      <3>4. ASSUME ~SrcGone PROVE Replies' /\ Turns'
        <4>1. srcPc = "final" /\ toSource = <<>>
          BY <3>1, <3>4
        <4>2. Replies' /\ toSource' # <<>>
          BY <1>1, <1>2, <2>10, <4>1, FirstReply
        <4>3. Turns'
          BY <1>2, <2>1, <3>1, <4>1, <4>2 DEF Turns
        <4>. QED  BY <4>2, <4>3
      <3>. QED  BY <3>3, <3>4
    <2>11. CASE ~cur.failed /\ SetTimes(Depth, 0) /\ Reply(<<Bad("final", cur.item)>>)
                /\ UNCHANGED stored
      <3>. DEFINE r == Bad("final", pos)
      <3>1. pos \in 0..Len(Walk) /\ cur.item = pos
        BY <1>1, <2>9, <2>11 DEF SnkTypes
      <3>2. r \in Answer /\ r.what = "final" /\ r.item = pos /\ Reply(<<r>>)
        BY <2>11, <3>1, AnswerFacts DEF Bad
      <3>. HIDE DEF r
      <3>3. Pending' /\ (~SrcGone => Replies' /\ Turns')
        BY <2>10, <2>11, <3>2
      <3>. QED  BY <1>2, <1>7, <2>6, <2>11, <3>3 DEF OwnTimes
    <2>12. CASE /\ ~cur.failed /\ SetTimes(Depth, 0) /\ Reply(<<Ok("final", cur.item)>>)
                /\ stored' = [stored EXCEPT ![cur.item].done = TRUE,
                                            ![cur.item].times = Times(Depth)]
      <3>. DEFINE r == Ok("final", pos)
      <3>1. pos \in 0..Len(Walk) /\ cur.item = pos
        BY <1>1, <2>9, <2>12 DEF SnkTypes
      <3>2. r \in Answer /\ r.what = "final" /\ r.item = pos /\ Reply(<<r>>)
        BY <2>12, <3>1, AnswerFacts DEF Ok
      <3>. HIDE DEF r
      <3>3. Pending' /\ (~SrcGone => Replies' /\ Turns')
        BY <2>10, <2>12, <3>2
      <3>4. OwnTimes'
        <4>1. Times(Depth) \in {0, cur.item}
          BY <1>1, <1>7, <2>2, <2>12 DEF Pending, OptTypes
        <4>. QED  BY <1>1, <1>7, <2>2, <2>12, <4>1, OwnTimesSet
      <3>. QED  BY <1>2, <2>6, <3>3, <3>4
    <2>. QED  BY <1>22, <2>8, <2>11, <2>12 DEF SinkFinishesFile
  <1>23. ~SinkMisreads
    <2>. SUFFICES ASSUME SinkMisreads PROVE FALSE
      OBVIOUS
    <2>1. /\ Receiving /\ toSink # <<>> /\ toSink[1].what # "nul"
      <3>1. snkPc = "resp" /\ toSink # <<>> /\ Next1.what \notin {"nul", "error"}
        BY DEF SinkMisreads
      <3>2. Next1 = toSink[1]
        BY <1>1, <3>1, TailFacts DEF PipeTypes, Next1
      <3>. QED  BY <3>1, <3>2 DEF Receiving
    <2>2. 1 \in 1..Len(toSink)
      BY <1>6, <2>1
    <2>. QED  BY <1>7, <2>1, <2>2 DEF Records
  <1>24. CASE SinkLosesSource \/ SinkKilled
    <2>1. snkPc' = "done" /\ UNCHANGED <<stored, toSource>>
      BY <1>24 DEF SinkLosesSource, SinkKilled
    <2>2. SnkGone'
      BY <1>1, <2>1 DEF SnkPlaces
    <2>3. ~SrcGone => Replies'
      BY <1>2, <1>7, <2>1 DEF Replies
    <2>. QED  BY <1>2, <1>7, <2>1, <2>2, <2>3 DEF OwnTimes
  <1>. QED  BY <1>11, <1>12, <1>13, <1>14, <1>15, <1>17, <1>18, <1>19, <1>20, <1>21, <1>22, <1>23,
               <1>24 DEF SinkStep

-----------------------------------------------------------------------------
(***************************************************************************)
(* The marks that failures leave.                                          *)
(***************************************************************************)
LEMMA SourceMarks ==
    ASSUME IInv, SourceStep \/ SourceKilled
    PROVE  Marks' /\ (srcErr => srcErr')
  <1>1. /\ SrcTypes /\ SrcPlaces /\ PipeTypes /\ Marks /\ SrcTypes' /\ SrcPlaces' /\ PipeTypes'
        /\ UNCHANGED <<stack, cur, snkErr, snkExit>>
    BY NextSrcTypes DEF IInv, snkVars
  <1>2. srcPc # "done"
    BY <1>1 DEF SourceStep, SourceKilled, SourceFails, AnnounceFile, AnnounceDir, LeaveDir,
           SourceResponse, SourceDropsFile, OpenFile, SendUnit, FileEndsEarly,
             SendDone, SendFails, SourceEnds,
           SourceLosesSink, SrcPlaces
  <1>3. srcExit = "no"
    BY <1>1, <1>2 DEF SrcPlaces, SrcGone
  <1>4. \/ faults' = faults
        \/ \E f : f \notin {"dirtimes", "nobuffer", "kill"} /\ Fault(f)
        \/ Fault("nobuffer") /\ srcErr'
        \/ Fault("kill") /\ srcExit' = "err"
    BY DEF SourceStep, SourceKilled, SourceExits, SourceFails, AnnounceFile, AnnounceDir,
           LeaveDir, SourceResponse, SourceDropsFile, OpenFile, SendUnit, FileEndsEarly,
           SendDone, SendFails, SourceEnds, SourceLosesSink
  <1>9. srcErr => srcErr'
    <2>1. srcErr' = srcErr \/ srcErr' = TRUE \/ srcErr' = (srcErr \/ ~Head(toSource).ok)
      BY DEF SourceStep, SourceKilled, SourceFails, AnnounceFile, AnnounceDir, LeaveDir,
             SourceResponse, SourceDropsFile, OpenFile, SendUnit, FileEndsEarly,
             SendDone, SendFails, SourceEnds, SourceLosesSink
    <2>. QED  BY <2>1
  <1>5. ~Steady' => srcErr' \/ snkErr'
    <2>1. ~Steady => srcErr' \/ snkErr'
      BY <1>1, <1>9 DEF Marks
    <2>2. CASE \E f : f \notin {"dirtimes", "nobuffer", "kill"} /\ Fault(f)
      BY <1>1, <2>1, <2>2, FaultFacts DEF Steady, None
    <2>3. CASE Fault("kill")
      BY <1>1, <2>1, <2>3, FaultFacts DEF Steady, None
    <2>. QED  BY <1>4, <2>1, <2>2, <2>3 DEF Steady, None
  <1>11. ~None({"kill"})' => srcExit' = "err" \/ snkExit' = "err"
    <2>1. ~None({"kill"}) => snkExit' = "err"
      BY <1>1, <1>3 DEF Marks
    <2>2. CASE \E f : f \notin {"dirtimes", "nobuffer", "kill"} /\ Fault(f)
      BY <1>1, <2>1, <2>2, FaultFacts DEF None
    <2>3. CASE Fault("nobuffer")
      BY <1>1, <2>1, <2>3, FaultFacts DEF None
    <2>. QED  BY <1>4, <2>1, <2>2, <2>3 DEF None
  <1>12. SrcGone' /\ ~SnkGone' => ~None({"break", "kill"})' \/ pos' > Len(Walk)
    <2>1. SrcGone' => SourceEnds \/ SendFails \/ SourceLosesSink \/ SourceKilled
      BY <1>3 DEF SourceStep, SourceKilled, SourceFails, AnnounceFile, AnnounceDir, LeaveDir,
             SourceResponse, SourceDropsFile, OpenFile, SendUnit, FileEndsEarly, SendDone, SrcGone
    <2>2. CASE SourceEnds
      BY <2>2 DEF SourceEnds
    <2>3. CASE SendFails \/ SourceLosesSink
      BY <1>1, <2>3 DEF SendFails, SourceLosesSink, SnkGone, Broken, None
    <2>4. CASE SourceKilled
      BY <1>1, <2>4, FaultFacts DEF SourceKilled, None
    <2>. QED  BY <2>1, <2>2, <2>3, <2>4
  <1>6. toSource' = toSource \/ (toSource # <<>> /\ toSource' = Tail(toSource))
    BY DEF SourceStep, SourceKilled, SourceFails, AnnounceFile, AnnounceDir, LeaveDir,
           SourceResponse, SourceDropsFile, OpenFile, SendUnit, FileEndsEarly,
             SendDone, SendFails, SourceEnds,
           SourceLosesSink
  <1>7. ASSUME ~snkErr' PROVE \A i \in 1..Len(toSource') : toSource'[i].ok
    <2>1. \A i \in 1..Len(toSource) : toSource[i].ok
      BY <1>1, <1>7 DEF Marks
    <2>2. CASE toSource # <<>> /\ toSource' = Tail(toSource)
      <3>1. /\ Len(toSource) \in Nat /\ Len(toSource') = Len(toSource) - 1
            /\ \A i \in 1..(Len(toSource) - 1) : toSource'[i] = toSource[i + 1]
        BY <1>1, <2>2, TailFacts DEF PipeTypes
      <3>. QED  BY <2>1, <3>1
    <2>. QED  BY <1>6, <2>1, <2>2
  <1>8. srcExit' = "ok" => ~srcErr' /\ pos' > Len(Walk)
    <2>1. srcExit' = "ok" => SourceEnds
      BY <1>3 DEF SourceStep, SourceKilled, SourceFails, AnnounceFile, AnnounceDir, LeaveDir,
             SourceResponse, SourceDropsFile, OpenFile, SendUnit, FileEndsEarly,
             SendDone, SendFails, SourceExits,
             SourceLosesSink
    <2>2. SourceEnds => /\ srcExit' = (IF srcErr THEN "err" ELSE "ok") /\ srcErr' = srcErr
                        /\ pos' = pos /\ pos > Len(Walk)
      BY DEF SourceEnds, SourceExits, ExitOf
    <2>. QED  BY <2>1, <2>2
  <1>10. /\ snkExit' = "ok" => ~snkErr' /\ Depth' = 1
         /\ cur'.failed => snkErr'
    BY <1>1 DEF Marks, Depth
  <1>. QED  BY <1>5, <1>7, <1>8, <1>9, <1>10, <1>11, <1>12 DEF Marks

(* A step of the sink that finds nothing wrong.                            *)
LEMMA QuietSink ==
    ASSUME IInv, SinkStep \/ SinkKilled, ~snkErr'
    PROVE  /\ ~snkErr /\ snkErr' = snkErr
           /\ (cur'.failed => cur.failed)
           /\ \/ toSource' = toSource
              \/ \E n \in 0..Len(Walk), what \in {"T", "CD", "final", "E"} :
                    Reply(<<Ok(what, n)>>)
           /\ faults' = faults \/ \E f : f \notin {"dirtimes", "nobuffer"} /\ Fault(f)
  <1>1. SnkTypes /\ SnkPlaces /\ PipeTypes /\ SnkTypes'
    BY NextSnkTypes DEF IInv
  <1>2. snkErr \in BOOLEAN /\ snkErr' \in BOOLEAN
    BY <1>1 DEF SnkTypes
  <1>3. \A what : Reads(what) => Next1.item \in 0..Len(Walk)
    BY <1>1, ReadFacts DEF Reads
  <1>4. Reply(<<>>) => toSource' = toSource
    BY <1>1, EmptyFacts DEF Reply, PipeTypes
  <1>5. CASE SinkHearsError \/ SinkTakesTimes \/ SinkRefuses \/ SinkEntersDir \/ SinkScrewsUp
             \/ SinkMisreads \/ SinkLosesSource \/ SinkKilled
    BY <1>2, <1>3, <1>5 DEF SinkHearsError, SinkTakesTimes, SinkRefuses, SinkEntersDir, SinkScrewsUp,
           SinkMisreads, SinkLosesSource, SinkKilled
  <1>6. CASE SinkOpensFile
    BY <1>2, <1>3, <1>6 DEF SinkOpensFile, NoFile
  <1>7. CASE RecvSize \/ SizeNeverComes \/ RecvUnit
    BY <1>1, <1>2, <1>7 DEF RecvSize, SizeNeverComes, RecvUnit, SnkTypes
  <1>8. CASE RecvDone
    BY <1>2, <1>8 DEF RecvDone
  <1>9. CASE SinkEndsDir
    BY <1>2, <1>3, <1>9 DEF SinkEndsDir, EndReply, SinkReturns
  <1>10. CASE SinkMeetsEnd
    BY <1>2, <1>4, <1>10 DEF SinkMeetsEnd, SinkReturns
  <1>11. CASE SinkFinishesFile
    <2>1. /\ cur' = NoFile
          /\ \/ snkErr' = (snkErr \/ Next1.what = "error") /\ UNCHANGED <<toSource, faults>>
             \/ snkErr' = TRUE
             \/ /\ Reply(<<Ok("final", cur.item)>>) /\ UNCHANGED faults
                /\ snkErr' = (snkErr \/ Next1.what = "error")
      BY <1>11 DEF SinkFinishesFile
    <2>2. ~cur'.failed /\ cur.item \in 0..Len(Walk)
      BY <1>1, <2>1 DEF NoFile, SnkTypes
    <2>. QED  BY <1>2, <2>1, <2>2
  <1>. QED  BY <1>5, <1>6, <1>7, <1>8, <1>9, <1>10, <1>11 DEF SinkStep

LEMMA SinkMarks ==
    ASSUME IInv, SinkStep \/ SinkKilled
    PROVE  Marks' /\ (snkErr => snkErr')
  <1>1. /\ SnkTypes /\ SnkPlaces /\ PipeTypes /\ Marks /\ SnkTypes' /\ SnkPlaces' /\ PipeTypes'
        /\ UNCHANGED <<pos, srcErr, srcExit>>
    BY NextSnkTypes DEF IInv, srcVars
  <1>2. snkPc # "done"
    BY <1>1 DEF SinkStep, SinkKilled, SinkHearsError, SinkTakesTimes, SinkRefuses, SinkEntersDir,
           SinkOpensFile, SinkEndsDir, SinkMeetsEnd, SinkScrewsUp, RecvSize, SizeNeverComes,
           RecvUnit, RecvDone,
           SinkFinishesFile, SinkMisreads, SinkLosesSource, Reads, SnkPlaces
  <1>3. snkExit = "no"
    BY <1>1, <1>2 DEF SnkPlaces, SnkGone
  <1>4. ASSUME ~snkErr', ~Steady' PROVE srcErr'
    <2>1. faults' = faults \/ \E f : f \notin {"dirtimes", "nobuffer"} /\ Fault(f)
      BY <1>4, QuietSink
    <2>2. ~Steady
      BY <1>1, <1>4, <2>1, FaultFacts DEF Steady, None
    <2>. QED  BY <1>1, <1>4, <2>2, QuietSink DEF Marks
  <1>10. ~None({"kill"})' => srcExit' = "err" \/ snkExit' = "err"
    <2>1. \/ faults' = faults
          \/ \E f : f # "kill" /\ Fault(f)
          \/ SinkKilled
      BY DEF SinkStep, SinkHearsError, SinkTakesTimes, SinkRefuses, SinkEntersDir,
             SinkOpensFile, SinkEndsDir, SinkMeetsEnd, SinkReturns, SinkScrewsUp, RecvSize,
             SizeNeverComes, RecvUnit, RecvDone, SinkFinishesFile, SinkMisreads, SinkLosesSource
    <2>2. SinkKilled => snkExit' = "err"
      BY DEF SinkKilled
    <2>3. ~None({"kill"}) => srcExit' = "err"
      BY <1>1, <1>3 DEF Marks
    <2>4. CASE \E f : f # "kill" /\ Fault(f)
      BY <1>1, <2>3, <2>4, FaultFacts DEF None
    <2>. QED  BY <2>1, <2>2, <2>3, <2>4 DEF None
  <1>11. SrcGone' /\ ~SnkGone' => ~None({"break", "kill"})' \/ pos' > Len(Walk)
    <2>1. faults' = faults \/ \E f : Fault(f)
      BY DEF SinkStep, SinkKilled, SinkHearsError, SinkTakesTimes, SinkRefuses, SinkEntersDir,
             SinkOpensFile, SinkEndsDir, SinkMeetsEnd, SinkReturns, SinkScrewsUp, RecvSize,
             SizeNeverComes, RecvUnit, RecvDone, SinkFinishesFile, SinkMisreads, SinkLosesSource
    <2>2. ~None({"break", "kill"}) => ~None({"break", "kill"})'
      BY <1>1, <2>1, FaultFacts DEF None
    <2>3. SrcGone' => SrcGone
      BY <1>1 DEF SrcGone
    <2>4. SrcGone => ~None({"break", "kill"}) \/ pos > Len(Walk)
      BY <1>1, <1>3 DEF Marks, SnkGone
    <2>. QED  BY <1>1, <2>2, <2>3, <2>4
  <1>5. ASSUME ~snkErr' PROVE \A i \in 1..Len(toSource') : toSource'[i].ok
    <2>1. \A i \in 1..Len(toSource) : toSource[i].ok
      BY <1>1, <1>5, QuietSink DEF Marks
    <2>2. ASSUME NEW n \in 0..Len(Walk), NEW what \in {"T", "CD", "final", "E"},
                 Reply(<<Ok(what, n)>>)
          PROVE  \A i \in 1..Len(toSource') : toSource'[i].ok
      <3>. DEFINE r == Ok(what, n)
      <3>1. r \in Answer /\ r.ok
        BY AnswerFacts DEF Ok
      <3>. HIDE DEF r
      <3>2. /\ Len(toSource') = Len(toSource) + 1 /\ toSource'[Len(toSource) + 1] = r
            /\ \A i \in 1..Len(toSource) : toSource'[i] = toSource[i]
        BY <1>1, <2>2, <3>1, ReplyOne DEF r
      <3>3. Len(toSource) \in Nat
        BY <1>1, EmptyFacts DEF PipeTypes
      <3>4. ASSUME NEW i \in 1..Len(toSource') PROVE toSource'[i].ok
        <4>1. i \in 1..Len(toSource) \/ i = Len(toSource) + 1
          BY <3>2, <3>3
        <4>. QED  BY <2>1, <3>1, <3>2, <4>1
      <3>. QED  BY <3>4
    <2>. QED  BY <1>5, <2>1, <2>2, QuietSink
  <1>6. cur'.failed => snkErr'
    BY <1>1, QuietSink DEF Marks
  <1>7. snkExit' = "ok" => ~snkErr' /\ Depth' = 1
    <2>1. ASSUME NEW R, SinkReturns(R), snkExit' = "ok"
          PROVE  ~snkErr' /\ Depth' = 1
      BY <1>3, <2>1 DEF SinkReturns, ExitOf, Depth
    <2>2. snkExit' = "ok" => SinkEndsDir \/ SinkMeetsEnd
      BY <1>3 DEF SinkStep, SinkKilled, SinkHearsError, SinkTakesTimes, SinkRefuses, SinkEntersDir,
             SinkOpensFile, SinkScrewsUp, RecvSize, SizeNeverComes,
           RecvUnit, RecvDone,
             SinkFinishesFile, SinkMisreads, SinkLosesSource
    <2>. QED  BY <2>1, <2>2 DEF SinkEndsDir, SinkMeetsEnd
  <1>8. snkErr => snkErr'
    BY QuietSink
  <1>9. srcExit' = "ok" => ~srcErr' /\ pos' > Len(Walk)
    BY <1>1 DEF Marks
  <1>. QED  BY <1>4, <1>5, <1>6, <1>7, <1>8, <1>9, <1>10, <1>11 DEF Marks

-----------------------------------------------------------------------------
(***************************************************************************)
(* The contents.                                                           *)
(***************************************************************************)
(* Where the source is while the sink receives, in step.                   *)
LEMMA WhileReceiving ==
    ASSUME SrcTypes, SrcPlaces, Turns, ~SrcGone, Receiving, ~cur.failed
    PROVE  \/ srcPc = "CD" /\ toSource # <<>> /\ toSink = <<>>
           \/ srcPc \in {"open", "data"} /\ toSource = <<>> /\ toSink = <<>>
           \/ srcPc = "final" /\ toSource = <<>> /\ Len(toSink) = 1
  <1>1. srcPc # "done" /\ snkPc # "read"
    BY DEF SrcPlaces, Receiving
  <1>2. srcPc \notin {"start", "item", "T", "E"}
    BY <1>1 DEF Turns
  <1>3. CASE srcPc = "CD"
    BY <1>1, <1>3 DEF Turns
  <1>4. CASE srcPc \in {"open", "data"}
    BY <1>1, <1>4 DEF Turns
  <1>5. CASE srcPc = "final"
    BY <1>1, <1>5 DEF Turns
  <1>. QED  BY <1>1, <1>2, <1>3, <1>4, <1>5 DEF SrcTypes

LEMMA WholeHere ==
    ASSUME Wholes, pos \in Items, stored[pos].whole
    PROVE  /\ srcPc \notin {"start", "item", "T"}
           /\ srcPc \in {"CD", "open"} => (protocol = 1 /\ Size(pos) = 0) \/ EmptyAfter(Fatal, pos)
           /\ srcPc = "data" => srcLeft = 0 \/ EmptyAfter(Fatal, pos)
  BY DEF Wholes

LEMMA OneMore ==
    ASSUME NEW g \in Nat, NEW a \in Nat, NEW c \in Nat, NEW l \in Nat, l > 0, g + a <= c - l
    PROVE  g + (a + 1) <= c /\ g + (a + 1) <= c - (l - 1)
  OBVIOUS

(* A failure that has happened is not undone.                              *)
LEMMA FaultsStay ==
    ASSUME PipeTypes, protocol' = protocol, faults' = faults \/ \E f : Fault(f)
    PROVE  (Broken => Broken') /\ (Unsized => Unsized')
  BY FaultFacts DEF Broken, Unsized, None

LEMMA EmptyStays ==
    ASSUME PipeTypes, protocol' = protocol, faults' = faults \/ \E f : Fault(f),
           NEW n, stored'[n].data = stored[n].data
    PROVE  EmptyAfter(Fatal, n) => EmptyAfter(Fatal, n)'
  BY FaultFacts DEF EmptyAfter, Fatal, None

(* The stream is none the worse for being cut off.                         *)
LEMMA StreamCut ==
    ASSUME PipeTypes, SnkTypes, Stream, data' = data \/ CutOff,
           UNCHANGED <<snkPc, cur, protocol, content, pos>>, Unsized => Unsized',
           snkPc \in {"size", "recv"} => content[pos] \in Nat
    PROVE  Stream'
  <1>1. /\ Len(data) \in Nat /\ Len(data') \in Nat /\ Len(data') <= Len(data)
        /\ data \in Seq(Datum) /\ data' \in Seq(Datum)
        /\ \A i \in 1..Len(data') : i \in 1..Len(data) /\ data'[i] = data[i]
        /\ data = <<>> => data' = <<>>
    BY CutFacts, EmptyFacts DEF PipeTypes
  <1>2. CASE snkPc = "size"
    <2>1. protocol = 0 /\ cur.got = <<>>
      BY <1>2 DEF Stream
    <2>2. ASSUME data' # <<>>
          PROVE  /\ \/ data'[1].size >= content[pos]
                    \/ Unsized' /\ data'[1].size <= 0 /\ Len(data') = 1
                 /\ \A i \in 2..Len(data') : data'[i].item = pos
                 /\ Len(data') - 1 <= content[pos]
      <3>1. data # <<>> /\ Len(data') >= 1
        BY <1>1, <2>2, EmptyFacts
      <3>2. /\ \/ data[1].size >= content[pos]
               \/ Unsized /\ data[1].size <= 0 /\ Len(data) = 1
            /\ \A i \in 2..Len(data) : data[i].item = pos
            /\ Len(data) - 1 <= content[pos]
        BY <1>2, <3>1 DEF Stream
      <3>3. data'[1] = data[1]
        BY <1>1, <3>1
      <3>4. \A i \in 2..Len(data') : data'[i].item = pos
        <4>. TAKE i \in 2..Len(data')
        <4>1. i \in 1..Len(data') /\ i \in 2..Len(data)
          BY <1>1
        <4>. QED  BY <1>1, <3>2, <4>1
      <3>5. Len(data') - 1 <= content[pos]
        BY <1>1, <1>2, <3>2
      <3>. QED  BY <1>1, <3>1, <3>2, <3>3, <3>4, <3>5
    <2>. QED  BY <1>2, <2>1, <2>2 DEF Stream
  <1>3. CASE snkPc = "recv"
    <2>1. /\ \A i \in 1..Len(data) : data[i].item = pos
          /\ \A i \in 1..Len(cur.got) : cur.got[i] = pos
          /\ \/ content[pos] <= cur.left + Len(cur.got)
             \/ Unsized /\ cur.left = 0 /\ cur.got = <<>> /\ data = <<>>
          /\ Len(cur.got) + Len(data) <= content[pos]
      BY <1>3 DEF Stream
    <2>2. \A i \in 1..Len(data') : data'[i].item = pos
      BY <1>1, <2>1
    <2>3. Len(cur.got) \in Nat
      BY EmptyFacts DEF SnkTypes
    <2>4. Len(cur.got) + Len(data') <= content[pos]
      BY <1>1, <1>3, <2>1, <2>3
    <2>. QED  BY <1>1, <1>3, <2>1, <2>2, <2>4 DEF Stream
  <1>4. CASE snkPc \in {"read", "resp", "done"}
    BY <1>1, <1>4 DEF Stream
  <1>. QED  BY <1>2, <1>3, <1>4 DEF SnkTypes

LEMMA SourceContents ==
    ASSUME IInv, SourceStep \/ SourceKilled
    PROVE  ContentsInv'
  <1>1. /\ SrcTypes /\ SrcPlaces /\ PipeTypes /\ SnkTypes /\ SnkPlaces /\ OptTypes /\ Contents
        /\ SrcTypes' /\ SrcPlaces' /\ PipeTypes' /\ UNCHANGED <<optVars, snkVars>>
    BY NextSrcTypes DEF IInv
  <1>2. /\ UNCHANGED <<client, pflag, protocol, stack, snkPc, cur, snkErr, snkExit, stored>>
        /\ (Receiving' <=> Receiving) /\ (SnkGone' <=> SnkGone)
    BY <1>1 DEF optVars, snkVars, Receiving, SnkGone
  <1>3. /\ faults' = faults \/ \E f \in Faults : Fault(f)
        /\ srcPc # "done"
    <2>1. \A f : Fault(f) => f \in Faults
      BY DEF Fault
    <2>2. faults' = faults \/ \E f : Fault(f)
      BY DEF SourceStep, SourceKilled, SourceFails, AnnounceFile, AnnounceDir, LeaveDir,
             SourceResponse, SourceDropsFile, OpenFile, SendUnit, FileEndsEarly,
             SendDone, SendFails, SourceEnds,
             SourceLosesSink
    <2>3. srcPc # "done"
      BY <1>1 DEF SourceStep, SourceKilled, SourceFails, AnnounceFile, AnnounceDir, LeaveDir,
             SourceResponse, SourceDropsFile, OpenFile, SendUnit, FileEndsEarly,
             SendDone, SendFails, SourceEnds,
             SourceLosesSink, SrcPlaces
    <2>. QED  BY <2>1, <2>2, <2>3
  <1>. SUFFICES ASSUME Steady'
                PROVE  /\ ~SnkGone => Stream'
                       /\ ~SrcGone' /\ ~SnkGone => Sent'
                       /\ Wholes'
    BY <1>2 DEF ContentsInv
  <1>4. Steady
    BY <1>1, <1>3, NoneStays DEF Steady
  <1>5. ~SrcGone
    BY <1>1, <1>3 DEF SrcPlaces
  <1>6. /\ Replies /\ Wholes
        /\ ~SnkGone => Records /\ Pending /\ Turns /\ Stream /\ Sent
    BY <1>4, <1>5 DEF IInv, InStepInv, ContentsInv
  <1>7. /\ Len(data) \in Nat /\ (data = <<>> <=> Len(data) = 0)
        /\ Len(cur.got) \in Nat
        /\ pos \in Items => content[pos] \in Nat /\ content'[pos] \in Nat
        /\ srcLeft \in Nat /\ srcLeft' \in Nat
        /\ \A n \in Items : n \in Nat
        /\ pos \in Nat /\ pos' \in Nat
    <2>1. Len(data) \in Nat /\ (data = <<>> <=> Len(data) = 0)
      BY <1>1, EmptyFacts DEF PipeTypes
    <2>2. Len(cur.got) \in Nat
      BY <1>1, EmptyFacts DEF SnkTypes
    <2>3. pos \in Items => content[pos] \in Nat /\ content'[pos] \in Nat
      BY <1>1 DEF SrcTypes
    <2>4. srcLeft \in Nat /\ srcLeft' \in Nat /\ pos \in Nat /\ pos' \in Nat
      BY <1>1, WalkFacts DEF SrcTypes
    <2>5. \A n \in Items : n \in Nat
      BY WalkFacts
    <2>. QED  BY <2>1, <2>2, <2>3, <2>4, <2>5
  <1>17. Broken => Broken'
    BY <1>1, <1>2, <1>3, FaultsStay
  <1>18. Unsized => Unsized'
    BY <1>1, <1>2, <1>3, FaultsStay
  <1>19. \A n \in Items : EmptyAfter(Fatal, n) => EmptyAfter(Fatal, n)'
    BY <1>1, <1>2, <1>3, EmptyStays
  <1>20. ~SnkGone /\ snkPc \in {"size", "recv"} => pos \in Items /\ content[pos] \in Nat
    <2>1. ~SnkGone /\ snkPc \in {"size", "recv"} => cur.item = pos /\ cur.item \in Items
      BY <1>1, <1>6 DEF Records, Receiving, SnkPlaces
    <2>. QED  BY <1>7, <2>1
  \* Nothing is sent, and the source stays with its item or leaves one that is over.
  <1>8. ASSUME UNCHANGED <<content, srcLeft>>, data' = data \/ (CutOff /\ SrcGone'),
               pos' = pos \/ pos' > pos,
               pos' = pos \/ SnkGone \/ snkPc \in {"read", "resp"},
               srcPc' # "data",
               pos' = pos => srcPc' \notin {"start", "item", "T"} \/ srcPc \in {"start", "item", "T"},
               pos' = pos /\ srcPc' \in {"CD", "open"} => srcPc \in {"start", "item", "T", "CD", "open"},
               srcPc' = "open" \/ (srcPc' = "CD" /\ toSource' # <<>>) => Unopened /\ pos' = pos
        PROVE  /\ ~SnkGone => Stream'
               /\ ~SrcGone' /\ ~SnkGone => Sent'
               /\ Wholes'
    <2>1. ~SnkGone => Stream'
      <3>1. CASE pos' = pos
        BY <1>1, <1>2, <1>6, <1>8, <1>18, <1>20, <3>1, StreamCut
      <3>2. ASSUME ~SnkGone, snkPc \in {"read", "resp"} PROVE Stream'
        <4>1. data' = <<>>
          BY <1>1, <1>6, <1>8, <3>2, CutFacts DEF Stream
        <4>. QED  BY <1>2, <1>6, <3>2, <4>1 DEF Stream
      <3>. QED  BY <1>8, <3>1, <3>2
    <2>2. ~SrcGone' /\ ~SnkGone => Sent'
      <3>1. Unopened' => Unopened /\ pos' = pos
        BY <1>8 DEF Unopened
      <3>. QED  BY <1>2, <1>6, <1>8, <1>17, <3>1 DEF Sent, Size
    <2>3. Wholes'
      <3>. SUFFICES ASSUME NEW n \in Items, stored[n].whole
                    PROVE  /\ AllOf(n)' \/ EmptyAfter(Fatal, n)'
                           /\ n <= pos'
                           /\ n = pos' =>
                                 /\ srcPc' \notin {"start", "item", "T"}
                                 /\ srcPc' \in {"CD", "open"} =>
                                       (protocol = 1 /\ Size(n) = 0) \/ EmptyAfter(Fatal, n)'
        BY <1>2, <1>8 DEF Wholes, Size
      <3>1. /\ AllOf(n) \/ EmptyAfter(Fatal, n)
            /\ n <= pos
            /\ n = pos => /\ srcPc \notin {"start", "item", "T"}
                          /\ srcPc \in {"CD", "open"} =>
                                (protocol = 1 /\ Size(n) = 0) \/ EmptyAfter(Fatal, n)
        BY <1>6 DEF Wholes
      <3>2. AllOf(n) => AllOf(n)'
        BY <1>2, <1>8 DEF AllOf
      <3>. QED  BY <1>7, <1>8, <1>19, <3>1, <3>2
    <2>. QED  BY <2>1, <2>2, <2>3
  <1>9. CASE SourceFails
    <2>1. /\ srcPc = "item" /\ srcPc' = "item" /\ pos \in Items /\ pos' = Walk[pos].skip
          /\ UNCHANGED <<content, srcLeft, data>>
      BY <1>9 DEF SourceFails
    <2>2. pos' > pos
      BY <2>1, WalkFacts
    <2>3. SnkGone \/ snkPc \in {"read", "resp"}
      <3>1. ~SnkGone => snkPc = "read" \/ cur.failed
        BY <1>6, <2>1 DEF Turns
      <3>. QED  BY <1>6, <3>1 DEF Records
    <2>. QED  BY <1>8, <2>1, <2>2, <2>3
  <1>10. CASE AnnounceFile \/ AnnounceDir \/ LeaveDir
    <2>1. /\ srcPc = "item" /\ srcPc' \in {"T", "CD", "E"} /\ pos' = pos /\ toSource' = toSource
          /\ UNCHANGED <<content, srcLeft, data>>
      BY <1>10 DEF AnnounceFile, AnnounceDir, LeaveDir, Announces
    <2>2. toSource = <<>>
      <3>1. Len(toSource) = 0
        BY <1>6, <2>1 DEF Replies
      <3>. QED  BY <1>1, <3>1, EmptyFacts DEF PipeTypes
    <2>. QED  BY <1>8, <2>1, <2>2
  <1>11. CASE SourceResponse
    <2>. DEFINE ok == Head(toSource).ok
    <2>1. /\ srcPc \in {"start", "T", "CD", "final", "E"} /\ toSource # <<>>
          /\ toSource' = Tail(toSource) /\ UNCHANGED <<content, srcLeft, data>>
          /\ \/ /\ ~ok /\ srcPc \in {"T", "CD"} /\ pos' = Walk[pos].skip /\ srcPc' = "item"
             \/ /\ srcPc = "T" /\ srcPc' = "CD" /\ pos' = pos
             \/ /\ srcPc = "CD" /\ srcPc' = "open" /\ pos' = pos
             \/ /\ ok /\ srcPc = "CD" /\ Walk[pos].kind = "dir" /\ pos' = pos + 1 /\ srcPc' = "item"
             \/ /\ srcPc \in {"start", "final", "E"} /\ pos' = pos + 1 /\ srcPc' = "item"
      BY <1>11 DEF SourceResponse, SkipsItem
    <2>2. ok = toSource[1].ok /\ Len(toSource) \in Nat /\ Len(toSource) >= 1
      BY <1>1, <2>1, TailFacts DEF PipeTypes
    <2>. HIDE DEF ok
    <2>3. CASE pos' = pos
      <3>1. CASE srcPc = "T" /\ srcPc' = "CD"
        <4>1. Len(toSource) = 1
          BY <1>6, <2>2, <3>1 DEF Replies
        <4>2. toSource' = <<>>
          BY <1>1, <2>1, <4>1, TailFacts, EmptyFacts DEF PipeTypes
        <4>. QED  BY <1>8, <2>1, <2>3, <3>1, <4>2
      <3>2. CASE srcPc = "CD" /\ srcPc' = "open"
        <4>1. Unopened
          BY <2>1, <3>2 DEF Unopened
        <4>. QED  BY <1>8, <2>1, <2>3, <3>2, <4>1
      <3>3. srcPc \in {"T", "CD"} => Walk[pos].skip > pos
        <4>1. srcPc \in {"T", "CD"} => pos \in Items
          BY <1>1 DEF SrcPlaces
        <4>. QED  BY <4>1, WalkFacts
      <3>. QED  BY <1>7, <2>1, <2>3, <3>1, <3>2, <3>3
    <2>4. CASE pos' # pos
      <3>1. srcPc' = "item"
        BY <2>1, <2>4
      <3>2. pos' > pos
        <4>1. srcPc \in {"T", "CD"} => pos \in Items
          BY <1>1 DEF SrcPlaces
        <4>2. srcPc \in {"T", "CD"} => Walk[pos].skip > pos
          BY <4>1, WalkFacts
        <4>. QED  BY <1>7, <2>1, <2>4, <4>2
      <3>3. SnkGone \/ snkPc \in {"read", "resp"}
        <4>. SUFFICES ASSUME ~SnkGone PROVE snkPc \in {"read", "resp"}
          OBVIOUS
        <4>1. CASE srcPc \in {"start", "T", "E"}
          BY <1>6, <2>1, <4>1 DEF Turns
        <4>2. CASE srcPc = "CD"
          <5>1. ~(toSource[1].ok /\ Walk[pos].kind = "file")
            BY <2>1, <2>2, <2>4, <4>2
          <5>. QED  BY <1>6, <2>1, <4>2, <5>1 DEF Turns
        <4>3. CASE srcPc = "final"
          <5>1. cur.failed \/ snkPc = "read"
            BY <1>6, <2>1, <4>3 DEF Turns
          <5>. QED  BY <1>6, <5>1 DEF Records
        <4>. QED  BY <2>1, <4>1, <4>2, <4>3
      <3>. QED  BY <1>8, <2>1, <2>4, <3>1, <3>2, <3>3
    <2>. QED  BY <2>3, <2>4
  <1>12. CASE SendDone \/ SourceEnds \/ SendFails \/ SourceLosesSink \/ SourceKilled
    <2>1. /\ srcPc' \in {"final", "done"} /\ pos' = pos /\ UNCHANGED <<content, srcLeft>>
          /\ data' = data \/ (CutOff /\ srcExit' = "err")
      BY <1>12 DEF SendDone, SourceEnds, SendFails, SourceLosesSink, SourceKilled, SourceExits
    <2>. QED  BY <1>8, <2>1 DEF SrcGone
  <1>21. ~SourceDropsFile
    BY <1>1, FaultFacts DEF SourceDropsFile, Steady, None
  \* The sink receives what is sent, and has not failed unless it is done with it.
  <1>13. ASSUME ~SnkGone, srcPc \in {"open", "data"} PROVE Receiving
    BY <1>6, <1>13 DEF Turns
  <1>14. CASE OpenFile
    <2>1. /\ srcPc = "open" /\ srcPc' = "data" /\ pos' = pos /\ pos \in Items
          /\ content[pos] = Size(pos) /\ Size(pos) \in Nat
      <3>1. srcPc = "open" /\ srcPc' = "data" /\ pos' = pos
        BY <1>14 DEF OpenFile
      <3>2. pos \in Items
        BY <1>1, <3>1 DEF SrcPlaces
      <3>. QED  BY <1>1, <3>1, <3>2, WalkFacts DEF Contents
    <2>2. ASSUME ~SnkGone
          PROVE  /\ data = <<>> /\ cur.got = <<>> /\ Len(cur.got) = 0 /\ Len(data) = 0
                 /\ snkPc \in {"size", "recv", "resp"}
                 /\ protocol = 0 => snkPc = "size" \/ Broken
                 /\ snkPc = "resp" => Size(pos) = 0 \/ (Broken /\ protocol = 0)
                 /\ snkPc = "size" => protocol = 0
      <3>1. Receiving /\ Unopened
        BY <1>13, <2>1, <2>2 DEF Unopened
      <3>2. /\ data = <<>> /\ cur.got = <<>>
            /\ protocol = 0 => snkPc = "size" \/ Broken
            /\ snkPc = "resp" => Size(pos) = 0 \/ (Broken /\ protocol = 0)
        BY <1>6, <2>2, <3>1 DEF Sent
      <3>3. snkPc = "size" => protocol = 0
        BY <1>6, <2>2 DEF Stream
      <3>. QED  BY <1>7, <3>1, <3>2, <3>3, EmptyFacts DEF Receiving
    <2>3. ~Unopened'
      BY <2>1 DEF Unopened
    <2>4. CASE protocol = 1 /\ srcLeft' = Size(pos) /\ UNCHANGED <<content, data, faults>>
      <3>1. ~SnkGone => Stream'
        BY <1>1, <1>2, <1>6, <1>18, <1>20, <2>1, <2>4, StreamCut
      <3>2. ASSUME ~SnkGone PROVE Sent'
        <4>1. snkPc = "recv" => content[pos] <= cur.left + Len(cur.got)
          BY <1>6, <2>4, <3>2 DEF Stream, Unsized
        <4>. QED  BY <1>2, <2>1, <2>2, <2>3, <2>4, <3>2, <4>1 DEF Sent
      <3>3. Wholes'
        <4>. SUFFICES ASSUME NEW n \in Items, stored[n].whole
                      PROVE  /\ AllOf(n)' \/ EmptyAfter(Fatal, n)'
                             /\ n <= pos
                             /\ n = pos => srcLeft' = 0 \/ EmptyAfter(Fatal, n)'
          BY <1>2, <2>1 DEF Wholes
        <4>1. AllOf(n) => AllOf(n)'
          BY <1>2, <2>4 DEF AllOf
        <4>. QED  BY <1>6, <1>19, <2>1, <2>4, <4>1 DEF Wholes
      <3>. QED  BY <3>1, <3>2, <3>3
    \* In protocol 0 the size k goes ahead, or is lost.
    <2>5. ASSUME protocol = 0, NEW k \in Int, SizeAhead(pos, k) \in Datum,
                 srcLeft' <= content'[pos], content'[pos] <= Size(pos),
                 \A n \in Items : n # pos => content'[n] = content[n],
                 \/ data' = data /\ (Broken \/ SnkGone)
                 \/ ~Broken /\ data' = Append(data, SizeAhead(pos, k)),
                 k >= content'[pos] \/ (Unsized' /\ k <= 0 /\ srcLeft' = 0)
          PROVE  /\ ~SnkGone => Stream'
                 /\ ~SrcGone' /\ ~SnkGone => Sent'
                 /\ Wholes'
      <3>. DEFINE d == SizeAhead(pos, k)
      <3>1. d \in Datum /\ d.size = k
        BY <2>5 DEF SizeAhead
      <3>2. content'[pos] \in Nat /\ srcLeft' \in Nat
        BY <1>7, <2>1
      <3>3. ASSUME ~SnkGone PROVE Stream' /\ Sent'
        <4>1. CASE data' = data /\ Broken
          <5>1. Broken'
            BY <1>17, <4>1
          <5>2. snkPc = "recv" => \/ content'[pos] <= cur.left + Len(cur.got)
                                  \/ Unsized' /\ cur.left = 0
            <6>1. snkPc = "recv" => \/ Size(pos) <= cur.left + Len(cur.got)
                                    \/ Unsized /\ cur.left = 0
              BY <1>6, <2>1, <3>3 DEF Stream
            <6>2. cur.left + Len(cur.got) \in Nat
              BY <1>1, <1>7 DEF SnkTypes
            <6>. QED  BY <1>18, <2>1, <2>5, <3>2, <6>1, <6>2
          <5>3. snkPc = "resp" => cur.left = 0
            BY <1>6, <3>3 DEF Stream
          <5>4. Stream'
            BY <1>2, <2>1, <2>2, <2>5, <3>2, <3>3, <4>1, <5>2, <5>3 DEF Stream
          <5>5. Sent'
            BY <1>2, <2>1, <2>2, <2>3, <2>5, <3>2, <3>3, <4>1, <5>1 DEF Sent
          <5>. QED  BY <5>4, <5>5
        <4>2. CASE ~Broken /\ data' = Append(data, d)
          <5>1. snkPc = "size" /\ cur.got = <<>>
            BY <2>2, <2>5, <3>3, <4>2
          <5>. HIDE DEF d
          <5>2. Len(data') = 1 /\ data' # <<>> /\ data'[1].size = k
            <6>1. Len(data') = Len(data) + 1 /\ data'[Len(data) + 1] = d /\ data' # <<>>
              <7>1. data \in Seq(Datum)
                BY <1>1 DEF PipeTypes
              <7>. QED  BY <3>1, <4>2, <7>1, AppendFacts
            <6>. QED  BY <2>2, <3>1, <3>3, <6>1
          <5>3. Stream'
            BY <1>2, <2>1, <2>5, <3>2, <5>1, <5>2 DEF Stream
          <5>4. Sent'
            BY <1>2, <2>1, <2>3, <2>5, <3>2, <5>1, <5>2 DEF Sent
          <5>. QED  BY <5>3, <5>4
        <4>. QED  BY <2>5, <3>3, <4>1, <4>2
      <3>4. Wholes'
        <4>. SUFFICES ASSUME NEW n \in Items, stored[n].whole
                      PROVE  /\ AllOf(n)' \/ EmptyAfter(Fatal, n)'
                             /\ n <= pos
                             /\ n = pos => EmptyAfter(Fatal, n)'
          BY <1>2, <2>1 DEF Wholes
        <4>1. CASE n = pos
          BY <1>6, <1>7, <1>19, <2>1, <2>5, <4>1, WholeHere
        <4>2. CASE n # pos
          <5>1. AllOf(n) => AllOf(n)'
            BY <1>2, <2>5, <4>2 DEF AllOf
          <5>. QED  BY <1>6, <1>19, <4>2, <5>1 DEF Wholes
        <4>. QED  BY <4>1, <4>2
      <3>. QED  BY <3>3, <3>4
    <2>6. \A k \in Nat \cup {-1} : SizeAhead(pos, k) \in Datum
      BY <2>1 DEF SizeAhead, Datum
    <2>7. ASSUME protocol = 0, NEW k \in 0..Size(pos), srcLeft' = k,
                 content' = [content EXCEPT ![pos] = k], Send(SizeAhead(pos, k))
          PROVE  /\ ~SnkGone => Stream'
                 /\ ~SrcGone' /\ ~SnkGone => Sent'
                 /\ Wholes'
      <3>1. k \in Nat /\ k \in Int /\ k <= Size(pos)
        BY <2>1
      <3>2. content'[pos] = k /\ \A n \in Items : n # pos => content'[n] = content[n]
        BY <1>1, <2>1, <2>7 DEF SrcTypes
      <3>3. \/ data' = data /\ Broken
            \/ ~Broken /\ data' = Append(data, SizeAhead(pos, k))
        BY <2>7 DEF Send
      <3>. QED  BY <2>5, <2>6, <2>7, <3>1, <3>2, <3>3
    <2>8. ASSUME protocol = 0, srcLeft' = 0, content' = content, Fault("gone"),
                 Send(SizeAhead(pos, -1))
          PROVE  /\ ~SnkGone => Stream'
                 /\ ~SrcGone' /\ ~SnkGone => Sent'
                 /\ Wholes'
      <3>1. Unsized'
        BY <1>1, <1>2, <2>8, FaultFacts DEF Unsized, Fatal, None
      <3>2. \/ data' = data /\ Broken
            \/ ~Broken /\ data' = Append(data, SizeAhead(pos, -1))
        BY <2>8 DEF Send
      <3>3. SizeAhead(pos, -1) \in Datum
        BY <2>6
      <3>4. srcLeft' <= content'[pos] /\ content'[pos] <= Size(pos)
        BY <2>1, <2>8
      <3>. QED  BY <2>5, <2>8, <3>1, <3>2, <3>3, <3>4
    <2>9. ASSUME protocol = 0, Broken \/ SnkGone, srcLeft' = 0, UNCHANGED <<content, data>>
          PROVE  /\ ~SnkGone => Stream'
                 /\ ~SrcGone' /\ ~SnkGone => Sent'
                 /\ Wholes'
      <3>1. SizeAhead(pos, Size(pos)) \in Datum /\ Size(pos) \in Int
        BY <2>1, <2>6
      <3>2. srcLeft' <= content'[pos] /\ content'[pos] <= Size(pos) /\ Size(pos) >= content'[pos]
        BY <2>1, <2>9
      <3>. QED  BY <2>5, <2>9, <3>1, <3>2
    <2>. QED  BY <1>14, <2>4, <2>7, <2>8, <2>9 DEF OpenFile
  <1>15. CASE SendUnit
    <2>1. /\ srcPc = "data" /\ srcPc' = "data" /\ srcLeft > 0 /\ srcLeft' = srcLeft - 1
          /\ pos' = pos /\ content' = content /\ Send(Unit(pos))
      BY <1>15 DEF SendUnit
    <2>2. pos \in Items /\ content[pos] \in Nat /\ srcLeft <= content[pos]
      BY <1>1, <1>7, <2>1 DEF SrcPlaces, Contents
    <2>8. Wholes'
      <3>. SUFFICES ASSUME NEW n \in Items, stored[n].whole
                    PROVE  /\ AllOf(n)' \/ EmptyAfter(Fatal, n)'
                           /\ n <= pos
                           /\ n = pos => EmptyAfter(Fatal, n)'
        BY <1>2, <2>1 DEF Wholes
      <3>1. AllOf(n) => AllOf(n)'
        BY <1>2, <2>1 DEF AllOf
      <3>. QED  BY <1>6, <1>7, <1>19, <2>1, <3>1 DEF Wholes
    <2>9. CASE Broken
      <3>1. data' = data /\ Broken'
        BY <1>17, <2>1, <2>9 DEF Send
      <3>2. ~SnkGone => Stream'
        BY <1>1, <1>2, <1>6, <1>18, <1>20, <2>1, <3>1, StreamCut
      <3>3. ASSUME ~SnkGone PROVE Sent'
        <4>1. ~Unopened'
          BY <2>1 DEF Unopened
        <4>2. /\ snkPc = "size" => /\ Len(data) - 1 <= content[pos] - srcLeft
                                   /\ data # <<>> => data[1].size >= content[pos]
              /\ snkPc = "recv" => Len(cur.got) + Len(data) <= content[pos] - srcLeft
              /\ snkPc = "resp" => protocol = 0
          BY <1>6, <1>7, <2>1, <3>3 DEF Sent
        <4>3. content[pos] - srcLeft <= content[pos] - srcLeft'
          BY <1>7, <2>1, <2>2
        <4>4. /\ snkPc = "size" => Len(data) - 1 <= content[pos] - srcLeft'
              /\ snkPc = "recv" => Len(cur.got) + Len(data) <= content[pos] - srcLeft'
          BY <1>7, <2>2, <4>2, <4>3
        <4>. QED  BY <1>2, <2>1, <3>1, <4>1, <4>2, <4>4 DEF Sent
      <3>. QED  BY <2>8, <3>2, <3>3
    <2>10. ASSUME ~Broken PROVE (~SnkGone => Stream') /\ (~SnkGone => Sent')
      <3>. DEFINE d == Unit(pos)
      <3>1. d \in Datum /\ d.item = pos
        BY <2>2 DEF Datum, Unit
      <3>. HIDE DEF d
      <3>2. /\ Len(data') = Len(data) + 1 /\ data'[Len(data) + 1] = d /\ data' # <<>>
            /\ \A i \in 1..Len(data) : data'[i] = data[i]
        <4>1. data' = Append(data, d)
          BY <2>1, <2>10 DEF d, Send
        <4>2. data \in Seq(Datum)
          BY <1>1 DEF PipeTypes
        <4>. QED  BY <3>1, <4>1, <4>2, AppendFacts
      <3>3. ~SnkGone => /\ snkPc \in {"size", "recv"}
                        /\ snkPc = "size" => /\ Len(data) >= 1 /\ data # <<>>
                                             /\ 0 + (Len(data) - 1) <= content[pos] - srcLeft
                                             /\ data[1].size >= content[pos]
                        /\ snkPc = "recv" => /\ Len(cur.got) + Len(data) <= content[pos] - srcLeft
                                             /\ content[pos] <= cur.left + Len(cur.got)
        BY <1>6, <1>7, <1>13, <2>1, <2>10 DEF Sent, Receiving
      <3>4. ASSUME ~SnkGone, snkPc = "size" PROVE Stream' /\ Sent'
        <4>1. /\ protocol = 0 /\ cur.got = <<>>
              /\ \A i \in 2..Len(data) : data[i].item = pos
          BY <1>6, <3>3, <3>4 DEF Stream
        <4>2. data'[1] = data[1] /\ Len(data) >= 1 /\ data[1].size >= content[pos]
          BY <1>7, <3>2, <3>3, <3>4
        <4>3. ASSUME NEW i \in 2..Len(data') PROVE data'[i].item = pos
          <5>1. Len(data) \in Nat /\ Len(data') = Len(data) + 1
            BY <1>7, <3>2
          <5>2. (i \in 2..Len(data) /\ i \in 1..Len(data)) \/ i = Len(data) + 1
            BY <5>1
          <5>. QED  BY <3>1, <3>2, <4>1, <5>2
        <4>. DEFINE a == Len(data) - 1
        <4>4. a \in Nat /\ 0 + a <= content[pos] - srcLeft
          BY <1>7, <3>3, <3>4
        <4>5. a + 1 = Len(data') - 1
          BY <1>7, <3>2
        <4>. HIDE DEF a
        <4>6. 0 + (a + 1) <= content[pos] /\ 0 + (a + 1) <= content[pos] - (srcLeft - 1)
          BY <1>7, <2>1, <2>2, <4>4, OneMore
        <4>7. Len(data') - 1 <= content[pos] /\ Len(data') - 1 <= content[pos] - srcLeft'
          BY <2>1, <4>4, <4>5, <4>6
        <4>8. ~Unopened'
          BY <2>1 DEF Unopened
        <4>. QED  BY <1>2, <2>1, <3>2, <3>4, <4>1, <4>2, <4>3, <4>7, <4>8 DEF Stream, Sent
      <3>5. ASSUME ~SnkGone, snkPc = "recv" PROVE Stream' /\ Sent'
        <4>1. /\ \A i \in 1..Len(data) : data[i].item = pos
              /\ \A i \in 1..Len(cur.got) : cur.got[i] = pos
          BY <1>6, <3>5 DEF Stream
        <4>2. ASSUME NEW i \in 1..Len(data') PROVE data'[i].item = pos
          <5>1. Len(data) \in Nat /\ Len(data') = Len(data) + 1
            BY <1>7, <3>2
          <5>2. i \in 1..Len(data) \/ i = Len(data) + 1
            BY <5>1
          <5>. QED  BY <3>1, <3>2, <4>1, <5>2
        <4>. DEFINE g == Len(cur.got)
        <4>. DEFINE a == Len(data)
        <4>3. g \in Nat /\ a \in Nat /\ g + a <= content[pos] - srcLeft /\ Len(data') = a + 1
          BY <1>7, <3>2, <3>3, <3>5
        <4>. HIDE DEF g, a
        <4>4. g + (a + 1) <= content[pos] /\ g + (a + 1) <= content[pos] - (srcLeft - 1)
          BY <1>7, <2>1, <2>2, <4>3, OneMore
        <4>5. g + Len(data') <= content[pos] /\ g + Len(data') <= content[pos] - srcLeft'
          BY <2>1, <4>3, <4>4
        <4>6. content[pos] <= cur.left + g
          BY <3>3, <3>5 DEF g
        <4>7. ~Unopened'
          BY <2>1 DEF Unopened
        <4>. QED  BY <1>2, <2>1, <3>5, <4>1, <4>2, <4>5, <4>6, <4>7 DEF Stream, Sent, g
      <3>. QED  BY <3>3, <3>4, <3>5
    <2>. QED  BY <2>8, <2>9, <2>10
  <1>16. CASE FileEndsEarly
    <2>1. /\ srcPc = "data" /\ srcPc' = "data" /\ srcLeft > 0 /\ srcLeft' = 0
          /\ pos' = pos /\ content' = [content EXCEPT ![pos] = @ - srcLeft] /\ data' = data
      BY <1>16 DEF FileEndsEarly
    <2>2. pos \in Items /\ content[pos] \in Nat /\ srcLeft <= content[pos]
      BY <1>1, <1>7, <2>1 DEF SrcPlaces, Contents
    <2>3. /\ content'[pos] = content[pos] - srcLeft
          /\ \A n \in Items : n # pos => content'[n] = content[n]
      BY <1>1, <2>1, <2>2 DEF SrcTypes
    <2>. DEFINE c == content'[pos]
    <2>4. c \in Nat /\ c = content[pos] - srcLeft /\ c <= content[pos]
      BY <1>7, <2>1, <2>2, <2>3
    <2>. HIDE DEF c
    <2>5. ASSUME ~SnkGone
          PROVE  /\ snkPc \in {"size", "recv", "resp"}
                 /\ snkPc = "size" => Len(data) - 1 <= c
                 /\ snkPc = "recv" => Len(cur.got) + Len(data) <= c
      BY <1>6, <1>13, <2>1, <2>4, <2>5 DEF Sent, Receiving
    <2>6. ASSUME ~SnkGone PROVE Stream'
      <3>1. CASE snkPc = "size"
        <4>1. /\ protocol = 0 /\ cur.got = <<>>
              /\ data # <<>> => /\ \/ data[1].size >= content[pos]
                                   \/ Unsized /\ data[1].size <= 0 /\ Len(data) = 1
                                /\ \A i \in 2..Len(data) : data[i].item = pos
          BY <1>6, <2>6, <3>1 DEF Stream
        <4>2. data # <<>> => data[1].size \in Int
          <5>1. data # <<>> => data[1] \in Datum
            BY <1>1, TailFacts DEF PipeTypes
          <5>. QED  BY <5>1 DEF Datum
        <4>3. data # <<>> /\ data[1].size >= content[pos] => data[1].size >= c
          BY <2>2, <2>4, <4>2
        <4>. QED  BY <1>2, <1>18, <2>1, <2>5, <2>6, <3>1, <4>1, <4>3 DEF Stream, c
      <3>2. CASE snkPc = "recv"
        <4>1. /\ \A i \in 1..Len(data) : data[i].item = pos
              /\ \A i \in 1..Len(cur.got) : cur.got[i] = pos
              /\ \/ content[pos] <= cur.left + Len(cur.got)
                 \/ Unsized /\ cur.left = 0 /\ cur.got = <<>> /\ data = <<>>
          BY <1>6, <2>6, <3>2 DEF Stream
        <4>2. cur.left + Len(cur.got) \in Nat
          BY <1>1, <1>7 DEF SnkTypes
        <4>3. content[pos] <= cur.left + Len(cur.got) => c <= cur.left + Len(cur.got)
          BY <2>2, <2>4, <4>2
        <4>. QED  BY <1>2, <1>18, <2>1, <2>5, <2>6, <3>2, <4>1, <4>3 DEF Stream, c
      <3>3. CASE snkPc = "resp"
        BY <1>2, <1>6, <2>1, <2>6, <3>3 DEF Stream
      <3>. QED  BY <2>5, <2>6, <3>1, <3>2, <3>3
    <2>7. ASSUME ~SnkGone PROVE Sent'
      <3>1. ~Unopened'
        BY <2>1 DEF Unopened
      <3>2. snkPc = "size" => Broken \/ data # <<>>
        BY <1>6, <2>1, <2>7 DEF Sent
      <3>3. /\ snkPc = "size" => Len(data) - 1 <= c - srcLeft'
            /\ snkPc = "recv" => Len(cur.got) + Len(data) <= c - srcLeft'
        BY <1>7, <2>1, <2>4, <2>5, <2>7
      <3>. QED  BY <1>2, <1>17, <2>1, <3>1, <3>2, <3>3 DEF Sent, c
    <2>8. Wholes'
      <3>. SUFFICES ASSUME NEW n \in Items, stored[n].whole
                    PROVE  /\ AllOf(n)' \/ EmptyAfter(Fatal, n)'
                           /\ n <= pos
        BY <1>2, <2>1 DEF Wholes
      <3>1. CASE n = pos
        BY <1>6, <1>7, <1>19, <2>1, <3>1, WholeHere
      <3>2. CASE n # pos
        <4>1. AllOf(n) => AllOf(n)'
          BY <1>2, <2>3, <3>2 DEF AllOf
        <4>. QED  BY <1>6, <1>19, <4>1 DEF Wholes
      <3>. QED  BY <3>1, <3>2
    <2>. QED  BY <2>6, <2>7, <2>8
  <1>. QED  BY <1>9, <1>10, <1>11, <1>12, <1>14, <1>15, <1>16, <1>21 DEF SourceStep

LEMMA ContentsKept ==
    ASSUME SnkTypes, NEW n \in Items, NEW t,
           \/ stored' = [stored EXCEPT ![n].done = TRUE]
           \/ stored' = [stored EXCEPT ![n].done = TRUE, ![n].times = t]
    PROVE  \A k \in Items : stored'[k].whole = stored[k].whole /\ stored'[k].data = stored[k].data
  <1>. SUFFICES ASSUME NEW k \in Items
                PROVE  stored'[k].whole = stored[k].whole /\ stored'[k].data = stored[k].data
    OBVIOUS
  <1>1. stored \in [Items -> Copy] /\ stored[n] \in Copy /\ stored[k] \in Copy
    BY DEF SnkTypes
  <1>2. CASE stored' = [stored EXCEPT ![n].done = TRUE]
    BY <1>1, <1>2 DEF Copy
  <1>3. CASE stored' = [stored EXCEPT ![n].done = TRUE, ![n].times = t]
    BY <1>1, <1>3 DEF Copy
  <1>. QED  BY <1>2, <1>3

LEMMA SinkContents ==
    ASSUME IInv, SinkStep \/ SinkKilled
    PROVE  ContentsInv'
  <1>1. /\ SrcTypes /\ SrcPlaces /\ PipeTypes /\ SnkTypes /\ SnkPlaces /\ OptTypes /\ Contents
        /\ SnkTypes' /\ SnkPlaces' /\ PipeTypes' /\ UNCHANGED <<optVars, srcVars>>
    BY NextSnkTypes DEF IInv
  <1>2. /\ UNCHANGED <<client, pflag, protocol, pos, srcPc, srcLeft, srcErr, srcExit, content>>
        /\ (SrcGone' <=> SrcGone)
    BY <1>1 DEF optVars, srcVars, SrcGone
  <1>3. /\ faults' = faults \/ \E f \in Faults : Fault(f)
        /\ snkPc # "done"
    <2>1. \A f : Fault(f) => f \in Faults
      BY DEF Fault
    <2>2. faults' = faults \/ \E f : Fault(f)
      BY DEF SinkStep, SinkKilled, SinkHearsError, SinkTakesTimes, SinkRefuses, SinkEntersDir,
             SinkOpensFile, SinkEndsDir, SinkMeetsEnd, SinkReturns, SinkScrewsUp, RecvSize,
             SizeNeverComes, RecvUnit, RecvDone, SinkFinishesFile, SinkMisreads, SinkLosesSource
    <2>3. snkPc # "done"
      BY <1>1 DEF SinkStep, SinkKilled, SinkHearsError, SinkTakesTimes, SinkRefuses, SinkEntersDir,
             SinkOpensFile, SinkEndsDir, SinkMeetsEnd, SinkScrewsUp, RecvSize, SizeNeverComes,
           RecvUnit, RecvDone,
             SinkFinishesFile, SinkMisreads, SinkLosesSource, Reads, SnkPlaces
    <2>. QED  BY <2>1, <2>2, <2>3
  <1>. SUFFICES ASSUME Steady'
                PROVE  /\ ~SnkGone' => Stream'
                       /\ ~SrcGone /\ ~SnkGone' => Sent'
                       /\ Wholes'
    BY <1>2 DEF ContentsInv
  <1>4. Steady
    BY <1>1, <1>3, NoneStays DEF Steady
  <1>5. ~SnkGone
    BY <1>1, <1>3 DEF SnkPlaces
  <1>6. /\ Records /\ Pending /\ Wholes /\ Stream
        /\ ~SrcGone => Replies /\ Turns /\ Sent
    BY <1>4, <1>5 DEF IInv, InStepInv, ContentsInv
  <1>7. /\ Len(data) \in Nat /\ (data = <<>> <=> Len(data) = 0)
        /\ Len(cur.got) \in Nat /\ (cur.got = <<>> <=> Len(cur.got) = 0)
        /\ pos \in Items => content[pos] \in Nat /\ content[pos] <= Size(pos)
        /\ srcLeft \in Nat
        /\ cur.left \in Nat
    BY <1>1, EmptyFacts DEF PipeTypes, SnkTypes, SrcTypes, Contents
  <1>8. (Broken => Broken') /\ (Unsized => Unsized')
    BY <1>1, <1>2, <1>3, FaultsStay
  <1>20. ASSUME NEW n \in Items, stored'[n].data = stored[n].data
         PROVE  (AllOf(n) => AllOf(n)') /\ (EmptyAfter(Fatal, n) => EmptyAfter(Fatal, n)')
    <2>1. AllOf(n) => AllOf(n)'
      BY <1>2, <1>20 DEF AllOf
    <2>2. EmptyAfter(Fatal, n) => EmptyAfter(Fatal, n)'
      BY <1>1, <1>2, <1>3, <1>20, EmptyStays
    <2>. QED  BY <2>1, <2>2
  <1>9. ASSUME \A n \in Items : stored'[n].whole = stored[n].whole /\ stored'[n].data = stored[n].data
        PROVE  Wholes'
    <2>. SUFFICES ASSUME NEW n \in Items, stored[n].whole
                  PROVE  /\ AllOf(n)' \/ EmptyAfter(Fatal, n)'
                         /\ n <= pos
                         /\ n = pos =>
                               /\ srcPc \notin {"start", "item", "T"}
                               /\ srcPc \in {"CD", "open"} =>
                                     (protocol = 1 /\ Size(n) = 0) \/ EmptyAfter(Fatal, n)'
                               /\ srcPc = "data" => srcLeft = 0 \/ EmptyAfter(Fatal, n)'
      BY <1>2, <1>9 DEF Wholes, Size
    <2>1. (AllOf(n) => AllOf(n)') /\ (EmptyAfter(Fatal, n) => EmptyAfter(Fatal, n)')
      BY <1>9, <1>20
    <2>. QED  BY <1>6, <2>1 DEF Wholes
  \* The sink stays with its records, or ends.
  <1>10. ASSUME snkPc' = "done" \/ (snkPc' = "read" /\ snkPc \in {"read", "resp"} /\ data' = data),
                \A n \in Items : stored'[n].whole = stored[n].whole
                                 /\ stored'[n].data = stored[n].data
         PROVE  /\ ~SnkGone' => Stream'
                /\ ~SrcGone /\ ~SnkGone' => Sent'
                /\ Wholes'
    <2>1. CASE snkPc' = "done"
      BY <1>1, <1>9, <1>10, <2>1 DEF SnkPlaces
    <2>2. CASE snkPc' = "read" /\ snkPc \in {"read", "resp"} /\ data' = data
      <3>1. data' = <<>>
        BY <1>6, <2>2 DEF Stream
      <3>2. Stream'
        BY <2>2, <3>1 DEF Stream
      <3>3. Sent'
        BY <2>2 DEF Sent, Receiving
      <3>. QED  BY <1>9, <1>10, <3>2, <3>3
    <2>. QED  BY <1>10, <2>1, <2>2
  <1>11. CASE SinkHearsError \/ SinkTakesTimes \/ SinkRefuses \/ SinkEntersDir
    <2>1. snkPc' = "read" /\ snkPc = "read" /\ data' = data /\ stored' = stored
      BY <1>11 DEF SinkHearsError, SinkTakesTimes, SinkRefuses, SinkEntersDir, Reads
    <2>. QED  BY <1>10, <2>1
  <1>12. CASE SinkScrewsUp \/ SinkMisreads \/ SinkLosesSource \/ SinkKilled
    <2>1. snkPc' = "done" /\ stored' = stored
      BY <1>12 DEF SinkScrewsUp, SinkMisreads, SinkLosesSource, SinkKilled
    <2>. QED  BY <1>10, <2>1
  <1>13. CASE SinkEndsDir \/ SinkMeetsEnd
    <2>1. PICK R : SinkReturns(R)
      BY <1>13 DEF SinkEndsDir, SinkMeetsEnd
    <2>2. snkPc = "read" /\ data' = data /\ snkPc' \in {"read", "done"}
      BY <1>13, <2>1 DEF SinkEndsDir, SinkMeetsEnd, SinkReturns, Reads
    <2>. DEFINE m == stack[Depth].dir
    <2>. DEFINE t == Times(Depth - 1)
    <2>3. \/ stored' = stored
          \/ /\ Depth > 1
             /\ \/ stored' = [stored EXCEPT ![m].done = TRUE]
                \/ stored' = [stored EXCEPT ![m].done = TRUE, ![m].times = t]
      BY <2>1 DEF SinkReturns
    <2>4. \A n \in Items : stored'[n].whole = stored[n].whole /\ stored'[n].data = stored[n].data
      <3>1. Depth > 1 => m \in Items
        <4>1. Depth \in Nat
          BY <1>1, EmptyFacts DEF SnkTypes, Depth
        <4>. QED  BY <1>1, <4>1 DEF SnkPlaces
      <3>. HIDE DEF m, t
      <3>. QED  BY <1>1, <2>3, <3>1, ContentsKept
    <2>. QED  BY <1>10, <2>2, <2>4
  <1>14. CASE SinkOpensFile
    <2>1. /\ Reads("CD") /\ snkPc' = IF protocol = 1 THEN "recv" ELSE "size"
          /\ cur' = [NoFile EXCEPT !.item = Next1.item, !.left = Size(Next1.item)]
          /\ stored' = stored /\ data' = data
      BY <1>14 DEF SinkOpensFile
    <2>2. /\ snkPc = "read" /\ toSink # <<>> /\ Next1 = toSink[1] /\ Next1 \in Rec
          /\ toSink[1].what = "CD" /\ toSink[1].item \in Items
      BY <1>1, <2>1, ReadFacts DEF Reads
    <2>3. /\ toSink[1].item = pos
          /\ ~SrcGone => srcPc = "CD"
      BY <1>1, <1>6, <2>2, HeadOfTurn
    <2>4. /\ cur'.got = <<>> /\ cur'.left = Size(pos) /\ Len(cur'.got) = 0 /\ data' = <<>>
          /\ Len(data') = 0
      <3>1. cur'.got = <<>> /\ cur'.left = Size(pos)
        BY <2>1, <2>2, <2>3 DEF NoFile
      <3>2. data' = <<>>
        BY <1>6, <2>1, <2>2 DEF Stream
      <3>. QED  BY <3>1, <3>2
    <2>5. protocol \in {0, 1}
      BY <1>1, SessionAssumption DEF OptTypes
    <2>6. Stream'
      <3>1. content[pos] <= Size(pos) /\ content[pos] \in Nat /\ Size(pos) \in Nat
        BY <1>7, <2>2, <2>3, WalkFacts
      <3>. QED  BY <1>2, <2>1, <2>4, <2>5, <3>1 DEF Stream
    <2>7. ~SrcGone => Sent'
      BY <1>2, <2>1, <2>3, <2>4 DEF Sent, Unopened
    <2>. QED  BY <1>9, <2>1, <2>6, <2>7
  <1>15. ASSUME snkPc \in {"size", "recv"}
         PROVE  Receiving /\ ~cur.failed /\ cur.item = pos /\ pos \in Items
    BY <1>1, <1>6, <1>15 DEF Records, Receiving, SnkPlaces
  <1>16. CASE RecvSize
    <2>1. /\ snkPc = "size" /\ snkPc' = "recv" /\ data # <<>> /\ data' = Tail(data)
          /\ cur' = [cur EXCEPT !.left = Awaited(Head(data).size)]
          /\ UNCHANGED <<stored, toSource>>
      BY <1>16 DEF RecvSize
    <2>2. /\ Len(data) >= 1 /\ Head(data) = data[1] /\ data[1] \in Datum /\ Len(data') = Len(data) - 1
          /\ \A i \in 1..(Len(data) - 1) : data'[i] = data[i + 1]
      BY <1>1, <2>1, TailFacts DEF PipeTypes
    <2>3. /\ cur.got = <<>> /\ Len(cur.got) = 0 /\ protocol = 0
          /\ \/ data[1].size >= content[pos]
             \/ Unsized /\ data[1].size <= 0 /\ Len(data) = 1
          /\ \A i \in 2..Len(data) : data[i].item = pos
          /\ Len(data) - 1 <= content[pos]
      BY <1>6, <1>7, <2>1 DEF Stream
    <2>4. content[pos] \in Nat
      BY <1>7, <1>15, <2>1
    <2>5. /\ cur'.got = <<>> /\ Len(cur'.got) = 0 /\ cur'.left \in Nat
          /\ data[1].size >= content[pos] => content[pos] <= cur'.left
          /\ data[1].size <= 0 => cur'.left = 0
      <3>1. data[1].size \in Int
        BY <2>2 DEF Datum
      <3>2. cur'.got = <<>> /\ cur'.left = Awaited(data[1].size)
        BY <1>1, <2>1, <2>2, <2>3 DEF SnkTypes
      <3>. QED  BY <2>3, <2>4, <3>1, <3>2 DEF Awaited
    <2>6. \A i \in 1..Len(data') : data'[i].item = pos
      BY <1>7, <2>2, <2>3
    <2>7. Stream'
      <3>1. Len(data) = 1 => data' = <<>>
        BY <1>1, <2>2, EmptyFacts DEF PipeTypes
      <3>2. \A i \in 1..Len(cur'.got) : cur'.got[i] = pos
        BY <2>5
      <3>3. Len(cur'.got) + Len(data') <= content[pos]
        BY <1>7, <2>2, <2>3, <2>4, <2>5
      <3>4. \/ content[pos] <= cur'.left + Len(cur'.got)
            \/ Unsized' /\ cur'.left = 0 /\ cur'.got = <<>> /\ data' = <<>>
        BY <1>8, <2>3, <2>4, <2>5, <3>1
      <3>. QED  BY <1>2, <2>1, <2>6, <3>2, <3>3, <3>4 DEF Stream
    <2>8. ASSUME ~SrcGone PROVE Sent'
      <3>1. ~Unopened'
        BY <1>2, <1>6, <1>15, <2>1, <2>8 DEF Sent, Unopened
      <3>. SUFFICES ASSUME srcPc = "data"
                    PROVE  /\ Len(cur'.got) + Len(data') <= content[pos] - srcLeft
                           /\ content[pos] <= cur'.left + Len(cur'.got) \/ srcLeft = 0
        BY <1>2, <2>1, <3>1 DEF Sent
      <3>2. /\ Len(data) - 1 <= content[pos] - srcLeft
            /\ data[1].size >= content[pos] \/ srcLeft = 0
        BY <1>6, <2>1, <2>8 DEF Sent
      <3>3. Len(cur'.got) + Len(data') <= content[pos] - srcLeft
        BY <1>7, <2>2, <2>4, <2>5, <3>2
      <3>. QED  BY <2>4, <2>5, <3>2, <3>3
    <2>. QED  BY <1>9, <2>1, <2>7, <2>8
  <1>17. CASE RecvUnit
    <2>1. /\ snkPc = "recv" /\ snkPc' = "recv" /\ cur.left # 0 /\ data # <<>> /\ data' = Tail(data)
          /\ cur' = [cur EXCEPT !.left = @ - 1, !.got = Append(@, Head(data).item)]
          /\ UNCHANGED <<stored, toSource>>
      BY <1>17 DEF RecvUnit, AllReceived
    <2>2. /\ Len(data) >= 1 /\ Head(data) = data[1] /\ data[1] \in Datum /\ Len(data') = Len(data) - 1
          /\ \A i \in 1..(Len(data) - 1) : data'[i] = data[i + 1]
      BY <1>1, <2>1, TailFacts DEF PipeTypes
    <2>3. /\ \A i \in 1..Len(data) : data[i].item = pos
          /\ \A i \in 1..Len(cur.got) : cur.got[i] = pos
          /\ content[pos] <= cur.left + Len(cur.got)
          /\ Len(cur.got) + Len(data) <= content[pos]
      BY <1>6, <2>1 DEF Stream
    <2>4. content[pos] \in Nat /\ pos \in Items
      BY <1>7, <1>15, <2>1
    <2>5. Head(data).item = pos
      <3>1. 1 \in 1..Len(data)
        BY <1>7, <2>2
      <3>. QED  BY <2>2, <2>3, <3>1
    <2>. DEFINE g == cur.got
    <2>6. g \in Seq(Items) /\ cur'.got = Append(g, pos) /\ cur'.left = cur.left - 1
      BY <1>1, <2>1, <2>5 DEF SnkTypes
    <2>7. /\ Len(cur'.got) = Len(g) + 1 /\ cur'.got[Len(g) + 1] = pos
          /\ \A i \in 1..Len(g) : cur'.got[i] = g[i]
      BY <2>4, <2>6, AppendFacts
    <2>8. ASSUME NEW i \in 1..Len(cur'.got) PROVE cur'.got[i] = pos
      <3>1. i \in 1..Len(g) \/ i = Len(g) + 1
        BY <1>7, <2>7
      <3>. QED  BY <2>3, <2>7, <3>1
    <2>9. \A i \in 1..Len(data') : data'[i].item = pos
      BY <1>7, <2>2, <2>3
    <2>. DEFINE lg == Len(cur.got)
    <2>. DEFINE ld == Len(data)
    <2>. DEFINE lg1 == Len(cur'.got)
    <2>. DEFINE ld1 == Len(data')
    <2>. DEFINE l1 == cur'.left
    <2>10. /\ lg \in Nat /\ ld \in Nat /\ lg1 = lg + 1 /\ ld1 = ld - 1 /\ l1 = cur.left - 1
           /\ content[pos] <= cur.left + lg /\ lg + ld <= content[pos]
      BY <1>7, <2>2, <2>3, <2>6, <2>7
    <2>. HIDE DEF lg, ld, lg1, ld1, l1
    <2>11. content[pos] <= l1 + lg1 /\ lg1 + ld1 <= content[pos] /\ lg1 + ld1 = lg + ld
      BY <1>7, <2>4, <2>10
    <2>12. Stream'
      BY <1>2, <2>1, <2>8, <2>9, <2>11 DEF Stream, lg1, ld1, l1
    <2>13. ASSUME ~SrcGone PROVE Sent'
      <3>1. ~Unopened'
        BY <1>2, <1>6, <1>15, <2>1, <2>13 DEF Sent, Unopened
      <3>2. srcPc = "data" => lg + ld <= content[pos] - srcLeft
        BY <1>6, <2>1, <2>13 DEF Sent, lg, ld
      <3>3. srcPc = "data" => Len(cur'.got) + Len(data') <= content[pos] - srcLeft
        BY <2>11, <3>2 DEF lg1, ld1
      <3>4. content[pos] <= cur'.left + Len(cur'.got)
        BY <2>11 DEF l1, lg1
      <3>. QED  BY <1>2, <2>1, <3>1, <3>3, <3>4 DEF Sent
    <2>. QED  BY <1>9, <2>1, <2>12, <2>13
  <1>18. CASE RecvDone
    <2>1. /\ snkPc = "recv" /\ snkPc' = "resp" /\ cur.left = 0 /\ data' = data
          /\ stored' = [stored EXCEPT ![cur.item].whole = TRUE, ![cur.item].data = cur.got]
          /\ cur'.left = 0
      BY <1>1, <1>18 DEF RecvDone, AllReceived, SnkTypes
    <2>2. Receiving /\ Receiving' /\ ~cur.failed /\ cur.item = pos /\ pos \in Items
      BY <1>15, <2>1 DEF Receiving
    <2>3. content[pos] \in Nat
      BY <1>7, <2>2
    <2>4. /\ \A i \in 1..Len(cur.got) : cur.got[i] = pos
          /\ Len(data) = 0
          /\ content[pos] = Len(cur.got) \/ (Unsized /\ cur.got = <<>>)
      <3>1. /\ \A i \in 1..Len(cur.got) : cur.got[i] = pos
            /\ \/ content[pos] <= cur.left + Len(cur.got)
               \/ Unsized /\ cur.got = <<>> /\ data = <<>>
            /\ Len(cur.got) + Len(data) <= content[pos]
        BY <1>6, <2>1 DEF Stream
      <3>. DEFINE lg == Len(cur.got)
      <3>. DEFINE ld == Len(data)
      <3>2. lg \in Nat /\ ld \in Nat /\ lg + ld <= content[pos]
        BY <1>7, <3>1
      <3>3. CASE content[pos] <= cur.left + lg
        <4>1. content[pos] <= 0 + lg
          BY <2>1, <3>3
        <4>. HIDE DEF lg, ld
        <4>2. content[pos] = lg /\ ld = 0
          BY <2>3, <3>2, <4>1
        <4>. QED  BY <3>1, <4>2 DEF lg, ld
      <3>4. CASE Unsized /\ cur.got = <<>> /\ data = <<>>
        BY <1>7, <3>1, <3>4
      <3>. QED  BY <3>1, <3>3, <3>4
    <2>5. Stream'
      BY <1>7, <2>1, <2>4 DEF Stream
    <2>9. stored'[pos].data = cur.got /\ cur'.got = cur.got
      BY <1>1, <1>18, <2>1, <2>2 DEF SnkTypes, Copy, RecvDone
    <2>10. (Broken /\ protocol = 0) \/ Unsized => (cur.got = <<>> => EmptyAfter(Fatal, pos)')
      BY <1>2, <1>8, <2>9 DEF EmptyAfter, Unsized, Broken, Fatal, None
    <2>6. ASSUME ~SrcGone
          PROVE  /\ srcPc \in {"CD", "open", "data", "final"}
                 /\ srcPc = "data" => /\ srcLeft = 0 \/ (Broken /\ protocol = 0)
                                      /\ srcLeft = 0 \/ EmptyAfter(Fatal, pos)'
                 /\ srcPc \in {"CD", "open"} =>
                       /\ cur.got = <<>> /\ data = <<>>
                       /\ (protocol = 1 /\ Size(pos) = 0) \/ (Broken /\ protocol = 0)
      <3>1. /\ srcPc \in {"CD", "open", "data", "final"}
            /\ srcPc = "CD" => toSource # <<>>
        BY <1>1, <1>6, <2>2, <2>6, WhileReceiving
      <3>2. ASSUME srcPc = "data"
            PROVE  srcLeft = 0 \/ (Unsized /\ cur.got = <<>> /\ Broken /\ protocol = 0)
        <4>. DEFINE lg == Len(cur.got)
        <4>1. /\ lg \in Nat /\ lg + Len(data) <= content[pos] - srcLeft
              /\ content[pos] <= cur.left + lg \/ srcLeft = 0 \/ Broken
          BY <1>6, <1>7, <2>1, <2>6, <3>2 DEF Sent
        <4>2. lg + 0 <= content[pos] - srcLeft /\ (content[pos] <= 0 + lg \/ srcLeft = 0 \/ Broken)
          BY <2>1, <2>4, <4>1
        <4>3. content[pos] <= lg => srcLeft = 0
          <5>. HIDE DEF lg
          <5>. QED  BY <1>7, <2>3, <4>1, <4>2
        <4>4. content[pos] = lg \/ (Unsized /\ cur.got = <<>>)
          BY <2>4
        <4>5. content[pos] = lg => content[pos] <= lg
          BY <2>3
        <4>6. content[pos] <= 0 + lg => content[pos] <= lg
          BY <4>1
        <4>. HIDE DEF lg
        <4>. QED  BY <4>2, <4>3, <4>4, <4>5, <4>6 DEF Unsized
      <3>3. ASSUME srcPc \in {"CD", "open"}
            PROVE  /\ cur.got = <<>> /\ data = <<>>
                   /\ (protocol = 1 /\ Size(pos) = 0) \/ (Broken /\ protocol = 0)
        <4>1. Unopened
          BY <3>1, <3>3 DEF Unopened
        <4>2. cur.got = <<>> /\ data = <<>> /\ (protocol = 0 => Broken)
          BY <1>6, <2>1, <2>2, <2>6, <4>1 DEF Sent
        <4>3. protocol \in {0, 1}
          BY <1>1, SessionAssumption DEF OptTypes
        <4>4. protocol = 1 => content[pos] = 0
          BY <1>7, <2>4, <4>2 DEF Unsized
        <4>5. content[pos] = Size(pos)
          BY <1>1, <2>2, <3>3 DEF Contents
        <4>. QED  BY <4>2, <4>3, <4>4, <4>5
      <3>. QED  BY <2>10, <3>1, <3>2, <3>3
    <2>7. ASSUME ~SrcGone PROVE Sent'
      <3>1. /\ srcPc = "data" => srcLeft = 0 \/ (Broken /\ protocol = 0)
            /\ Unopened' => srcPc \in {"CD", "open"}
            /\ srcPc \in {"CD", "open"} =>
                   /\ cur.got = <<>> /\ data = <<>>
                   /\ (protocol = 1 /\ Size(pos) = 0) \/ (Broken /\ protocol = 0)
        BY <1>2, <2>6, <2>7 DEF Unopened
      <3>. QED  BY <1>2, <1>8, <2>1, <2>9, <3>1 DEF Sent, Size
    <2>8. Wholes'
      <3>1. \A n \in Items : n # pos => stored'[n] = stored[n]
        BY <1>1, <2>1, <2>2 DEF SnkTypes
      <3>2. AllOf(pos)' \/ EmptyAfter(Fatal, pos)'
        <4>1. CASE content[pos] = Len(cur.got)
          <5>. DEFINE g == cur.got
          <5>1. g \in Seq(Items)
            BY <1>1 DEF SnkTypes
          <5>2. g = [i \in 1..Len(g) |-> g[i]]
            BY <5>1
          <5>3. g = [i \in 1..content[pos] |-> pos]
            BY <2>4, <4>1, <5>2
          <5>. QED  BY <1>2, <2>9, <5>3 DEF AllOf
        <4>2. CASE Unsized /\ cur.got = <<>>
          BY <2>10, <4>2
        <4>. QED  BY <2>4, <4>1, <4>2
      <3>4. /\ pos <= pos
            /\ SrcGone => srcPc = "done"
        BY <1>1, <2>2, WalkFacts DEF SrcPlaces
      <3>. SUFFICES ASSUME NEW n \in Items, stored'[n].whole
                    PROVE  /\ AllOf(n)' \/ EmptyAfter(Fatal, n)'
                           /\ n <= pos
                           /\ n = pos =>
                                 /\ srcPc \notin {"start", "item", "T"}
                                 /\ srcPc \in {"CD", "open"} =>
                                       (protocol = 1 /\ Size(n) = 0) \/ EmptyAfter(Fatal, n)'
                                 /\ srcPc = "data" => srcLeft = 0 \/ EmptyAfter(Fatal, n)'
        BY <1>2 DEF Wholes, Size
      <3>5. CASE n = pos
        <4>1. CASE SrcGone
          BY <1>2, <3>2, <3>4, <3>5, <4>1
        <4>2. CASE ~SrcGone
          BY <1>2, <2>6, <2>10, <3>2, <3>4, <3>5, <4>2
        <4>. QED  BY <4>1, <4>2
      <3>6. CASE n # pos
        <4>1. stored[n].whole /\ stored'[n].data = stored[n].data
          BY <3>1, <3>6
        <4>2. (AllOf(n) => AllOf(n)') /\ (EmptyAfter(Fatal, n) => EmptyAfter(Fatal, n)')
          BY <1>20, <4>1
        <4>. QED  BY <1>6, <3>6, <4>1, <4>2 DEF Wholes
      <3>. QED  BY <3>5, <3>6
    <2>. QED  BY <2>5, <2>7, <2>8
  <1>19. CASE SinkFinishesFile
    <2>1. snkPc = "resp" /\ snkPc' = "read" /\ data' = data
      BY <1>19 DEF SinkFinishesFile
    <2>. DEFINE m == cur.item
    <2>. DEFINE t == Times(Depth)
    <2>2. \/ stored' = stored
          \/ stored' = [stored EXCEPT ![m].done = TRUE, ![m].times = t]
      BY <1>19 DEF SinkFinishesFile
    <2>3. \A n \in Items : stored'[n].whole = stored[n].whole /\ stored'[n].data = stored[n].data
      <3>1. m \in Items
        BY <1>1, <2>1 DEF SnkPlaces, Receiving
      <3>. HIDE DEF m, t
      <3>. QED  BY <1>1, <2>2, <3>1, ContentsKept
    <2>. QED  BY <1>10, <2>1, <2>3
  <1>21. CASE SizeNeverComes
    <2>1. /\ snkPc = "size" /\ snkPc' = "recv" /\ data = <<>> /\ data' = data /\ stored' = stored
          /\ Broken \/ SrcGone
          /\ cur'.left = 0 /\ cur'.got = cur.got
      BY <1>1, <1>21 DEF SizeNeverComes, Dry, SnkTypes
    <2>2. pos \in Items /\ protocol = 0 /\ cur.got = <<>>
      BY <1>6, <1>15, <2>1 DEF Stream
    <2>3. content[pos] \in Nat /\ srcLeft \in Nat /\ (srcPc = "data" => srcLeft <= content[pos])
      BY <1>1, <1>7, <2>2 DEF Contents
    <2>4. Unsized
      <3>1. CASE Broken
        BY <2>2, <3>1 DEF Broken, Unsized, None, Fatal
      <3>2. CASE SrcGone
        <4>1. ~(pos > Len(Walk))
          BY <2>2, WalkFacts
        <4>2. ~None({"break", "kill"})
          BY <1>5, <3>2, <4>1 DEF IInv, Marks
        <4>. QED  BY <2>2, <4>2 DEF Unsized, None, Fatal
      <3>. QED  BY <2>1, <3>1, <3>2
    <2>5. Stream'
      BY <1>2, <1>8, <2>1, <2>2, <2>3, <2>4 DEF Stream
    <2>6. ASSUME ~SrcGone PROVE Sent'
      BY <1>2, <1>8, <2>1, <2>2, <2>3, <2>6 DEF Sent
    <2>. QED  BY <1>9, <2>1, <2>5, <2>6
  <1>. QED  BY <1>11, <1>12, <1>13, <1>14, <1>16, <1>17, <1>18, <1>19, <1>21 DEF SinkStep

-----------------------------------------------------------------------------
(***************************************************************************)
(* The connection breaks: no side notices, and the stream is cut off.      *)
(***************************************************************************)
LEMMA BreakKeeps ==
    ASSUME IInv, ConnectionBreaks
    PROVE  IInv'
  <1>1. /\ UNCHANGED <<client, pflag, protocol, pos, srcPc, srcLeft, srcErr, srcExit, content>>
        /\ UNCHANGED <<stack, snkPc, cur, snkErr, snkExit, stored, toSink, toSource>>
        /\ CutOff /\ Fault("break")
    BY DEF ConnectionBreaks, optVars, srcVars, snkVars
  <1>2. /\ OptTypes /\ SrcTypes /\ SnkTypes /\ PipeTypes /\ SrcPlaces /\ SnkPlaces
        /\ Contents /\ Marks
    BY DEF IInv
  <1>3. PipeTypes'
    BY <1>1, <1>2, CutFacts, FaultFacts DEF PipeTypes
  <1>4. OptTypes' /\ SrcTypes' /\ SnkTypes' /\ SrcPlaces' /\ SnkPlaces' /\ Contents'
    BY <1>1, <1>2 DEF OptTypes, SrcTypes, SnkTypes, SrcPlaces, SnkPlaces, Contents, SrcGone,
                      SnkGone, Depth, Receiving, Size
  <1>5. /\ (Steady' <=> Steady) /\ (None({"kill"})' <=> None({"kill"}))
        /\ Broken'
    BY <1>1, <1>2, FaultFacts DEF Steady, None, Broken
  <1>6. (SrcGone' <=> SrcGone) /\ (SnkGone' <=> SnkGone) /\ (Receiving' <=> Receiving)
    BY <1>1 DEF SrcGone, SnkGone, Receiving
  <1>7. Marks'
    BY <1>1, <1>2, <1>5, <1>6 DEF Marks, Depth, Broken, None
  <1>8. InStepInv'
    <2>1. (Replies' <=> Replies) /\ (Records' <=> Records) /\ (OwnTimes' <=> OwnTimes)
      BY <1>1 DEF Replies, Records, OwnTimes, Receiving
    <2>2. (Turns' <=> Turns) /\ (Pending' <=> Pending)
      BY <1>1 DEF Turns, Pending, Receiving, Depth, Times
    <2>. QED  BY <1>5, <1>6, <2>1, <2>2 DEF IInv, InStepInv
  <1>9. Unsized => Unsized'
    BY <1>1, <1>2, FaultsStay
  <1>10. ContentsInv'
    <2>. SUFFICES ASSUME Steady
                  PROVE  /\ ~SnkGone => Stream'
                         /\ ~SrcGone /\ ~SnkGone => Sent'
                         /\ Wholes'
      BY <1>5, <1>6 DEF ContentsInv
    <2>1. (~SnkGone => Stream /\ Records) /\ Wholes /\ (~SrcGone /\ ~SnkGone => Sent)
      BY DEF IInv, InStepInv, ContentsInv
    <2>2. /\ Len(data) \in Nat /\ Len(data') \in Nat /\ Len(data') <= Len(data)
          /\ data = <<>> => data' = <<>>
          /\ \A i \in 1..Len(data') : i \in 1..Len(data) /\ data'[i] = data[i]
      BY <1>1, <1>2, CutFacts, EmptyFacts DEF PipeTypes
    <2>3. ASSUME ~SnkGone, snkPc \in {"size", "recv"} PROVE pos \in Items /\ content[pos] \in Nat
      BY <1>2, <2>1, <2>3 DEF Records, Receiving, SnkPlaces, SrcTypes
    <2>4. ~SnkGone => Stream'
      BY <1>1, <1>2, <1>9, <2>1, <2>3, StreamCut
    <2>5. ASSUME ~SrcGone, ~SnkGone PROVE Sent'
      <3>. DEFINE lg == Len(cur.got)
      <3>1. lg \in Nat /\ srcLeft \in Nat
        BY <1>2, EmptyFacts DEF SnkTypes, SrcTypes
      <3>2. ASSUME srcPc = "data"
            PROVE  /\ snkPc = "size" =>
                         /\ Len(data') - 1 <= content[pos] - srcLeft
                         /\ data' # <<>> => data'[1].size >= content[pos] \/ srcLeft = 0
                   /\ snkPc = "recv" => lg + Len(data') <= content[pos] - srcLeft
                   /\ snkPc = "resp" => srcLeft = 0 \/ (Broken' /\ protocol = 0)
        <4>1. CASE snkPc = "size"
          <5>1. /\ Len(data) - 1 <= content[pos] - srcLeft /\ content[pos] \in Nat
                /\ data # <<>> => data[1].size >= content[pos] \/ srcLeft = 0
            BY <2>1, <2>3, <2>5, <3>2, <4>1 DEF Sent
          <5>2. data' # <<>> => data # <<>> /\ data'[1] = data[1]
            <6>1. data' # <<>> => Len(data') # 0
              BY <1>3, EmptyFacts DEF PipeTypes
            <6>. QED  BY <2>2, <6>1
          <5>. QED  BY <2>2, <3>1, <4>1, <5>1, <5>2
        <4>2. CASE snkPc = "recv"
          <5>1. lg + Len(data) <= content[pos] - srcLeft /\ content[pos] \in Nat
            BY <2>1, <2>3, <2>5, <3>2, <4>2 DEF Sent
          <5>. HIDE DEF lg
          <5>. QED  BY <2>2, <3>1, <4>2, <5>1
        <4>3. CASE snkPc = "resp"
          BY <1>5, <2>1, <2>5, <3>2, <4>3 DEF Sent
        <4>. QED  BY <4>1, <4>2, <4>3
      <3>3. ASSUME Unopened, Receiving
            PROVE  /\ data' = <<>> /\ cur.got = <<>>
                   /\ snkPc = "resp" => Size(pos) = 0 \/ (Broken' /\ protocol = 0)
        BY <1>5, <2>1, <2>2, <2>5, <3>3 DEF Sent
      <3>4. (Unopened' <=> Unopened) /\ Size(pos)' = Size(pos)
        BY <1>1 DEF Unopened, Size
      <3>. QED  BY <1>1, <1>5, <1>6, <3>2, <3>3, <3>4 DEF Sent
    <2>6. Wholes'
      <3>. SUFFICES ASSUME NEW n \in Items, stored[n].whole
                    PROVE  /\ AllOf(n)' \/ EmptyAfter(Fatal, n)'
                           /\ n <= pos
                           /\ n = pos =>
                                 /\ srcPc \notin {"start", "item", "T"}
                                 /\ srcPc \in {"CD", "open"} =>
                                       (protocol = 1 /\ Size(n) = 0) \/ EmptyAfter(Fatal, n)'
                                 /\ srcPc = "data" => srcLeft = 0 \/ EmptyAfter(Fatal, n)'
        BY <1>1 DEF Wholes, Size
      <3>1. (AllOf(n) => AllOf(n)') /\ (EmptyAfter(Fatal, n) => EmptyAfter(Fatal, n)')
        <4>1. AllOf(n) => AllOf(n)'
          BY <1>1 DEF AllOf
        <4>2. EmptyAfter(Fatal, n) => EmptyAfter(Fatal, n)'
          BY <1>1, <1>2, EmptyStays
        <4>. QED  BY <4>1, <4>2
      <3>. QED  BY <2>1, <3>1 DEF Wholes
    <2>. QED  BY <2>4, <2>5, <2>6
  <1>11. CopiedInv'
    BY <1>1 DEF IInv, CopiedInv, AllWell, FileDone, DirDone, Depth
  <1>. QED  BY <1>3, <1>4, <1>7, <1>8, <1>10, <1>11 DEF IInv

-----------------------------------------------------------------------------
(***************************************************************************)
(* What has been copied.                                                   *)
(***************************************************************************)
LEMMA WellInStep ==
    ASSUME IInv, AllWell
    PROVE  /\ InStepInv /\ Steady /\ OwnTimes /\ ~cur.failed
           /\ \A i \in 1..Len(toSource) : toSource[i].ok
           /\ ~SrcGone => Replies
           /\ ~SnkGone => Records /\ Pending
           /\ ~SrcGone /\ ~SnkGone => Turns
  BY DEF IInv, AllWell, Marks, InStepInv

LEMMA SourceCopied ==
    ASSUME IInv, SourceStep \/ SourceKilled
    PROVE  CopiedInv'
  <1>1. /\ SrcTypes /\ SrcPlaces /\ PipeTypes /\ SnkTypes /\ SnkPlaces /\ OptTypes /\ Marks
        /\ SrcTypes' /\ SrcPlaces' /\ PipeTypes' /\ UNCHANGED <<optVars, snkVars>>
    BY NextSrcTypes DEF IInv
  <1>2. /\ UNCHANGED <<client, pflag, protocol, stack, snkPc, cur, snkErr, snkExit, stored>>
        /\ (SnkGone' <=> SnkGone) /\ Depth' = Depth
    BY <1>1 DEF optVars, snkVars, SnkGone, Depth
  <1>3. \A n : (FileDone(n)' <=> FileDone(n)) /\ (DirDone(n)' <=> DirDone(n))
    BY <1>2 DEF FileDone, DirDone
  <1>4. srcPc # "done"
    BY <1>1 DEF SourceStep, SourceKilled, SourceFails, AnnounceFile, AnnounceDir, LeaveDir,
           SourceResponse, SourceDropsFile, OpenFile, SendUnit, FileEndsEarly,
             SendDone, SendFails, SourceEnds,
           SourceLosesSink, SrcPlaces
  <1>5. srcExit = "no" /\ ~SrcGone
    BY <1>1, <1>4 DEF SrcPlaces, SrcGone
  <1>. SUFFICES ASSUME AllWell'
                PROVE  /\ \A n \in Items : n < pos' =>
                             /\ Walk[n].kind = "file" => FileDone(n)
                             /\ Walk[n].kind = "dir" => DirDone(n)
                       /\ srcPc' = "final" /\ toSource' # <<>> => FileDone(pos')
                       /\ srcPc' = "CD" /\ toSource' # <<>> /\ Walk[pos'].kind = "dir" => DirDone(pos')
                       /\ snkPc = "resp" => stored[cur.item].whole
    <2>1. (FileDone(pos)' <=> FileDone(pos')) /\ (DirDone(pos)' <=> DirDone(pos'))
      BY <1>2 DEF FileDone, DirDone
    <2>. QED  BY <1>2, <1>3, <2>1 DEF CopiedInv
  <1>6. AllWell
    BY <1>2, <1>5, SourceMarks DEF AllWell
  <1>7. /\ Replies /\ \A i \in 1..Len(toSource) : toSource[i].ok
        /\ \A n \in Items : n < pos =>
              /\ Walk[n].kind = "file" => FileDone(n)
              /\ Walk[n].kind = "dir" => DirDone(n)
        /\ srcPc = "final" /\ toSource # <<>> => FileDone(pos)
        /\ srcPc = "CD" /\ toSource # <<>> /\ Walk[pos].kind = "dir" => DirDone(pos)
        /\ snkPc = "resp" => stored[cur.item].whole
    BY <1>5, <1>6, WellInStep DEF IInv, CopiedInv
  <1>8. Len(toSource) \in Nat /\ (toSource = <<>> <=> Len(toSource) = 0)
    BY <1>1, EmptyFacts DEF PipeTypes
  \* What is over for the source when its item is.
  <1>9. ASSUME pos' = pos,
               srcPc' \in {"final", "CD"} => toSource' = <<>>
        PROVE  /\ \A n \in Items : n < pos' =>
                     /\ Walk[n].kind = "file" => FileDone(n)
                     /\ Walk[n].kind = "dir" => DirDone(n)
               /\ srcPc' = "final" /\ toSource' # <<>> => FileDone(pos')
               /\ srcPc' = "CD" /\ toSource' # <<>> /\ Walk[pos'].kind = "dir" => DirDone(pos')
               /\ snkPc = "resp" => stored[cur.item].whole
    BY <1>7, <1>9
  <1>10. ~SourceFails /\ ~SourceDropsFile
    <2>1. SourceFails \/ SourceDropsFile => srcErr' = TRUE
      BY DEF SourceFails, SourceDropsFile
    <2>. QED  BY <2>1 DEF AllWell
  <1>11. CASE AnnounceFile \/ AnnounceDir \/ LeaveDir
    <2>1. srcPc = "item" /\ pos' = pos /\ toSource' = toSource
      BY <1>11 DEF AnnounceFile, AnnounceDir, LeaveDir
    <2>2. toSource = <<>>
      BY <1>7, <1>8, <2>1 DEF Replies
    <2>. QED  BY <1>9, <2>1, <2>2
  <1>12. CASE SourceResponse
    <2>1. toSource # <<>> /\ toSource' = Tail(toSource)
      BY <1>12 DEF SourceResponse
    <2>2. Head(toSource).ok
      <3>1. Head(toSource) = toSource[1] /\ 1 \in 1..Len(toSource)
        BY <1>1, <2>1, TailFacts DEF PipeTypes
      <3>. QED  BY <1>7, <3>1
    <2>3. \/ srcPc = "T" /\ srcPc' = "CD" /\ pos' = pos
          \/ srcPc = "CD" /\ srcPc' = "open" /\ pos' = pos
          \/ /\ srcPc \in {"start", "final", "E"} \/ (srcPc = "CD" /\ Walk[pos].kind = "dir")
             /\ pos' = pos + 1 /\ srcPc' = "item"
      BY <1>12, <2>2 DEF SourceResponse, SkipsItem
    <2>4. CASE pos' = pos /\ srcPc' \in {"CD", "open"}
      <3>1. ASSUME srcPc = "T" PROVE toSource' = <<>>
        <4>1. Len(toSource) = 1
          BY <1>7, <1>8, <2>1, <3>1 DEF Replies
        <4>2. toSource' \in Seq(Answer) /\ Len(toSource') = Len(toSource) - 1
          BY <1>1, <2>1, TailFacts DEF PipeTypes
        <4>3. toSource' \in Seq(Answer) /\ Len(toSource') = 0
          BY <4>1, <4>2
        <4>. QED  BY <4>3, EmptyFacts
      <3>. QED  BY <1>9, <2>3, <2>4, <3>1
    <2>5. CASE /\ srcPc \in {"start", "final", "E"} \/ (srcPc = "CD" /\ Walk[pos].kind = "dir")
               /\ pos' = pos + 1 /\ srcPc' = "item"
      <3>1. \A n \in Items : n < pos' => n < pos \/ n = pos
        BY <1>1, <2>5, WalkFacts DEF SrcTypes
      <3>2. pos \in Items => /\ Walk[pos].kind = "file" => FileDone(pos)
                             /\ Walk[pos].kind = "dir" => DirDone(pos)
        <4>1. CASE srcPc = "start"
          <5>1. pos = 0
            BY <4>1 DEF IInv, Contents
          <5>. QED  BY <5>1, WalkFacts
        <4>2. CASE srcPc = "final"
          BY <1>1, <1>7, <2>1, <4>2 DEF SrcPlaces
        <4>3. CASE srcPc = "E"
          BY <1>1, <4>3 DEF SrcPlaces
        <4>4. CASE srcPc = "CD" /\ Walk[pos].kind = "dir"
          BY <1>7, <2>1, <4>4
        <4>. QED  BY <2>5, <4>1, <4>2, <4>3, <4>4
      <3>. QED  BY <1>7, <2>5, <3>1, <3>2
    <2>. QED  BY <2>3, <2>4, <2>5
  <1>13. CASE OpenFile \/ SendUnit \/ FileEndsEarly
    <2>1. pos' = pos /\ srcPc' = "data"
      BY <1>13 DEF OpenFile, SendUnit, FileEndsEarly
    <2>. QED  BY <1>9, <2>1
  <1>14. CASE SendDone
    <2>1. pos' = pos /\ srcPc = "data" /\ toSource' = toSource
      BY <1>14 DEF SendDone
    <2>2. toSource = <<>>
      <3>1. Len(toSource) = 1 => 1 \in 1..Len(toSource)
        OBVIOUS
      <3>. QED  BY <1>7, <1>8, <2>1, <3>1 DEF Replies
    <2>. QED  BY <1>9, <2>1, <2>2
  <1>15. CASE SourceEnds
    <2>1. pos' = pos /\ srcPc' = "done"
      BY <1>15 DEF SourceEnds, SourceExits
    <2>. QED  BY <1>9, <2>1
  <1>16. ~SourceLosesSink /\ ~SendFails /\ ~SourceKilled
    <2>1. SourceLosesSink \/ SendFails \/ SourceKilled => srcExit' = "err"
      BY DEF SourceLosesSink, SendFails, SourceKilled, SourceExits
    <2>. QED  BY <2>1 DEF AllWell
  <1>. QED  BY <1>10, <1>11, <1>12, <1>13, <1>14, <1>15, <1>16 DEF SourceStep

(* A return of sink leaves a directory that is done, with its own times.   *)
LEMMA ReturnCopied ==
    ASSUME SnkTypes, SnkPlaces, OptTypes, Pending, snkPc = "read",
           Depth > 1, stack' = Popped, UNCHANGED pflag,
           stored' = [stored EXCEPT ![stack[Depth].dir].done = TRUE,
                                    ![stack[Depth].dir].times = Times(Depth - 1)]
    PROVE  \A n \in Items : /\ FileDone(n) => FileDone(n)'
                            /\ DirDone(n) => DirDone(n)'
  <1>. DEFINE m == stack[Depth].dir
  <1>. DEFINE t == Times(Depth - 1)
  <1>1. /\ Depth \in Nat /\ Depth = Len(stack)
        /\ Len(stack') = Len(stack) - 1
        /\ \A d \in 1..(Len(stack) - 1) : stack'[d].dir = stack[d].dir
    BY PopFacts, EmptyFacts DEF SnkTypes, Depth
  <1>2. m \in Items /\ (pflag => t = m)
    <2>1. Depth - 1 \in 1..(Depth - 1) /\ Depth - 1 + 1 = Depth
      BY <1>1
    <2>2. stack[Depth - 1].times = IF pflag THEN stack[Depth - 1 + 1].dir ELSE 0
      BY <2>1 DEF Pending
    <2>3. m \in Items
      BY <1>1 DEF SnkPlaces
    <2>. QED  BY <2>1, <2>2, <2>3 DEF Times
  <1>3. /\ stored'[m].done /\ (pflag => stored'[m].times = m)
        /\ stored'[m].whole = stored[m].whole
        /\ \A n \in Items : n # m => stored'[n] = stored[n]
    <2>1. stored \in [Items -> Copy] /\ stored[m] \in Copy
      BY <1>2 DEF SnkTypes
    <2>2. stored' = [stored EXCEPT ![m].done = TRUE, ![m].times = t] /\ (pflag => t = m)
      BY <1>2
    <2>3. m \in Items
      BY <1>2
    <2>. HIDE DEF m, t
    <2>4. \A n \in Items : n # m => stored'[n] = stored[n]
      BY <2>1, <2>2, <2>3
    <2>5. stored'[m].done /\ stored'[m].times = t /\ stored'[m].whole = stored[m].whole
      BY <2>1, <2>2, <2>3 DEF Copy
    <2>. QED  BY <2>2, <2>4, <2>5
  <1>4. ASSUME NEW n \in Items, FileDone(n) PROVE FileDone(n)'
    BY <1>3, <1>4 DEF FileDone
  <1>5. ASSUME NEW n \in Items, DirDone(n) PROVE DirDone(n)'
    <2>1. CASE n = m
      BY <1>3, <2>1 DEF DirDone
    <2>2. CASE n # m
      <3>1. CASE \E d \in 2..Depth : stack[d].dir = n
        <4>1. PICK d \in 2..Depth : stack[d].dir = n
          BY <3>1
        <4>2. d # Depth
          BY <2>2, <4>1
        <4>3. d \in 2..Len(stack') /\ stack'[d].dir = n
          BY <1>1, <4>1, <4>2
        <4>. QED  BY <4>3 DEF DirDone, Depth
      <3>2. CASE stored[n].done /\ (pflag => stored[n].times = n)
        BY <1>3, <2>2, <3>2 DEF DirDone
      <3>. QED  BY <1>5, <3>1, <3>2 DEF DirDone
    <2>. QED  BY <2>1, <2>2
  <1>. QED  BY <1>4, <1>5

LEMMA SinkCopied ==
    ASSUME IInv, SinkStep \/ SinkKilled
    PROVE  CopiedInv'
  <1>1. /\ SrcTypes /\ SrcPlaces /\ PipeTypes /\ SnkTypes /\ SnkPlaces /\ OptTypes /\ Marks
        /\ SnkTypes' /\ SnkPlaces' /\ PipeTypes' /\ UNCHANGED <<optVars, srcVars>>
    BY NextSnkTypes DEF IInv
  <1>2. UNCHANGED <<client, pflag, protocol, pos, srcPc, srcLeft, srcErr, srcExit, content>>
    BY <1>1 DEF optVars, srcVars
  <1>3. snkPc # "done"
    BY <1>1 DEF SinkStep, SinkKilled, SinkHearsError, SinkTakesTimes, SinkRefuses, SinkEntersDir,
           SinkOpensFile, SinkEndsDir, SinkMeetsEnd, SinkScrewsUp, RecvSize, SizeNeverComes,
           RecvUnit, RecvDone,
           SinkFinishesFile, SinkMisreads, SinkLosesSource, Reads, SnkPlaces
  <1>4. snkExit = "no" /\ ~SnkGone
    BY <1>1, <1>3 DEF SnkPlaces, SnkGone
  <1>. SUFFICES ASSUME AllWell'
                PROVE  /\ \A n \in Items : n < pos =>
                             /\ Walk[n].kind = "file" => FileDone(n)'
                             /\ Walk[n].kind = "dir" => DirDone(n)'
                       /\ srcPc = "final" /\ toSource' # <<>> => FileDone(pos)'
                       /\ srcPc = "CD" /\ toSource' # <<>> /\ Walk[pos].kind = "dir" => DirDone(pos)'
                       /\ snkPc' = "resp" => stored'[cur'.item].whole
    BY <1>2 DEF CopiedInv
  <1>5. ~snkErr' /\ ~snkErr /\ snkExit' \in {"no", "ok"}
    BY QuietSink DEF AllWell
  <1>6. AllWell
    BY <1>2, <1>4, <1>5 DEF AllWell
  <1>7. /\ Records /\ Pending /\ ~cur.failed
        /\ ~SrcGone => Replies /\ Turns
        /\ \A n \in Items : n < pos =>
              /\ Walk[n].kind = "file" => FileDone(n)
              /\ Walk[n].kind = "dir" => DirDone(n)
        /\ srcPc = "final" /\ toSource # <<>> => FileDone(pos)
        /\ srcPc = "CD" /\ toSource # <<>> /\ Walk[pos].kind = "dir" => DirDone(pos)
        /\ snkPc = "resp" => stored[cur.item].whole
    BY <1>4, <1>6, WellInStep DEF IInv, CopiedInv
  <1>8. srcPc \in {"final", "CD"} => pos \in Items /\ ~SrcGone
    BY <1>1 DEF SrcPlaces
  <1>9. ASSUME \A n \in Items : (FileDone(n) => FileDone(n)') /\ (DirDone(n) => DirDone(n)'),
               srcPc = "final" /\ toSource' # <<>> => toSource # <<>> \/ FileDone(pos)',
               srcPc = "CD" /\ toSource' # <<>> /\ Walk[pos].kind = "dir" =>
                   toSource # <<>> \/ DirDone(pos)',
               snkPc' = "resp" => stored'[cur'.item].whole
        PROVE  /\ \A n \in Items : n < pos =>
                     /\ Walk[n].kind = "file" => FileDone(n)'
                     /\ Walk[n].kind = "dir" => DirDone(n)'
               /\ srcPc = "final" /\ toSource' # <<>> => FileDone(pos)'
               /\ srcPc = "CD" /\ toSource' # <<>> /\ Walk[pos].kind = "dir" => DirDone(pos)'
               /\ snkPc' = "resp" => stored'[cur'.item].whole
    <2>1. ASSUME NEW n \in Items, n < pos
          PROVE  /\ Walk[n].kind = "file" => FileDone(n)'
                 /\ Walk[n].kind = "dir" => DirDone(n)'
      BY <1>7, <1>9, <2>1
    <2>2. ASSUME srcPc = "final", toSource' # <<>> PROVE FileDone(pos)'
      <3>1. (FileDone(pos) => FileDone(pos)') /\ (toSource # <<>> \/ FileDone(pos)')
        BY <1>2, <1>8, <1>9, <2>2
      <3>. QED  BY <1>7, <2>2, <3>1
    <2>3. ASSUME srcPc = "CD", toSource' # <<>>, Walk[pos].kind = "dir" PROVE DirDone(pos)'
      <3>1. (DirDone(pos) => DirDone(pos)') /\ (toSource # <<>> \/ DirDone(pos)')
        BY <1>2, <1>8, <1>9, <2>3
      <3>. QED  BY <1>7, <2>3, <3>1
    <2>. QED  BY <1>9, <2>1, <2>2, <2>3
  <1>10. ASSUME \A n \in Items : stored'[n] = stored[n],
                Len(stack') >= Len(stack),
                \A d \in 1..Len(stack) : stack'[d].dir = stack[d].dir
         PROVE  \A n \in Items : (FileDone(n) => FileDone(n)') /\ (DirDone(n) => DirDone(n)')
    <2>1. /\ Len(stack) \in Nat /\ Len(stack') \in Nat
      BY <1>1, EmptyFacts DEF SnkTypes
    <2>2. ASSUME NEW n \in Items, DirDone(n) PROVE DirDone(n)'
      <3>1. CASE \E d \in 2..Depth : stack[d].dir = n
        <4>1. PICK d \in 2..Depth : stack[d].dir = n
          BY <3>1
        <4>2. d \in 2..Len(stack') /\ stack'[d].dir = n
          BY <1>10, <2>1, <4>1 DEF Depth
        <4>. QED  BY <4>2 DEF DirDone, Depth
      <3>. QED  BY <1>2, <1>10, <2>2, <3>1 DEF DirDone
    <2>. QED  BY <1>2, <1>10, <2>2 DEF FileDone
  <1>11. ~SinkHearsError /\ ~SinkRefuses /\ ~SinkScrewsUp /\ ~SinkMisreads
    <2>1. SinkHearsError \/ SinkRefuses \/ SinkScrewsUp \/ SinkMisreads => snkErr' = TRUE
      BY DEF SinkHearsError, SinkRefuses, SinkScrewsUp, SinkMisreads
    <2>. QED  BY <1>5, <2>1
  <1>12. ~SinkLosesSource /\ ~SinkKilled
    <2>1. SinkLosesSource \/ SinkKilled => snkExit' = "err"
      BY DEF SinkLosesSource, SinkKilled
    <2>. QED  BY <1>5, <2>1
  <1>13. ASSUME NEW what \in {"T", "CD", "E"}, Reads(what)
         PROVE  /\ snkPc = "read" /\ Next1 \in Rec /\ Next1.item = pos /\ Next1 = toSink[1]
                /\ ~SrcGone => srcPc = what
    <2>1. /\ snkPc = "read" /\ toSink # <<>> /\ Next1 = toSink[1] /\ Next1 \in Rec
          /\ toSink[1].what = what
      BY <1>1, <1>13, ReadFacts DEF Reads
    <2>. QED  BY <1>1, <1>7, <2>1, HeadOfTurn
  <1>14. CASE SinkTakesTimes
    <2>1. /\ Reads("T") /\ snkPc' = snkPc /\ stored' = stored /\ SetTimes(Depth, Next1.item)
      BY <1>14 DEF SinkTakesTimes
    <2>2. snkPc = "read" /\ Next1.item \in 0..Len(Walk) /\ (~SrcGone => srcPc = "T")
      BY <1>13, <2>1, WalkFacts DEF Rec
    <2>3. /\ Len(stack') = Len(stack) /\ Len(stack) \in Nat
          /\ \A d \in 1..Len(stack) : stack'[d].dir = stack[d].dir
      BY <1>1, <2>1, <2>2, SetTimesFacts, EmptyFacts DEF SnkTypes
    <2>4. \A n \in Items : (FileDone(n) => FileDone(n)') /\ (DirDone(n) => DirDone(n)')
      BY <1>10, <2>1, <2>3
    <2>. QED  BY <1>8, <1>9, <2>1, <2>2, <2>4
  <1>15. CASE SinkEntersDir
    <2>. DEFINE f == [dir |-> Next1.item, times |-> 0]
    <2>1. /\ Reads("CD") /\ snkPc' = snkPc /\ stored' = stored /\ stack' = Append(stack, f)
      BY <1>15 DEF SinkEntersDir
    <2>2. /\ snkPc = "read" /\ Next1.item \in 0..Len(Walk) /\ 0 \in 0..Len(Walk)
          /\ Next1.item = pos /\ (~SrcGone => srcPc = "CD")
      BY <1>13, <2>1, WalkFacts DEF Rec
    <2>3. f \in Frame /\ f.dir = pos
      BY <2>2 DEF Frame
    <2>. HIDE DEF f
    <2>4. /\ Len(stack') = Len(stack) + 1 /\ Len(stack) \in Nat /\ Len(stack) >= 1
          /\ \A d \in 1..Len(stack) : stack'[d] = stack[d]
          /\ stack'[Len(stack) + 1] = f
      BY <1>1, <2>1, <2>3, AppendFacts, EmptyFacts DEF SnkTypes
    <2>5. \A n \in Items : (FileDone(n) => FileDone(n)') /\ (DirDone(n) => DirDone(n)')
      BY <1>10, <2>1, <2>4
    <2>6. DirDone(pos)'
      <3>1. Len(stack) + 1 \in 2..Len(stack') /\ stack'[Len(stack) + 1].dir = pos
        BY <2>3, <2>4
      <3>. QED  BY <1>2, <3>1 DEF DirDone, Depth
    <2>. QED  BY <1>8, <1>9, <2>1, <2>2, <2>5, <2>6
  <1>16. CASE SinkOpensFile
    <2>1. /\ Reads("CD") /\ Walk[Next1.item].kind = "file" /\ stored' = stored /\ stack' = stack
          /\ snkPc' \in {"recv", "size"}
      BY <1>16 DEF SinkOpensFile
    <2>2. Walk[pos].kind = "file" /\ (~SrcGone => srcPc = "CD")
      BY <1>13, <2>1
    <2>3. Len(stack) \in Nat
      BY <1>1, EmptyFacts DEF SnkTypes
    <2>4. \A n \in Items : (FileDone(n) => FileDone(n)') /\ (DirDone(n) => DirDone(n)')
      BY <1>10, <2>1, <2>3
    <2>. QED  BY <1>8, <1>9, <2>1, <2>2, <2>4
  <1>17. ASSUME NEW R, SinkReturns(R), snkPc = "read"
         PROVE  /\ \A n \in Items : (FileDone(n) => FileDone(n)') /\ (DirDone(n) => DirDone(n)')
                /\ snkPc' # "resp"
    <2>1. CASE snkPc' = "done" /\ UNCHANGED <<stack, stored>>
      <3>1. Len(stack) \in Nat
        BY <1>1, EmptyFacts DEF SnkTypes
      <3>. QED  BY <1>10, <2>1, <3>1
    <2>2. CASE /\ Depth > 1 /\ stack' = Popped /\ snkPc' = snkPc
               /\ stored' = [stored EXCEPT ![stack[Depth].dir].done = TRUE,
                                           ![stack[Depth].dir].times = Times(Depth - 1)]
      BY <1>1, <1>2, <1>7, <1>17, <2>2, ReturnCopied
    <2>. QED  BY <1>5, <1>17, <2>1, <2>2 DEF SinkReturns
  <1>18. CASE SinkEndsDir
    <2>1. /\ Reads("E") /\ SinkReturns(EndReply(Next1.item))
      BY <1>18 DEF SinkEndsDir
    <2>2. snkPc = "read" /\ (~SrcGone => srcPc = "E")
      BY <1>13, <2>1
    <2>. QED  BY <1>8, <1>9, <1>17, <2>1, <2>2
  <1>19. CASE SinkMeetsEnd
    <2>1. snkPc = "read" /\ SrcGone /\ SinkReturns(<<>>)
      BY <1>19 DEF SinkMeetsEnd
    <2>. QED  BY <1>8, <1>9, <1>17, <2>1
  <1>20. CASE RecvSize \/ SizeNeverComes \/ RecvUnit
    <2>1. stored' = stored /\ stack' = stack /\ toSource' = toSource /\ snkPc' # "resp"
      BY <1>20 DEF RecvSize, SizeNeverComes, RecvUnit
    <2>2. Len(stack) \in Nat
      BY <1>1, EmptyFacts DEF SnkTypes
    <2>3. \A n \in Items : (FileDone(n) => FileDone(n)') /\ (DirDone(n) => DirDone(n)')
      BY <1>10, <2>1, <2>2
    <2>. QED  BY <1>9, <2>1, <2>3
  <1>21. CASE RecvDone
    <2>1. /\ snkPc = "recv" /\ stack' = stack
          /\ stored' = [stored EXCEPT ![cur.item].whole = TRUE, ![cur.item].data = cur.got]
          /\ toSource' = toSource /\ cur' = cur
      BY <1>5, <1>21 DEF RecvDone
    <2>2. cur.item \in Items
      BY <1>1, <2>1 DEF SnkPlaces, Receiving
    <2>. DEFINE m == cur.item
    <2>3. stored'[m].whole
      BY <1>1, <2>1, <2>2 DEF SnkTypes, Copy
    <2>4. \A n \in Items : /\ stored[n].whole => stored'[n].whole
                           /\ stored'[n].done = stored[n].done /\ stored'[n].times = stored[n].times
      BY <1>1, <2>1, <2>2 DEF SnkTypes, Copy
    <2>5. \A n \in Items : (FileDone(n) => FileDone(n)') /\ (DirDone(n) => DirDone(n)')
      BY <1>2, <2>1, <2>4 DEF FileDone, DirDone, Depth
    <2>. QED  BY <1>9, <2>1, <2>3, <2>5
  <1>22. CASE SinkFinishesFile
    <2>1. /\ snkPc = "resp" /\ snkPc' = "read" /\ toSink # <<>> /\ SetTimes(Depth, 0)
          /\ stored' = [stored EXCEPT ![cur.item].done = TRUE, ![cur.item].times = Times(Depth)]
      BY <1>5, <1>7, <1>22 DEF SinkFinishesFile
    <2>2. cur.item \in Items /\ Receiving /\ cur.item = pos
      BY <1>1, <1>7, <2>1 DEF SnkPlaces, Receiving, Records
    <2>3. pflag => Times(Depth) = cur.item
      BY <1>7, <2>2 DEF Pending
    <2>4. /\ Len(stack') = Len(stack)
          /\ \A d \in 1..Len(stack) : stack'[d].dir = stack[d].dir
      <3>1. 0 \in 0..Len(Walk)
        BY WalkFacts
      <3>. QED  BY <1>1, <2>1, <3>1, SetTimesFacts DEF SnkTypes
    <2>. DEFINE m == cur.item
    <2>. DEFINE t == Times(Depth)
    <2>5. /\ stored'[m].done /\ (pflag => stored'[m].times = m)
          /\ stored'[m].whole = stored[m].whole
          /\ \A n \in Items : n # m => stored'[n] = stored[n]
      <3>1. stored \in [Items -> Copy] /\ stored[m] \in Copy
        BY <1>1, <2>2 DEF SnkTypes
      <3>2. stored' = [stored EXCEPT ![m].done = TRUE, ![m].times = t] /\ (pflag => t = m)
        BY <2>1, <2>3
      <3>3. m \in Items
        BY <2>2
      <3>. HIDE DEF m, t
      <3>. QED  BY <3>1, <3>2, <3>3 DEF Copy
    <2>6. FileDone(pos)'
      BY <1>2, <1>7, <2>1, <2>2, <2>5 DEF FileDone
    <2>7. ASSUME NEW n \in Items
          PROVE  (FileDone(n) => FileDone(n)') /\ (DirDone(n) => DirDone(n)')
      <3>1. FileDone(n) => FileDone(n)'
        BY <1>2, <2>5 DEF FileDone
      <3>2. DirDone(n) => DirDone(n)'
        <4>1. (\E d \in 2..Depth : stack[d].dir = n) => \E d \in 2..Depth' : stack'[d].dir = n
          <5>1. Len(stack) \in Nat
            BY <1>1, EmptyFacts DEF SnkTypes
          <5>. QED  BY <2>4, <5>1 DEF Depth
        <4>. QED  BY <1>2, <2>5, <4>1 DEF DirDone
      <3>. QED  BY <3>1, <3>2
    <2>8. ~SrcGone => srcPc = "final"
      <3>. SUFFICES ASSUME ~SrcGone PROVE srcPc = "final"
        OBVIOUS
      <3>. QED  BY <1>1, <1>7, <2>1, <2>2, WhileReceiving
    <2>. QED  BY <1>8, <1>9, <2>1, <2>6, <2>7, <2>8
  <1>. QED  BY <1>11, <1>12, <1>14, <1>15, <1>16, <1>18, <1>19, <1>20, <1>21, <1>22 DEF SinkStep

-----------------------------------------------------------------------------
(***************************************************************************)
(* The theorems.                                                           *)
(***************************************************************************)
(* The inductive invariant holds for every tree, with any number of the    *)
(* failures modelled: of files, of the connection, and of either side.     *)
THEOREM Invariance == Spec => []IInv
  <1>1. ASSUME IInv, SourceStep \/ SourceKilled PROVE IInv'
    <2>1. /\ SrcTypes' /\ SrcPlaces' /\ Contents' /\ PipeTypes' /\ UNCHANGED <<optVars, snkVars>>
      BY <1>1, NextSrcTypes DEF IInv
    <2>2. OptTypes' /\ SnkTypes' /\ SnkPlaces'
      BY <1>1, <2>1 DEF IInv, OptTypes, SnkTypes, SnkPlaces, optVars, snkVars, SnkGone, Receiving,
                        Depth
    <2>. QED  BY <1>1, <2>1, <2>2, SourceMarks, SourceInStep, SourceContents, SourceCopied DEF IInv
  <1>2. ASSUME IInv, SinkStep \/ SinkKilled PROVE IInv'
    <2>1. /\ SnkTypes' /\ SnkPlaces' /\ PipeTypes' /\ UNCHANGED <<optVars, srcVars>>
      BY <1>2, NextSnkTypes DEF IInv
    <2>2. OptTypes' /\ SrcTypes' /\ SrcPlaces' /\ Contents'
      BY <1>2, <2>1 DEF IInv, OptTypes, SrcTypes, SrcPlaces, Contents, optVars, srcVars, SrcGone, Size
    <2>. QED  BY <1>2, <2>1, <2>2, SinkMarks, SinkInStep, SinkContents, SinkCopied DEF IInv
  <1>3. ASSUME IInv, UNCHANGED vars PROVE IInv'
    <2>1. /\ UNCHANGED <<client, pflag, protocol, pos, srcPc, srcLeft, srcErr, srcExit, content>>
          /\ UNCHANGED <<stack, snkPc, cur, snkErr, snkExit, stored>>
          /\ UNCHANGED <<toSink, toSource, data, faults>>
      BY <1>3 DEF vars, optVars, srcVars, snkVars
    <2>2. OptTypes' /\ SrcTypes' /\ SnkTypes' /\ PipeTypes'
      BY <1>3, <2>1 DEF IInv, OptTypes, SrcTypes, SnkTypes, PipeTypes
    <2>3. SrcPlaces' /\ SnkPlaces' /\ Contents' /\ Marks'
      BY <1>3, <2>1 DEF IInv, SrcPlaces, SnkPlaces, Contents, Marks, SrcGone, SnkGone, Depth,
                        Receiving, Size, Steady, None
    <2>4. InStepInv'
      <3>1. /\ (Replies' <=> Replies) /\ (Records' <=> Records) /\ (OwnTimes' <=> OwnTimes)
        BY <2>1 DEF Replies, Records, OwnTimes, Receiving
      <3>2. (Turns' <=> Turns) /\ (Pending' <=> Pending)
        BY <2>1 DEF Turns, Pending, Receiving, Depth, Times
      <3>. QED  BY <1>3, <2>1, <3>1, <3>2 DEF IInv, InStepInv, Steady, None, SrcGone, SnkGone
    <2>5. ContentsInv'
      <3>1. (Stream' <=> Stream) /\ (Sent' <=> Sent) /\ (Wholes' <=> Wholes)
        <4>1. (Unsized' <=> Unsized) /\ (Broken' <=> Broken)
          BY <2>1 DEF Unsized, Broken, None
        <4>2. \A n : (AllOf(n)' <=> AllOf(n)) /\ (EmptyAfter(Fatal, n)' <=> EmptyAfter(Fatal, n))
          BY <2>1 DEF AllOf, EmptyAfter, None
        <4>3. (Stream' <=> Stream) /\ (Sent' <=> Sent)
          BY <2>1, <4>1 DEF Stream, Sent, Unopened, Receiving, Size
        <4>4. Wholes' <=> Wholes
          BY <2>1, <4>2 DEF Wholes, Size
        <4>. QED  BY <4>3, <4>4
      <3>. QED  BY <1>3, <2>1, <3>1 DEF IInv, ContentsInv, Steady, None, SrcGone, SnkGone
    <2>6. CopiedInv'
      BY <1>3, <2>1 DEF IInv, CopiedInv, AllWell, FileDone, DirDone, Depth
    <2>. QED  BY <2>2, <2>3, <2>4, <2>5, <2>6 DEF IInv
  <1>4. IInv /\ [Next]_vars => IInv'
    BY <1>1, <1>2, <1>3, BreakKeeps DEF Next, Finished
  <1>. QED  BY InitInv, <1>4, PTL DEF Spec

(* Every variable has a value of its type.                                 *)
THEOREM TypeCorrect == Spec => []TypeOK
  <1>1. IInv => TypeOK
    BY DEF IInv, OptTypes, SrcTypes, SnkTypes, PipeTypes, TypeOK, Frame, Copy, Rec, Answer, Datum
  <1>. QED  BY Invariance, <1>1, PTL

(* Unless a directory's times cannot be set, or the buffer for a file that *)
(* the sink has accepted, the source and the sink stay in step: response() *)
(* reads the reply to the record it waits for.                             *)
THEOREM StaysInStep == Spec => []InStep
  <1>1. IInv => InStep
    <2>. SUFFICES ASSUME IInv, Steady, ~SrcGone, toSource # <<>>
                  PROVE  LET whats == [i \in 1..Len(toSource) |-> toSource[i].what] IN
                         /\ \A i \in 1..Len(toSource) : toSource[i].item = pos
                         /\ \/ whats = <<srcPc>>
                            \/ srcPc = "CD" /\ whats = <<"CD", "final">>
                            \/ srcPc \in {"open", "data"} /\ whats = <<"final">>
      BY DEF InStep
    <2>. DEFINE whats == [i \in 1..Len(toSource) |-> toSource[i].what]
    <2>1. Replies /\ Len(toSource) # 0
      BY EmptyFacts DEF IInv, InStepInv, PipeTypes
    <2>2. CASE Len(toSource) = 1
      <3>1. whats = <<toSource[1].what>>
        BY <2>2
      <3>. QED  BY <2>1, <2>2, <3>1 DEF Replies
    <2>3. CASE Len(toSource) = 2
      <3>1. whats = <<toSource[1].what, toSource[2].what>>
        BY <2>3
      <3>. QED  BY <2>1, <2>3, <3>1 DEF Replies
    <2>. QED  BY <2>1, <2>2, <2>3 DEF Replies
  <1>. QED  BY Invariance, <1>1, PTL

(* As long as they are in step, a file that the sink takes for whole holds *)
(* its original's contents, and the times that are set are its own; but in *)
(* protocol 0 it is empty when it was gone as it was to be sent, or when   *)
(* its size did not come.                                                  *)
THEOREM ContentsAreRight == Spec => []RightContents
  <1>1. IInv => RightContents
    <2>. SUFFICES ASSUME IInv, Steady, NEW n \in Items
                  PROVE  /\ stored[n].whole => AllOf(n) \/ EmptyAfter(Fatal, n)
                         /\ stored[n].times \in {0, n}
      BY DEF RightContents, Fatal
    <2>1. OwnTimes /\ Wholes
      BY DEF IInv, InStepInv, ContentsInv
    <2>. QED  BY <2>1 DEF OwnTimes, Wholes
  <1>. QED  BY Invariance, <1>1, PTL

(* hscp ends with status 0 only when every item was copied, its contents   *)
(* and under -p its times: every failure but two reaches the exit status   *)
(* of one side.  The two leave an empty file, in protocol 0.               *)
THEOREM StatusZeroIsComplete == Spec => []SuccessIsComplete
  <1>1. IInv => SuccessIsComplete
    <2>. SUFFICES ASSUME IInv, ExitsZero, NEW n \in Items, Walk[n].kind # "end"
                  PROVE  /\ stored[n].done
                         /\ Walk[n].kind = "file" =>
                               /\ stored[n].whole
                               /\ AllOf(n) \/ EmptyAfter({"gone", "break"}, n)
                         /\ pflag => stored[n].times = n
      BY DEF SuccessIsComplete
    <2>1. srcExit = "ok" /\ snkExit = "ok"
      BY DEF ExitsZero, ClientExit, ServerExit
    <2>2. ~srcErr /\ ~snkErr /\ pos > Len(Walk) /\ Depth = 1
      BY <2>1 DEF IInv, Marks
    <2>3. CopiedInv /\ AllWell
      BY <2>1, <2>2 DEF IInv, AllWell
    <2>4. n < pos /\ Walk[n].kind \in {"file", "dir", "end"}
      BY <2>2, WalkFacts DEF IInv, SrcTypes
    <2>5. Walk[n].kind = "file" => FileDone(n)
      BY <2>3, <2>4 DEF CopiedInv
    <2>6. Walk[n].kind = "dir" => DirDone(n)
      BY <2>3, <2>4 DEF CopiedInv
    <2>7. stored[n].whole => AllOf(n) \/ EmptyAfter({"gone", "break"}, n)
      <3>1. Steady /\ None({"kill"})
        BY <2>1, <2>2 DEF IInv, Marks
      <3>2. stored[n].whole => AllOf(n) \/ EmptyAfter(Fatal, n)
        BY <3>1 DEF IInv, ContentsInv, Wholes
      <3>3. EmptyAfter(Fatal, n) => EmptyAfter({"gone", "break"}, n)
        BY <3>1 DEF EmptyAfter, None, Fatal
      <3>. QED  BY <3>2, <3>3
    <2>. QED  BY <2>2, <2>4, <2>5, <2>6, <2>7 DEF FileDone, DirDone
  <1>. QED  BY Invariance, <1>1, PTL

=============================================================================
