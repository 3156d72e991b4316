----------------------------- MODULE HscpLaunch -----------------------------
(***************************************************************************)
(* One command of hscp from its first ssh to its exit status (hscp.cpp):   *)
(*                                                                         *)
(*   client   main, toremote or tolocal: starts an ssh for the server on   *)
(*            each host (do_cmd), reads the UDT port and the version from  *)
(*            it, answers, connects, runs the sessions, waits for the last *)
(*            ssh and exits                                                *)
(*   server   hscp -t or -f behind that ssh: listens, sends the line       *)
(*            "P<port> 1", reads the answer (response_v), accepts within   *)
(*            5 seconds, serves                                            *)
(*   monitor  monitor_s or monitor_r beside a transfer of the client       *)
(*                                                                         *)
(* toremote has one server for all its sources; tolocal has one for each   *)
(* source that is remote, and one cp for each that is not.                 *)
(*                                                                         *)
(* Abstractions.  ssh is the pair of pipes and the exit status of its      *)
(* command.  Inside a session (HscpSession has it in detail) a source is   *)
(* either copied, or refused by an error that both sides count.  An older  *)
(* server (version 0) is external: its line has no number after the port   *)
(* and it reads the answer as response() does.                             *)
(***************************************************************************)
EXTENDS Integers, Sequences

CONSTANTS
    N,          \* sources on the command line
    Versions,   \* protocol versions that the servers know: 0 or 1
    Blocks,     \* units of data in a source
    Boundary,   \* stalled_boundary
    StallLimit, \* stalled_continuously; 0 is neglect (hscp.conf:21)
    MaxKills    \* bound: processes that die of themselves, connections that break

ASSUME LaunchAssumption ==
    /\ N \in Nat \ {0} /\ Versions \subseteq {0, 1} /\ Versions # {}
    /\ Blocks \in Nat /\ Boundary \in Nat /\ StallLimit \in Nat
    /\ MaxKills \in Nat

Sources == 1..N
Hosts == 1..N

VARIABLES
    mode, kind, version,    \* the command line, and the servers' versions
    userOk,     \* whether okname takes the user of the target
    pc,         \* where the client is
    at,         \* the source it has come to: i of toremote and of tolocal
    errs,       \* errs # 0
    code,       \* exit status, Running until it exits
    proto,      \* hscp_protocol
    ssh,        \* do_cmd_pid: the host whose ssh it is, 0 for -1
    fp,         \* the host whose pipe run_err has opened, 0 for NULL
    moved, seen, stalled, watched,  \* a transfer and its monitor
    server,     \* of each host: pc, errs, code, proto
    up, down,   \* the pipes to and from each server
    udt,        \* the connection to each: "no", "half" (the server's side only), "up",
                \* "broken"
    copied, killed, misread, kills

clientVars == <<pc, at, errs, code, proto, ssh, fp>>
monitorVars == <<moved, seen, stalled, watched>>
ghostVars == <<copied, killed, misread, kills>>
optVars == <<mode, kind, version, userOk>>
vars == <<optVars, clientVars, monitorVars, server, up, down, udt, ghostVars>>

Host(i) == IF mode = "toremote" THEN 1 ELSE i
here == Host(at)

Ended(h) == server[h].pc = "exit"
Eof(h)   == Ended(h) /\ down[h] = <<>>

Serves(h, where) == server' = [server EXCEPT ![h].pc = where]
Says(h, word)    == up' = [up EXCEPT ![h] = Append(@, word)]
Hears(h)         == up' = [up EXCEPT ![h] = Tail(@)]
Tells(h, word)   == down' = [down EXCEPT ![h] = Append(@, word)]
Reads(h)         == down' = [down EXCEPT ![h] = Tail(@)]

Running == -1
Exits(status) == pc' = "exit" /\ code' = status

-----------------------------------------------------------------------------
Init ==
    /\ mode \in {"toremote", "tolocal"}
    /\ kind \in [Sources -> {"remote", "local"}]
    /\ mode = "toremote" => \A i \in Sources : kind[i] = "local"
    /\ version \in [Hosts -> Versions]
    /\ userOk \in IF mode = "toremote" THEN BOOLEAN ELSE {TRUE}
    /\ pc = "next" /\ at = 1 /\ errs = FALSE /\ code = Running /\ proto = 1
    /\ ssh = 0 /\ fp = 0
    /\ moved = 0 /\ seen = 0 /\ stalled = 0 /\ watched = FALSE
    /\ server = [h \in Hosts |-> [pc |-> "none", errs |-> FALSE, code |-> 0, proto |-> 1]]
    /\ up = [h \in Hosts |-> <<>>] /\ down = [h \in Hosts |-> <<>>]
    /\ udt = [h \in Hosts |-> "no"]
    /\ copied = {} /\ killed = {} /\ misread = FALSE /\ kills = 0

(***************************************************************************)
(* The client: the loops of toremote and tolocal.                          *)
(***************************************************************************)
(* toremote returns at once when it does not like the user of the target,  *)
(* without a word to errs; tolocal does not look at the users.             *)
UserRefused ==
    /\ pc = "next" /\ mode = "toremote" /\ server[1].pc = "none" /\ ~userOk
    /\ pc' = "end"
    /\ UNCHANGED <<optVars, at, errs, code, proto, ssh, fp, monitorVars, server, up, down, udt,
                   ghostVars>>

(* do_cmd: fork and ssh.  In toremote only once, for remin stays open.     *)
DoCmd ==
    /\ pc = "next" /\ at \in Sources /\ server[here].pc = "none"
    /\ IF mode = "tolocal" THEN kind[at] = "remote" ELSE userOk
    /\ ssh' = here /\ Serves(here, "start")
    /\ pc' = IF mode = "toremote" THEN "greet" ELSE "port"
    /\ UNCHANGED <<optVars, at, errs, code, proto, fp, monitorVars, up, down, udt, ghostVars>>

(* tolocal, local to local: do_local_cmd runs cp, waits, resets do_cmd_pid. *)
LocalCopy ==
    /\ pc = "next" /\ at \in Sources /\ mode = "tolocal" /\ kind[at] = "local"
    /\ \/ copied' = copied \union {at} /\ UNCHANGED errs
       \/ errs' = TRUE /\ UNCHANGED copied
    /\ ssh' = 0 /\ at' = at + 1
    /\ UNCHANGED <<optVars, pc, code, proto, fp, monitorVars, server, up, down, udt,
                   killed, misread, kills>>

(* toremote, the second source and later: the session goes on.             *)
NextSource ==
    /\ pc = "next" /\ at \in Sources /\ mode = "toremote" /\ server[1].pc # "none"
    /\ pc' = "talk"
    /\ UNCHANGED <<optVars, at, errs, code, proto, ssh, fp, monitorVars, server, up, down,
                   udt, ghostVars>>

(* The sink's NUL that toremote awaits before anything else.               *)
Greeted ==
    /\ pc = "greet"
    /\ \/ down[here] # <<>> /\ Reads(here) /\ pc' = "port" /\ UNCHANGED code
       \/ Eof(here) /\ Exits(1) /\ UNCHANGED down
    /\ UNCHANGED <<optVars, at, errs, proto, ssh, fp, monitorVars, server, up, udt, ghostVars>>

(* The line of the server: the port, and a number which the line of an     *)
(* older server lacks.  strtol then looks for it behind the newline, in    *)
(* what the buffer held before; so it does when the line was cut off.      *)
(* (2 stands for every number but 0 and 1.)                                *)
Parsed(line) ==
    CASE line = "P1" -> {1}
      [] line = "P0" -> 0..2
      [] line = "cut" -> 0..2

(* At the end of the file before the line, toremote and tolocal return.    *)
ReadPort ==
    /\ pc = "port"
    /\ \/ /\ Eof(here) /\ pc' = "end"
          /\ UNCHANGED <<code, proto, up, down, misread>>
       \/ /\ down[here] # <<>>
          /\ proto' \in Parsed(Head(down[here]))
          /\ misread' = (misread \/ (Head(down[here]) # "P1" /\ proto' # 0))
          /\ Reads(here)
          /\ \/ /\ \/ proto' = 1 /\ Says(here, "v1")
                   \/ proto' = 0 /\ Says(here, "nul")
                   \/ proto' = 2 /\ UNCHANGED up
                /\ pc' = "connect" /\ UNCHANGED code
             \/ Ended(here) /\ proto' # 2 /\ Exits(1) /\ UNCHANGED up   \* SIGPIPE: lostconn
    /\ UNCHANGED <<optVars, at, errs, ssh, fp, monitorVars, server, udt, copied, killed, kills>>

(* UDT answers from listen() on, before accept(): the backlog is 1.        *)
Listening(h) == server[h].pc \in {"verify", "accept"}

(* tolocal goes into sink(), which writes its first NUL.                   *)
Connects ==
    /\ pc = "connect" /\ Listening(here)
    /\ udt' = [udt EXCEPT ![here] = "up"] /\ pc' = "talk"
    /\ IF mode = "tolocal" THEN Says(here, "nul") ELSE UNCHANGED up
    /\ UNCHANGED <<optVars, at, errs, code, proto, ssh, fp, monitorVars, server, down, ghostVars>>

(* run_err: the error goes to the pipe that the first run_err opened.  Its *)
(* server has ended when it is not the present one: SIGPIPE, lostconn.     *)
RunErrPipe(h) == IF fp = 0 THEN h ELSE fp

RunErr(then) ==
    /\ errs' = TRUE /\ fp' = RunErrPipe(here)
    /\ \/ Says(RunErrPipe(here), "err") /\ pc' = then /\ UNCHANGED code
       \/ Ended(RunErrPipe(here)) /\ Exits(1) /\ UNCHANGED up

(* No address, no port to bind, no answer in 3 seconds; the last answer of *)
(* the server may be what was lost.                                        *)
ConnectFails ==
    /\ pc = "connect"
    /\ \/ Listening(here) /\ udt' = [udt EXCEPT ![here] = "half"]
       \/ UNCHANGED udt
    /\ RunErr("end")
    /\ UNCHANGED <<optVars, at, proto, ssh, monitorVars, server, down, ghostVars>>

-----------------------------------------------------------------------------
(***************************************************************************)
(* A session: both sides are in it, and neither has a word to read.        *)
(***************************************************************************)
InTalk ==
    /\ pc = "talk" /\ server[here].pc = "talk"
    /\ up[here] = <<>> /\ down[here] = <<>> /\ proto # 2

(* A client that takes the number for another protocol sends no answer:    *)
(* what its source says first is taken for it.                             *)
TalksTooEarly ==
    /\ pc = "talk" /\ mode = "toremote" /\ proto = 2
    /\ server[1].pc = "verify" /\ up[1] = <<>>
    /\ Says(1, "record")
    /\ UNCHANGED <<optVars, clientVars, monitorVars, server, down, udt, ghostVars>>

(* What follows a source: the next one of toremote; in tolocal source() of *)
(* the server returns, and the server exits.                               *)
AfterSource(failed) ==
    LET h == here
        bad == server[h].errs \/ failed
    IN  /\ server' = [server EXCEPT ![h] = [@ EXCEPT
                            !.errs = bad,
                            !.pc   = IF mode = "toremote" THEN "talk" ELSE "exit",
                            !.code = IF mode = "toremote" \/ ~bad THEN 0 ELSE 1]]
        /\ at' = IF mode = "toremote" THEN at + 1 ELSE at

(* A source is refused: by the server, or by the client, whose run_err     *)
(* may not reach it.                                                       *)
SourceRefused ==
    /\ InTalk
    /\ AfterSource(TRUE) /\ errs' = TRUE
    /\ \/ pc' = (IF mode = "toremote" THEN "next" ELSE "talk") /\ UNCHANGED <<fp, code>>
       \/ /\ fp' = RunErrPipe(here)
          /\ IF fp' = here
             THEN pc' = (IF mode = "toremote" THEN "next" ELSE "talk") /\ UNCHANGED code
             ELSE Exits(1)
    /\ UNCHANGED <<optVars, proto, ssh, monitorVars, up, down, udt, ghostVars>>

(* The connection has broken while both processes live.  In protocol 0 the *)
(* size of the file that cannot be sent, or does not come, makes sendfile  *)
(* and recvfile return 0, and both sides go on as if all was copied; the   *)
(* source may have got as far as the data, and die of it (SIGTERM).        *)
Broken(h) == udt[h] = "broken"

SourceUncopied ==
    /\ InTalk /\ proto = 0 /\ Broken(here)
    /\ \/ AfterSource(FALSE) /\ pc' = IF mode = "toremote" THEN "next" ELSE "talk"
       \/ /\ mode = "tolocal" /\ UNCHANGED <<pc, at>>
          /\ server' = [server EXCEPT ![here] = [@ EXCEPT !.pc = "exit", !.code = 1]]
    /\ UNCHANGED <<optVars, errs, code, proto, ssh, fp, monitorVars, up, down, udt, ghostVars>>

(* The contents: UDTScp::sendfile and recvfile, and the client's monitor.  *)
DataStarts ==
    /\ InTalk
    /\ pc' = "data" /\ Serves(here, "data")
    /\ moved' = 0 /\ seen' = 0 /\ stalled' = StallLimit /\ watched' = TRUE
    /\ UNCHANGED <<optVars, at, errs, code, proto, ssh, fp, up, down, udt, ghostVars>>

DataMoves ==
    /\ pc = "data" /\ server[here].pc = "data" /\ moved < Blocks /\ ~Broken(here)
    /\ moved' = moved + 1
    /\ UNCHANGED <<optVars, clientVars, seen, stalled, watched, server, up, down, udt, ghostVars>>

DataEnds ==
    /\ pc = "data" /\ server[here].pc = "data" /\ moved = Blocks
    /\ copied' = copied \union {at} /\ AfterSource(FALSE)
    /\ pc' = IF mode = "toremote" THEN "next" ELSE "talk"
    /\ watched' = FALSE
    /\ UNCHANGED <<optVars, errs, code, proto, ssh, fp, moved, seen, stalled, up, down, udt,
                   killed, misread, kills>>

(* UDT::sendfile or recvfile fails: SIGTERM.                               *)
DataFails ==
    /\ pc = "data" /\ Broken(here)
    /\ Exits(1)
    /\ UNCHANGED <<optVars, at, errs, proto, ssh, fp, monitorVars, server, up, down, udt, ghostVars>>

(* A second of the monitor.  SIGTERM is killchild: ssh dies, the client too. *)
NeverCounts(left) == left                       \* mutant: no stalled_sec--
Quiet(left) == left - 1

Second ==
    /\ pc = "data" /\ watched
    /\ \/ moved = Blocks /\ watched' = FALSE /\ UNCHANGED <<pc, code, seen, stalled>>
       \/ moved < Blocks /\ StallLimit = 0 /\ UNCHANGED <<pc, code, seen, stalled, watched>>
       \/ /\ moved < Blocks /\ StallLimit > 0
          /\ seen' = moved
          /\ stalled' = IF seen + Boundary >= moved THEN Quiet(stalled) ELSE StallLimit
          /\ IF stalled' = 0 THEN Exits(1) ELSE UNCHANGED <<pc, code>>
          /\ UNCHANGED watched
       \/ /\ Ended(here) \/ Broken(here)                \* perfmon fails
          /\ watched' = FALSE /\ UNCHANGED <<pc, code, seen, stalled>>
    /\ UNCHANGED <<optVars, at, errs, proto, ssh, fp, moved, server, up, down, udt, ghostVars>>

(* monitor_s looks at what sendfile has sent, monitor_r at what recvfile   *)
(* has received.                                                           *)
MonitorSends == mode = "toremote" /\ Second
MonitorReceives == mode = "tolocal" /\ Second

(* The server has gone.  During the contents recvfile or sendfile fails    *)
(* and raises SIGTERM; source() awaits a reply: lostconn.  Only sink(),    *)
(* at the start of a record, takes it for the end: tolocal goes on.        *)
ServerGone ==
    /\ pc \in {"talk", "data"} /\ Eof(here)
    /\ \/ pc = "data" /\ Exits(1) /\ UNCHANGED at
       \/ pc = "talk" /\ (mode = "toremote" \/ here \in killed) /\ Exits(1) /\ UNCHANGED at
       \/ pc = "talk" /\ mode = "tolocal" /\ pc' = "next" /\ at' = at + 1 /\ UNCHANGED code
    /\ UNCHANGED <<optVars, errs, proto, ssh, fp, monitorVars, server, up, down, udt, ghostVars>>

(***************************************************************************)
(* The end of main.                                                        *)
(***************************************************************************)
LastSource ==
    /\ pc = "next" /\ at = N + 1
    /\ pc' = "end"
    /\ UNCHANGED <<optVars, at, errs, code, proto, ssh, fp, monitorVars, server, up, down, udt,
                   ghostVars>>

(* Without an error the pipes are closed and the last ssh is waited for.   *)
MainEnds ==
    /\ pc = "end"
    /\ IF ssh # 0 /\ ~errs THEN pc' = "wait" /\ UNCHANGED code
                           ELSE Exits(IF errs THEN 1 ELSE 0)
    /\ UNCHANGED <<optVars, at, errs, proto, ssh, fp, monitorVars, server, up, down, udt, ghostVars>>

IgnoresStatus(h) == 0                           \* mutant: WEXITSTATUS is not read
Status(h) == IF server[h].code = 0 THEN 0 ELSE 1

SshReaped ==
    /\ pc = "wait" /\ Ended(ssh)
    /\ Exits(Status(ssh))
    /\ UNCHANGED <<optVars, at, errs, proto, ssh, fp, monitorVars, server, up, down, udt, ghostVars>>

(* A signal, the disk full under recvfile: killchild.                      *)
ClientDies ==
    /\ code = Running /\ kills < MaxKills
    /\ kills' = kills + 1 /\ Exits(1)
    /\ UNCHANGED <<optVars, at, errs, proto, ssh, fp, monitorVars, server, up, down, udt,
                   copied, killed, misread>>

-----------------------------------------------------------------------------
(***************************************************************************)
(* The server on host h.                                                   *)
(***************************************************************************)
ServerExits(h, status) ==
    server' = [server EXCEPT ![h] = [@ EXCEPT !.pc = "exit", !.code = status]]

(* No login, ServerAccept 0 in its hscp.conf, or its first NUL (-t).       *)
ServerStarts(h) ==
    /\ server[h].pc = "start"
    /\ \/ ServerExits(h, 1) /\ UNCHANGED down
       \/ /\ Serves(h, "listen")
          /\ IF mode = "toremote" THEN Tells(h, "nul") ELSE UNCHANGED down
    /\ UNCHANGED <<optVars, clientVars, monitorVars, up, udt, ghostVars>>

(* UDTScp::listen: a port of its range, or none is free.                   *)
ServerListens(h) ==
    /\ server[h].pc = "listen"
    /\ \/ ServerExits(h, 1) /\ UNCHANGED down
       \/ Serves(h, "verify") /\ Tells(h, IF version[h] = 1 THEN "P1" ELSE "P0")
    /\ UNCHANGED <<optVars, clientVars, monitorVars, up, udt, ghostVars>>

(* response_v: NUL is protocol 0, else the number that is read.            *)
KeepsTheDefault(word) == 1                      \* mutant: NUL leaves hscp_protocol
Answer(word) == IF word = "v1" THEN 1 ELSE 0

ServerVerifies(h) ==
    /\ server[h].pc = "verify" /\ up[h] # <<>>
    /\ IF version[h] = 0 /\ Head(up[h]) = "v1"
       THEN ServerExits(h, 1)
       ELSE server' = [server EXCEPT ![h] = [@ EXCEPT
                            !.pc = "accept", !.proto = Answer(Head(up[h]))]]
    /\ Hears(h)
    /\ UNCHANGED <<optVars, clientVars, monitorVars, down, udt, ghostVars>>

ServerAccepts(h) ==
    /\ server[h].pc = "accept" /\ udt[h] # "no"
    /\ Serves(h, IF mode = "toremote" THEN "talk" ELSE "hello")
    /\ UNCHANGED <<optVars, clientVars, monitorVars, up, down, udt, ghostVars>>

(* accept() polls for 5 seconds from the answer on; the client sent it     *)
(* before it began to connect, for 3 seconds at most.                      *)
AcceptExpires(h) == ~(code = Running /\ here = h /\ pc = "connect")

AcceptTimesOut(h) ==
    /\ server[h].pc = "accept" /\ udt[h] = "no" /\ AcceptExpires(h)
    /\ ServerExits(h, 1)
    /\ UNCHANGED <<optVars, clientVars, monitorVars, up, down, udt, ghostVars>>

(* -f: the reply of the client's sink, whose value main does not look at.  *)
ServerHello(h) ==
    /\ server[h].pc = "hello" /\ up[h] # <<>>
    /\ server' = [server EXCEPT ![h] = [@ EXCEPT
                        !.pc = "talk", !.errs = @ \/ Head(up[h]) = "err"]]
    /\ Hears(h)
    /\ UNCHANGED <<optVars, clientVars, monitorVars, down, udt, ghostVars>>

(* -t: an error record, of a client that could not connect.                *)
ServerHearsError(h) ==
    /\ server[h].pc = "talk" /\ up[h] # <<>>
    /\ server' = [server EXCEPT ![h].errs = TRUE]
    /\ Hears(h)
    /\ UNCHANGED <<optVars, clientVars, monitorVars, down, udt, ghostVars>>

(* The client has gone, or has closed the pipe.  sink() returns at the end *)
(* of the records, which is how toremote ends a server; the rest fails.    *)
ServerAlone(h) ==
    /\ code # Running \/ (mode = "toremote" /\ pc = "wait")
    /\ up[h] = <<>> /\ server[h].pc \in {"verify", "hello", "talk", "data"}
    /\ ServerExits(h, IF mode = "toremote" /\ server[h].pc = "talk" /\ ~server[h].errs
                      THEN 0 ELSE 1)
    /\ UNCHANGED <<optVars, clientVars, monitorVars, up, down, udt, ghostVars>>

ServerDataFails(h) ==
    /\ server[h].pc = "data" /\ Broken(h)
    /\ ServerExits(h, 1)
    /\ UNCHANGED <<optVars, clientVars, monitorVars, up, down, udt, ghostVars>>

(* Nothing is heard of the other side for some time, though it is there.   *)
ConnectionBreaks(h) ==
    /\ udt[h] = "up" /\ kills < MaxKills
    /\ udt' = [udt EXCEPT ![h] = "broken"] /\ kills' = kills + 1
    /\ UNCHANGED <<optVars, clientVars, monitorVars, server, up, down, copied, killed, misread>>

(* It dies, or ssh does, maybe in the middle of the line.                  *)
ServerDies(h) ==
    /\ server[h].pc \notin {"none", "exit"} /\ kills < MaxKills
    /\ kills' = kills + 1 /\ killed' = killed \union {h}
    /\ ServerExits(h, 1)
    /\ \/ UNCHANGED down
       \/ /\ server[h].pc = "verify" /\ down[h] # <<>>
          /\ down' = [down EXCEPT ![h] = SubSeq(@, 1, Len(@) - 1) \o <<"cut">>]
    /\ UNCHANGED <<optVars, clientVars, monitorVars, up, udt, copied, misread>>

-----------------------------------------------------------------------------
ClientStep ==
    \/ UserRefused \/ DoCmd \/ LocalCopy \/ NextSource \/ Greeted \/ ReadPort
    \/ Connects \/ ConnectFails \/ TalksTooEarly
    \/ SourceRefused \/ SourceUncopied \/ DataStarts \/ DataEnds \/ DataFails \/ ServerGone
    \/ LastSource \/ MainEnds \/ SshReaped

ServerStep(h) ==
    \/ ServerStarts(h) \/ ServerListens(h) \/ ServerVerifies(h) \/ ServerAccepts(h)
    \/ AcceptTimesOut(h) \/ ServerHello(h) \/ ServerHearsError(h) \/ ServerAlone(h)
    \/ ServerDataFails(h)

Next ==
    \/ UserRefused \/ DoCmd \/ LocalCopy \/ NextSource \/ Greeted \/ ReadPort
    \/ Connects \/ ConnectFails \/ TalksTooEarly
    \/ SourceRefused \/ SourceUncopied \/ DataStarts \/ DataMoves \/ DataEnds \/ DataFails
    \/ ServerGone
    \/ LastSource \/ MainEnds \/ SshReaped \/ MonitorSends \/ MonitorReceives \/ ClientDies
    \/ \E h \in Hosts :
          \/ ServerStarts(h) \/ ServerListens(h) \/ ServerVerifies(h) \/ ServerAccepts(h)
          \/ AcceptTimesOut(h) \/ ServerHello(h) \/ ServerHearsError(h) \/ ServerAlone(h)
          \/ ServerDataFails(h) \/ ServerDies(h) \/ ConnectionBreaks(h)

(* Every process runs, and the monitor's seconds pass; that data moves is  *)
(* not assumed.                                                            *)
Fairness ==
    /\ WF_vars(ClientStep) /\ WF_vars(MonitorSends) /\ WF_vars(MonitorReceives)
    /\ \A h \in Hosts : WF_vars(ServerStep(h))

Spec == Init /\ [][Next]_vars /\ Fairness

-----------------------------------------------------------------------------
Words == {"nul", "P0", "P1", "cut", "v1", "err", "record"}

(* The ranges of the variables.                                            *)
TypeOK ==
    /\ pc \in {"next", "greet", "port", "connect", "talk", "data", "end", "wait", "exit"}
    /\ at \in 1..(N + 1) /\ errs \in BOOLEAN /\ code \in {Running, 0, 1} /\ proto \in 0..2
    /\ ssh \in 0..N /\ fp \in 0..N
    /\ moved \in 0..Blocks /\ seen \in 0..moved /\ stalled \in 0..StallLimit
    /\ server \in [Hosts -> [pc : {"none", "start", "listen", "verify", "accept", "hello",
                                   "talk", "data", "exit"},
                             errs : BOOLEAN, code : {0, 1}, proto : 0..1]]
    /\ \A h \in Hosts : \A n \in 1..Len(up[h]) : up[h][n] \in Words
    /\ \A h \in Hosts : \A n \in 1..Len(down[h]) : down[h][n] \in Words
    /\ udt \in [Hosts -> {"no", "half", "up", "broken"}]
    /\ userOk \in BOOLEAN /\ copied \subseteq Sources /\ killed \subseteq Hosts

(* The two sides of a connection speak the same protocol: whether the size *)
(* of a file goes ahead of its data (unless the client read its number     *)
(* from behind the line of an older server).                               *)
ProtocolAgreed ==
    \A h \in Hosts :
        (pc \in {"talk", "data"} /\ h = here /\ server[h].pc \in {"hello", "talk", "data"})
            => misread \/ proto = server[h].proto

(* A connection of protocol 0 has broken: no side is told.                 *)
Dropped(i) == server[Host(i)].proto = 0 /\ Broken(Host(i))

(* hscp exits with 0 only when every source was copied.  It does not tell  *)
(*   - a user's name that toremote refuses (hscp.cpp:811-814);             *)
(*   - a connection of protocol 0 that breaks (udtscp.cpp:937-942 and      *)
(*     1045-1050);                                                         *)
(*   - a server of tolocal that died between two records when another      *)
(*     source came after: only the last ssh is waited for.                 *)
ExitTellsFailure ==
    code = 0 => \A i \in Sources :
        \/ i \in copied \/ misread
        \/ mode = "toremote" /\ ~userOk
        \/ Dropped(i)
        \/ mode = "tolocal" /\ i \in killed /\ i < N

(* The command ends, and every server it started: whichever of them dies,  *)
(* and whether the data move or not, unless the monitor is told to neglect *)
(* that.                                                                   *)
EveryoneEnds ==
    StallLimit > 0 =>
        <>(misread \/ (code # Running /\ \A h \in Hosts : server[h].pc \in {"none", "exit"}))

=============================================================================
