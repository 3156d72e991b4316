-------------------------- MODULE HscpLaunchProofs --------------------------
(***************************************************************************)
(* Proofs about a command of hscp, for any number of sources and of        *)
(* processes that die: client and server agree on the protocol, and a      *)
(* status of 0 means that no source failed.                                *)
(***************************************************************************)
EXTENDS HscpLaunch, SequenceTheorems, TLAPS

ClientPcs == {"next", "greet", "port", "connect", "talk", "data", "end", "wait", "exit"}
ServerPcs == {"none", "start", "listen", "verify", "accept", "hello", "talk", "data", "exit"}
Server == [pc : ServerPcs, errs : BOOLEAN, code : {0, 1}, proto : 0..1]
Lines == {"P0", "P1", "cut"}

(* The types, of each process its own.                                     *)
OptTypes ==
    /\ mode \in {"toremote", "tolocal"}
    /\ version \in [Hosts -> Versions] /\ userOk \in BOOLEAN
ClientTypes ==
    /\ pc \in ClientPcs /\ at \in 1..(N + 1) /\ errs \in BOOLEAN /\ code \in {Running, 0, 1}
    /\ proto \in 0..2 /\ ssh \in 0..N /\ fp \in 0..N
MonitorTypes ==
    /\ moved \in 0..Blocks /\ seen \in 0..moved /\ stalled \in 0..StallLimit
    /\ pc = "data" /\ StallLimit > 0 => stalled > 0
ServerTypes == server \in [Hosts -> Server]
UpType == up \in [Hosts -> Seq(Words)]
DownType == down \in [Hosts -> Seq(Words)]
PipeTypes ==
    /\ UpType /\ DownType
    /\ udt \in [Hosts -> {"no", "half", "up", "broken"}]
GhostTypes == copied \subseteq Sources /\ killed \subseteq Hosts /\ misread \in BOOLEAN

(* The client has read the port of its server, and answered.               *)
HasAnswered == pc \in {"connect", "talk", "data"}
               \/ (pc = "next" /\ mode = "toremote" /\ server[1].pc # "none")

(* Where the client is.                                                    *)
ClientPlaces ==
    /\ pc \in {"greet", "port", "connect", "talk", "data"} => at \in Sources
    /\ pc \in {"greet", "port"} \/ HasAnswered => ssh = here
    /\ pc = "greet" => mode = "toremote"
    /\ pc = "exit" <=> code # Running
    /\ pc = "wait" => ~errs /\ ssh # 0

(* tolocal has one server after the other, toremote a single one.          *)
OneByOne ==
    \A h \in Hosts :
        /\ mode = "toremote" /\ h # 1 => server[h].pc = "none"
        /\ mode = "tolocal" /\ h < at => server[h].pc \in {"none", "exit"}
        /\ mode = "tolocal" /\ (h > at \/ (h = at /\ pc = "next")) => server[h].pc = "none"

(* What a server has said: in toremote a NUL, which the client awaits      *)
(* first, and the line, which an older one writes without a number.        *)
SaidBy(h) ==
    /\ server[h].pc \in {"none", "start"} => Len(down[h]) = 0
    /\ server[h].pc = "listen" => Len(down[h]) <= 1 /\ (Len(down[h]) = 1 => down[h][1] = "nul")
    /\ \A i \in 1..Len(down[h]) :
          /\ down[h][i] \in Lines \cup {"nul"}
          /\ down[h][i] = "nul" => i = 1 /\ mode = "toremote"
          /\ down[h][i] = "P1" => version[h] = 1
Said == \A h \in Hosts : SaidBy(h)

Greeting ==
    /\ \A h \in Hosts : Len(down[h]) > 0 /\ down[h][1] = "nul" => pc \in {"greet", "exit"}
    /\ mode = "toremote" /\ pc \notin {"greet", "exit"} => server[1].pc # "start"

(* Until the client has read the line it has said nothing, and a server    *)
(* that ends by then has failed.                                           *)
Untold ==
    /\ \A h \in Hosts : server[h].pc \in {"none", "start", "listen"} => up[h] = <<>>
    /\ fp # 0 => server[fp].pc \notin {"none", "start", "listen"}
Unheard ==
    pc \in {"greet", "port"} =>
        /\ up[here] = <<>>
        /\ server[here].pc \in {"start", "listen", "verify", "exit"}
        /\ Ended(here) => server[here].code = 1
        /\ mode = "tolocal" /\ Ended(here) /\ Len(down[here]) > 0 => here \in killed

(* The client has read the line; then its answer is in the pipe, or the    *)
(* server has taken it.                                                    *)
Answers ==
    HasAnswered =>
        /\ server[here].pc \notin {"none", "start", "listen"}
        /\ pc # "connect" => udt[here] # "no"
        /\ ~misread =>
              /\ proto # 2 /\ (proto = 1 => version[here] = 1)
              /\ server[here].pc = "verify" =>
                    up[here] # <<>> /\ up[here][1] = IF proto = 1 THEN "v1" ELSE "nul"
              /\ server[here].pc \in {"accept", "hello", "talk", "data"} =>
                    server[here].proto = proto

(* What can be said of a source that was not copied.                       *)
Excused(i) ==
    i \in copied \/ errs \/ misread \/ Dropped(i) \/ (mode = "tolocal" /\ i \in killed)

(* The sources that the client has passed, or is about to pass because the *)
(* server has ended.                                                       *)
Passed ==
    /\ \A i \in Sources : i < at => Excused(i)
    /\ mode = "tolocal" /\ HasAnswered /\ pc # "data" /\ Ended(here) => Excused(at)

(* A server that died has not ended well, and is the last that was started *)
(* when its source is the last one.                                        *)
Deaths ==
    /\ \A h \in killed : server[h].pc = "exit" /\ server[h].code = 1
    /\ mode = "tolocal" /\ pc = "next" /\ at - 1 \in killed => ssh = at - 1
    /\ pc \in {"end", "wait"} /\ ~errs =>
          \/ mode = "toremote" /\ ~userOk
          \/ at = N + 1 /\ (mode = "tolocal" /\ N \in killed => ssh = N)
          \/ ssh # 0 /\ Ended(ssh) /\ server[ssh].code = 1

IInv ==
    /\ OptTypes /\ ClientTypes /\ MonitorTypes /\ ServerTypes /\ PipeTypes /\ GhostTypes
    /\ ClientPlaces /\ OneByOne /\ Said /\ Greeting /\ Untold /\ Unheard /\ Answers
    /\ Passed /\ Deaths
    /\ ExitTellsFailure

(* What Passed needs to be told of a step: no broken connection is mended,  *)
(* and no protocol changes on it.                                          *)
Kept == \A i \in Sources : Dropped(i) => Dropped(i)'

(* A server that has not heard an answer keeps the protocol it was started  *)
(* with; nothing is connected before; data moves on both sides.            *)
Fresh ==
    \A h \in Hosts : server[h].pc \in {"none", "start", "listen", "verify"} => server[h].proto = 1
Unconnected ==
    /\ \A h \in Hosts : server[h].pc = "none" => udt[h] = "no"
    /\ pc \in {"greet", "port", "connect"} => udt[here] = "no"
DataTogether ==
    \A h \in Hosts : server[h].pc = "data" => pc = "exit" \/ (pc = "data" /\ h = here)

Bonds == Fresh /\ Unconnected /\ DataTogether

-----------------------------------------------------------------------------
(* What the constants are.                                                *)
LEMMA Sizes ==
  N \in Nat \ {0} /\ Blocks \in Nat /\ StallLimit \in Nat /\ Boundary \in Nat
BY LaunchAssumption DEF LaunchAssumption

(* The host the client speaks with is one.                                 *)
LEMMA HereIsHost ==
  ASSUME OptTypes, ClientTypes, ClientPlaces
  PROVE  HasAnswered \/ pc \in {"greet", "port"} => here \in Hosts
BY Sizes DEF OptTypes, ClientTypes, ClientPlaces, HasAnswered, here, Host, Hosts, Sources

(* Lengths are numbers.                                                    *)
LEMMA Lengths == ASSUME DownType PROVE \A h \in Hosts : Len(down[h]) \in Nat
BY DEF DownType

(***************************************************************************)
(* What the helpers do.  One server is changed, and no other.              *)
(***************************************************************************)
HasServed(h, where) ==
    /\ ServerTypes'
    /\ server'[h].pc = where /\ server'[h].code = server[h].code
    /\ server'[h].errs = server[h].errs /\ server'[h].proto = server[h].proto
    /\ \A g \in Hosts : g # h => server'[g] = server[g]

(* A server has gone on, and kept the rest.                                *)
LEMMA ServesIt ==
  ASSUME ServerTypes, NEW h \in Hosts, NEW where \in ServerPcs, Serves(h, where)
  PROVE  HasServed(h, where)
BY DEF ServerTypes, Server, Serves, HasServed

HasExited(h, status) ==
    /\ ServerTypes'
    /\ server'[h].pc = "exit" /\ server'[h].code = status
    /\ server'[h].errs = server[h].errs /\ server'[h].proto = server[h].proto
    /\ \A g \in Hosts : g # h => server'[g] = server[g]

(* A server has ended with a status.                                       *)
LEMMA ExitsIt ==
  ASSUME ServerTypes, NEW h \in Hosts, NEW status \in {0, 1}, ServerExits(h, status)
  PROVE  HasExited(h, status)
BY DEF ServerTypes, Server, ServerPcs, ServerExits, HasExited

LEMMA ServedTypes ==
  ASSUME NEW h, NEW status, HasExited(h, status)  PROVE ServerTypes'
BY DEF HasExited

(* A word is put into a pipe, or taken from it.                            *)
HasSaid(h, word) ==
    /\ UpType'
    /\ up'[h] # <<>>
    /\ up[h] = <<>> => up'[h][1] = word
    /\ up[h] # <<>> => up'[h][1] = up[h][1]
    /\ \A g \in Hosts : g # h => up'[g] = up[g]

LEMMA SaysIt ==
  ASSUME PipeTypes, NEW h \in Hosts, NEW word \in Words, Says(h, word)
  PROVE  HasSaid(h, word)
<1>1. up[h] \in Seq(Words) /\ up' = [up EXCEPT ![h] = Append(up[h], word)]
  BY DEF PipeTypes, UpType, DownType, Says
<1>2. up'[h] = Append(up[h], word) /\ Append(up[h], word) \in Seq(Words)
  BY <1>1 DEF PipeTypes, UpType, DownType
<1>3. up'[h] # <<>>
  BY <1>1, <1>2
<1>4. up[h] = <<>> => up'[h][1] = word
  BY <1>1, <1>2
<1>5. up[h] # <<>> => up'[h][1] = up[h][1]
  BY <1>1, <1>2
<1>6. UpType' /\ \A g \in Hosts : g # h => up'[g] = up[g]
  BY <1>1, <1>2 DEF PipeTypes, UpType, DownType
<1> QED BY <1>3, <1>4, <1>5, <1>6 DEF HasSaid

HasHeard(h) ==
    UpType' /\ \A g \in Hosts : g # h => up'[g] = up[g]

LEMMA HearsIt ==
  ASSUME PipeTypes, NEW h \in Hosts, up[h] # <<>>, Hears(h)
  PROVE  HasHeard(h)
<1>1. up[h] \in Seq(Words) /\ Tail(up[h]) \in Seq(Words)
  BY DEF PipeTypes, UpType, DownType
<1> QED BY <1>1 DEF PipeTypes, UpType, DownType, Hears, HasHeard

HasTold(h, word) ==
    /\ DownType'
    /\ Len(down'[h]) = Len(down[h]) + 1 /\ down'[h][Len(down'[h])] = word
    /\ \A i \in 1..Len(down[h]) : down'[h][i] = down[h][i]
    /\ \A g \in Hosts : g # h => down'[g] = down[g]

LEMMA TellsIt ==
  ASSUME PipeTypes, NEW h \in Hosts, NEW word \in Words, Tells(h, word)
  PROVE  HasTold(h, word)
<1>1. down[h] \in Seq(Words) /\ down' = [down EXCEPT ![h] = Append(down[h], word)]
  BY DEF PipeTypes, UpType, DownType, Tells
<1>2. down'[h] = Append(down[h], word) /\ Append(down[h], word) \in Seq(Words)
  BY <1>1 DEF PipeTypes, UpType, DownType
<1> QED BY <1>1, <1>2 DEF PipeTypes, UpType, DownType, HasTold

HasRead(h) ==
    /\ DownType'
    /\ Head(down[h]) = down[h][1] /\ Len(down[h]) >= 1
    /\ Len(down'[h]) = Len(down[h]) - 1
    /\ \A i \in 1..Len(down'[h]) : i + 1 \in 1..Len(down[h]) /\ down'[h][i] = down[h][i + 1]
    /\ \A g \in Hosts : g # h => down'[g] = down[g]

LEMMA ReadsIt ==
  ASSUME PipeTypes, NEW h \in Hosts, down[h] # <<>>, Reads(h)
  PROVE  HasRead(h)
<1>1. down[h] \in Seq(Words) /\ down' = [down EXCEPT ![h] = Tail(down[h])]
  BY DEF PipeTypes, UpType, DownType, Reads
<1>2. down'[h] = Tail(down[h]) /\ Tail(down[h]) \in Seq(Words) /\ Len(down[h]) >= 1
  BY <1>1 DEF PipeTypes, UpType, DownType
<1> QED BY <1>1, <1>2 DEF PipeTypes, UpType, DownType, HasRead

(* The client takes the first word that a server has said.                 *)
LEMMA SaidAfterRead ==
  ASSUME Said, PipeTypes, NEW h \in Hosts, HasRead(h), UNCHANGED <<mode, version, server>>
  PROVE  Said' /\ \A i \in 1..Len(down'[h]) : down'[h][i] # "nul"
<1>1. Len(down[h]) \in Nat /\ Len(down'[h]) \in Nat /\ SaidBy(h)
  BY Lengths DEF PipeTypes, HasRead, Said, DownType
<1>2. \A i \in 1..Len(down'[h]) : down'[h][i] # "nul"
  BY <1>1 DEF HasRead, SaidBy
<1>3. SaidBy(h)'
  <2>1. Len(down[h]) >= 1 /\ Len(down'[h]) = Len(down[h]) - 1
    BY <1>1 DEF HasRead
  <2>2. ASSUME NEW i \in 1..Len(down'[h])
        PROVE  down'[h][i] \in Lines \cup {"nul"} /\ (down'[h][i] = "P1" => version[h] = 1)
    BY <1>1, <2>2 DEF HasRead, SaidBy
  <2>3. server[h].pc \in {"none", "start"} => Len(down'[h]) = 0
    BY <1>1, <2>1 DEF SaidBy
  <2>4. server[h].pc = "listen" => Len(down'[h]) = 0
    <3> DEFINE a == Len(down[h])
               b == Len(down'[h])
    <3>1. a \in Nat /\ a >= 1 /\ b = a - 1 /\ (server[h].pc = "listen" => a <= 1)
      BY <1>1, <2>1 DEF SaidBy
    <3> HIDE DEF a, b
    <3>2. server[h].pc = "listen" => b = 0
      BY <3>1
    <3> QED BY <3>2 DEF b
  <2> QED BY <1>2, <2>2, <2>3, <2>4 DEF SaidBy
<1>4. \A g \in Hosts : g # h => SaidBy(g)'
  BY DEF HasRead, Said, SaidBy
<1> QED BY <1>2, <1>3, <1>4 DEF Said

(* A server says a word more.                                              *)
LEMMA SaidAfterTold ==
  ASSUME PipeTypes, NEW h \in Hosts, NEW word \in Lines \cup {"nul"}, SaidBy(h), HasTold(h, word),
         UNCHANGED <<mode, version>>,
         server'[h].pc \notin {"none", "start"},
         word # "nul" => server'[h].pc # "listen",
         word = "nul" => Len(down[h]) = 0 /\ mode = "toremote",
         word = "P1" => version[h] = 1
  PROVE  SaidBy(h)'
<1>1. Len(down[h]) \in Nat /\ Len(down'[h]) = Len(down[h]) + 1
  BY Lengths DEF PipeTypes, HasTold
<1>2. ASSUME NEW i \in 1..Len(down'[h])
      PROVE  /\ down'[h][i] \in Lines \cup {"nul"}
             /\ down'[h][i] = "nul" => i = 1 /\ mode = "toremote"
             /\ down'[h][i] = "P1" => version[h] = 1
  <2>1. CASE i = Len(down'[h])
    BY <1>1, <2>1 DEF HasTold
  <2>2. CASE i \in 1..Len(down[h])
    BY <1>1, <2>2 DEF HasTold, SaidBy
  <2> QED BY <1>1, <2>1, <2>2
<1>3. server'[h].pc = "listen" => Len(down'[h]) = 1 /\ down'[h][1] = "nul"
  BY <1>1 DEF HasTold
<1> QED BY <1>1, <1>2, <1>3 DEF SaidBy

(* A server that has not ended was not the one the client waits for.       *)
LEMMA DeathsKept ==
  ASSUME Deaths, GhostTypes, ClientTypes, NEW h \in Hosts, server[h].pc # "exit",
         \A g \in Hosts : g # h => server'[g] = server[g],
         UNCHANGED <<mode, userOk, pc, at, errs, ssh, killed>>
  PROVE  Deaths'
BY Sizes DEF Deaths, GhostTypes, ClientTypes, Ended, Hosts

-----------------------------------------------------------------------------
(***************************************************************************)
(* The client: every step of toremote, of tolocal and of their monitor     *)
(* keeps the invariant.                                                    *)
(***************************************************************************)
LEMMA DoCmdInv == ASSUME IInv, Kept, DoCmd PROVE IInv'
<1> USE Sizes DEF Sources, Hosts, Host, here, Ended, Running, optVars, clientVars,
      monitorVars, ghostVars
<1>0. /\ OptTypes /\ ClientTypes /\ MonitorTypes /\ ServerTypes /\ PipeTypes /\ GhostTypes
      /\ ClientPlaces /\ OneByOne /\ Said /\ Greeting /\ Untold /\ Unheard /\ Answers
      /\ Passed /\ Deaths /\ ExitTellsFailure
  BY DEF IInv
<1>i. HasAnswered \/ pc \in {"greet", "port"} => here \in Hosts
  BY <1>0, HereIsHost
<1>h. here \in Hosts
  BY <1>0 DEF ClientPlaces, OptTypes, DoCmd, InTalk
<1>e. HasServed(here, "start")
  BY <1>0, <1>h, ServesIt DEF DoCmd, ServerPcs
<1>1. OptTypes' /\ ClientTypes' /\ MonitorTypes' /\ PipeTypes' /\ GhostTypes'
  BY <1>0 DEF OptTypes, DoCmd, ClientTypes, ClientPcs, MonitorTypes, PipeTypes, UpType,
       DownType, GhostTypes
<1>2. ServerTypes'
  BY <1>0, <1>h, <1>e DEF ServerTypes, DoCmd, HasServed
<1>3. ClientPlaces' /\ Greeting' /\ Answers' /\ Passed' /\ ExitTellsFailure'
  BY <1>0 DEF ClientPlaces, HasAnswered, DoCmd, Greeting, Answers, Passed, Excused,
       ExitTellsFailure, Kept
<1>4. OneByOne'
  BY <1>0, <1>h, <1>e DEF OneByOne, DoCmd, HasServed
<1>5. Said'
  <2> SUFFICES ASSUME NEW g \in Hosts PROVE SaidBy(g)'
    BY DEF Said
  <2>1. SaidBy(g)
    BY <1>0 DEF Said
  <2> QED BY <1>e, <2>1 DEF SaidBy, DoCmd, HasServed, Lines
<1>6. Untold' /\ Unheard' /\ Deaths'
  BY <1>0, <1>i, <1>h, <1>e DEF Untold, ClientTypes, DoCmd, HasServed, Unheard,
       ClientPlaces, GhostTypes, HasAnswered, Deaths, OptTypes, OneByOne
<1> QED BY <1>1, <1>2, <1>3, <1>4, <1>5, <1>6 DEF IInv

LEMMA LocalCopyInv == ASSUME IInv, Kept, LocalCopy PROVE IInv'
<1> USE Sizes DEF Sources, Hosts, Host, here, Ended, Running, optVars, clientVars,
      monitorVars, ghostVars
<1>0. /\ OptTypes /\ ClientTypes /\ MonitorTypes /\ ServerTypes /\ PipeTypes /\ GhostTypes
      /\ ClientPlaces /\ OneByOne /\ Said /\ Greeting /\ Untold /\ Unheard /\ Answers
      /\ Passed /\ Deaths /\ ExitTellsFailure
  BY DEF IInv
<1>i. HasAnswered \/ pc \in {"greet", "port"} => here \in Hosts
  BY <1>0, HereIsHost
<1>1. OptTypes' /\ MonitorTypes' /\ ServerTypes' /\ PipeTypes' /\ GhostTypes'
  BY <1>0 DEF OptTypes, LocalCopy, MonitorTypes, ServerTypes, PipeTypes, UpType, DownType,
       GhostTypes
<1>2. ClientTypes'
  <2>1. at + 1 \in 1..(N + 1) /\ at' = at + 1
    BY <1>0 DEF ClientTypes, LocalCopy
  <2>2. errs' \in BOOLEAN
    BY <1>0 DEF ClientTypes, LocalCopy
  <2> QED BY <1>0, <2>1, <2>2 DEF ClientTypes, ClientPcs, LocalCopy
<1>3. ClientPlaces' /\ OneByOne' /\ Said' /\ Greeting' /\ Untold' /\ Unheard'
  BY <1>0 DEF ClientPlaces, HasAnswered, LocalCopy, OneByOne, Said, SaidBy, Greeting,
       Untold, Unheard
<1>4. Answers' /\ Passed' /\ ExitTellsFailure'
  BY <1>0 DEF Answers, HasAnswered, LocalCopy, Passed, Excused, ExitTellsFailure, Kept
<1>5. Deaths'
  BY <1>0, <1>i DEF Deaths, ClientTypes, OptTypes, ClientPlaces, GhostTypes, OneByOne,
       Unheard, HasAnswered, LocalCopy
<1> QED BY <1>1, <1>2, <1>3, <1>4, <1>5 DEF IInv

LEMMA NextSourceInv == ASSUME IInv, Kept, NextSource PROVE IInv'
<1> USE Sizes DEF Sources, Hosts, Host, here, Ended, Running, optVars, clientVars,
      monitorVars, ghostVars
<1>0. /\ OptTypes /\ ClientTypes /\ MonitorTypes /\ ServerTypes /\ PipeTypes /\ GhostTypes
      /\ ClientPlaces /\ OneByOne /\ Said /\ Greeting /\ Untold /\ Unheard /\ Answers
      /\ Passed /\ Deaths /\ ExitTellsFailure
  BY DEF IInv
<1>1. OptTypes' /\ ClientTypes' /\ MonitorTypes' /\ ServerTypes' /\ PipeTypes' /\ GhostTypes'
  BY <1>0 DEF OptTypes, NextSource, ClientTypes, ClientPcs, MonitorTypes, ServerTypes,
       PipeTypes, UpType, DownType, GhostTypes
<1>2. ClientPlaces' /\ OneByOne' /\ Said' /\ Greeting' /\ Untold' /\ Unheard'
  BY <1>0 DEF ClientPlaces, HasAnswered, NextSource, OneByOne, Said, SaidBy, Greeting,
       Untold, Unheard
<1>3. Answers' /\ Passed' /\ Deaths' /\ ExitTellsFailure'
  BY <1>0 DEF Answers, HasAnswered, NextSource, Passed, Excused, Deaths, ExitTellsFailure, Kept
<1> QED BY <1>1, <1>2, <1>3 DEF IInv

LEMMA GreetedInv == ASSUME IInv, Kept, Greeted PROVE IInv'
<1> USE Sizes DEF Sources, Hosts, Host, here, Ended, Eof, Exits, Running, optVars,
      clientVars, monitorVars, ghostVars
<1>0. /\ OptTypes /\ ClientTypes /\ MonitorTypes /\ ServerTypes /\ PipeTypes /\ GhostTypes
      /\ ClientPlaces /\ OneByOne /\ Said /\ Greeting /\ Untold /\ Unheard /\ Answers
      /\ Passed /\ Deaths /\ ExitTellsFailure
  BY DEF IInv
<1>h. here \in Hosts
  BY <1>0 DEF ClientPlaces, OptTypes, Greeted, InTalk
<1>e. \/ HasRead(here) /\ pc' = "port" /\ code' = code
      \/ Eof(here) /\ Exits(1) /\ down' = down
  BY <1>0, <1>h, ReadsIt DEF Greeted
<1>s. /\ Said'
      /\ pc' = "port" => \A i \in 1..Len(down'[here]) : down'[here][i] # "nul"
      /\ pc' = "port" => server[1].pc # "start"
  <2>1. CASE down' = down /\ pc' = "exit"
    BY <1>0, <2>1 DEF Said, SaidBy, Greeted
  <2>2. CASE HasRead(here)
    <3>1. server[here].pc # "start"
      BY <1>0, <1>h, <2>2 DEF Said, SaidBy, HasRead
    <3> QED BY <1>0, <1>h, <2>2, <3>1, SaidAfterRead DEF Greeted, ClientPlaces
  <2> QED BY <1>e, <2>1, <2>2
<1>1. OptTypes' /\ ClientTypes' /\ MonitorTypes' /\ ServerTypes' /\ GhostTypes'
  BY <1>0 DEF OptTypes, Greeted, ClientTypes, ClientPcs, MonitorTypes, ServerTypes, GhostTypes
<1>2. PipeTypes'
  BY <1>0, <1>h, <1>e DEF PipeTypes, UpType, DownType, Greeted, HasRead
<1>3. ClientPlaces' /\ OneByOne' /\ Untold' /\ Unheard' /\ Answers' /\ Passed'
  BY <1>0 DEF ClientPlaces, HasAnswered, Greeted, OneByOne, Untold, Unheard, Answers,
       Passed, Excused, Kept
<1>4. Said'
  BY <1>s
<1>5. Greeting'
  <2>1. CASE pc' = "exit"
    BY <2>1 DEF Greeting
  <2>2. CASE HasRead(here) /\ pc' = "port"
    <3>1. ASSUME NEW g \in Hosts, g # here  PROVE Len(down'[g]) = 0
      <4>1. server[g].pc = "none"
        BY <1>0, <3>1 DEF OneByOne, ClientPlaces, Greeted
      <4>2. SaidBy(g) /\ down'[g] = down[g]
        BY <1>0, <2>2, <3>1 DEF Said, HasRead
      <4> QED BY <4>1, <4>2 DEF SaidBy
    <3>2. Len(down'[here]) > 0 => down'[here][1] # "nul"
      <4>1. Len(down'[here]) \in Nat
        BY <1>h, <2>2 DEF HasRead, DownType
      <4> QED BY <1>s, <2>2, <4>1
    <3>3. UNCHANGED <<mode, server>>
      BY DEF Greeted
    <3> QED BY <1>s, <2>2, <3>1, <3>2, <3>3 DEF Greeting
  <2> QED BY <1>e, <2>1, <2>2
<1>6. Deaths' /\ ExitTellsFailure'
  BY <1>0 DEF Deaths, Greeted, ExitTellsFailure, Kept
<1> QED BY <1>1, <1>2, <1>3, <1>4, <1>5, <1>6 DEF IInv

LEMMA ReadPortInv == ASSUME IInv, Kept, ReadPort PROVE IInv'
<1> USE Sizes DEF Sources, Hosts, Host, here, Ended, Eof, Exits, Running, optVars,
      clientVars, monitorVars, ghostVars
<1>0. /\ OptTypes /\ ClientTypes /\ MonitorTypes /\ ServerTypes /\ PipeTypes /\ GhostTypes
      /\ ClientPlaces /\ OneByOne /\ Said /\ Greeting /\ Untold /\ Unheard /\ Answers
      /\ Passed /\ Deaths /\ ExitTellsFailure
  BY DEF IInv
<1>i. HasAnswered \/ pc \in {"greet", "port"} => here \in Hosts
  BY <1>0, HereIsHost
<1>h. here \in Hosts
  BY <1>0 DEF ClientPlaces, OptTypes, ReadPort, InTalk
<1>l. down[here] # <<>> => down[here][1] \in Lines
  <2>1. down[here] \in Seq(Words)
    BY <1>0, <1>h DEF PipeTypes, DownType
  <2>2. Len(down[here]) > 0 /\ down[here][1] # "nul" => down[here][1] \in Lines
    BY <1>0, <1>h, <2>1 DEF Said, SaidBy
  <2> QED BY <1>0, <1>h, <2>1, <2>2 DEF Greeting, ReadPort
<1> DEFINE AtEof == Eof(here) /\ pc' = "end" /\ UNCHANGED <<code, proto, up, down, misread>>
           Reading == /\ HasRead(here) /\ down[here] # <<>> /\ proto' \in 0..2
                      /\ down[here][1] = "P1" => proto' = 1
                      /\ misread => misread'
                      /\ ~misread' => down[here][1] = "P1" \/ proto' = 0
           Answering == /\ pc' = "connect" /\ code' = code
                        /\ \/ proto' = 1 /\ HasSaid(here, "v1")
                           \/ proto' = 0 /\ HasSaid(here, "nul")
                           \/ proto' = 2 /\ up' = up
           CutOff == Ended(here) /\ Exits(1) /\ up' = up
<1>e. AtEof \/ (Reading /\ (Answering \/ CutOff))
  <2>1. down[here] \in Seq(Words)
    BY <1>0, <1>h DEF PipeTypes, DownType
  <2>2. CASE AtEof
    BY <2>2
  <2>3. CASE down[here] # <<>> /\ Reads(here) /\ proto' \in Parsed(Head(down[here]))
    <3>1. HasRead(here) /\ Head(down[here]) = down[here][1]
      BY <1>0, <1>h, <2>3, ReadsIt DEF HasRead
    <3>2. proto' \in 0..2 /\ (down[here][1] = "P1" => proto' = 1)
      BY <1>l, <2>3, <3>1 DEF Parsed, Lines
    <3>3. Says(here, "v1") => HasSaid(here, "v1")
      BY <1>0, <1>h, SaysIt DEF Words
    <3>4. Says(here, "nul") => HasSaid(here, "nul")
      BY <1>0, <1>h, SaysIt DEF Words
    <3> HIDE DEF Says, Reads, Ended, Exits, Host, here
    <3> QED BY <2>3, <3>1, <3>2, <3>3, <3>4 DEF ReadPort
  <2> QED BY <2>2, <2>3 DEF ReadPort
<1>v. HasRead(here) => /\ server[here].pc \in {"verify", "exit"}
                       /\ down[here][1] = "P1" => version[here] = 1
                       /\ mode = "tolocal" /\ Ended(here) => here \in killed
  <2>1. HasRead(here) => Len(down[here]) > 0 /\ Len(down[here]) \in Nat
    BY <1>0, <1>h, Lengths DEF HasRead, PipeTypes
  <2>2. SaidBy(here) /\ pc = "port"
    BY <1>0, <1>h DEF Said, ReadPort
  <2>3. HasRead(here) => 1 \in 1..Len(down[here]) /\ down[here][1] # "nul"
    BY <1>0, <1>h, <2>1, <2>2 DEF Greeting
  <2>4. HasRead(here) => server[here].pc \notin {"none", "start"}
    BY <2>1, <2>2 DEF SaidBy
  <2>5. HasRead(here) => server[here].pc # "listen"
    <3> DEFINE a == Len(down[here])
    <3>1. server[here].pc = "listen" => a <= 1 /\ (a = 1 => down[here][1] = "nul")
      BY <2>2 DEF SaidBy
    <3>2. HasRead(here) => a \in Nat /\ a > 0 /\ down[here][1] # "nul"
      BY <2>1, <2>3
    <3> HIDE DEF a, here
    <3> QED BY <3>1, <3>2
  <2>6. server[here].pc \in {"start", "listen", "verify", "exit"}
    BY <1>0, <2>2 DEF Unheard
  <2>7. HasRead(here) /\ down[here][1] = "P1" => version[here] = 1
    BY <2>2, <2>3 DEF SaidBy
  <2>8. HasRead(here) /\ mode = "tolocal" /\ Ended(here) => here \in killed
    BY <1>0, <2>1, <2>2 DEF Unheard
  <2> HIDE DEF here
  <2> QED BY <2>4, <2>5, <2>6, <2>7, <2>8
<1>s. Said' /\ (HasRead(here) => \A i \in 1..Len(down'[here]) : down'[here][i] # "nul")
  <2>1. CASE down' = down /\ ~HasRead(here)
    BY <1>0, <2>1 DEF Said, SaidBy, ReadPort
  <2>2. CASE HasRead(here)
    BY <1>0, <1>h, <2>2, SaidAfterRead DEF ReadPort
  <2> QED BY <1>e, <2>1, <2>2
<1>n. \A g \in Hosts : Len(down[g]) \in Nat
  BY <1>0, Lengths DEF PipeTypes
<1>1. OptTypes' /\ MonitorTypes' /\ ServerTypes' /\ GhostTypes'
  BY <1>0 DEF OptTypes, ReadPort, Parsed, MonitorTypes, ServerTypes, GhostTypes
<1>2. ClientTypes' /\ PipeTypes'
  BY <1>0, <1>e DEF ClientTypes, ClientPcs, ReadPort, HasSaid, HasRead, PipeTypes, UpType,
       DownType
<1>3. ClientPlaces'
  <2>1. CASE AtEof
    BY <1>0, <2>1 DEF ClientPlaces, ClientTypes, OptTypes, HasAnswered, ReadPort
  <2>2. CASE Reading /\ Answering
    BY <1>0 DEF ClientPlaces, ReadPort
  <2>3. CASE Reading /\ CutOff
    BY <1>0, <1>i DEF ClientPlaces, ClientTypes, OptTypes, HasAnswered, ReadPort, HasRead
  <2> QED BY <1>e, <2>1, <2>2, <2>3
<1>4. OneByOne' /\ Unheard'
  BY <1>0 DEF OneByOne, ReadPort, Parsed, Unheard
<1>5. Said'
  BY <1>s
<1>6. Greeting'
  <2>1. CASE AtEof
    BY <1>0, <2>1 DEF Greeting, ReadPort
  <2>2. CASE Reading /\ Answering
    <3>1. UNCHANGED <<mode, server>> /\ pc = "port"
      BY DEF ReadPort
    <3>2. ASSUME NEW g \in Hosts, g # here, Len(down'[g]) > 0  PROVE down'[g][1] # "nul"
      BY <1>0, <2>2, <3>1, <3>2 DEF Greeting, HasRead
    <3>3. Len(down'[here]) > 0 => down'[here][1] # "nul"
      <4>1. Len(down'[here]) \in Nat
        BY <1>h, <2>2 DEF HasRead, DownType
      <4> QED BY <1>s, <2>2, <4>1
    <3> QED BY <1>0, <3>1, <3>2, <3>3 DEF Greeting
  <2>3. CASE Reading /\ CutOff
    BY <1>0, <1>i, <1>h, <1>n, <2>3 DEF Greeting
  <2> QED BY <1>e, <2>1, <2>2, <2>3
<1>7. Untold'
  <2>1. CASE AtEof
    BY <1>0, <1>i, <1>s, <1>n, <2>1 DEF Untold, ClientTypes, ReadPort
  <2>2. CASE Reading /\ Answering
    <3>1. \A g \in Hosts : g # here => up'[g] = up[g]
      BY <2>2 DEF HasSaid
    <3>2. server[here].pc \in {"verify", "exit"}
      BY <1>v, <2>2
    <3>3. UNCHANGED <<server, fp>>
      BY DEF ReadPort
    <3> QED BY <1>0, <3>1, <3>2, <3>3 DEF Untold
  <2>3. CASE Reading /\ CutOff
    BY <1>0, <2>3 DEF Untold, ReadPort
  <2> QED BY <1>e, <2>1, <2>2, <2>3
<1>8. Answers'
  <2>1. CASE AtEof
    BY <1>0, <2>1 DEF Answers, HasAnswered
  <2>2. CASE Reading /\ Answering
    <3>1. /\ server[here].pc \in {"verify", "exit"} /\ up[here] = <<>>
          /\ UNCHANGED <<mode, at, version, server>> /\ pc' = "connect"
      <4>1. server[here].pc \in {"verify", "exit"} /\ pc' = "connect"
        BY <1>v, <2>2
      <4>2. UNCHANGED <<mode, at, version, server>> /\ pc = "port"
        BY DEF ReadPort
      <4> QED BY <1>0, <4>1, <4>2 DEF Unheard
    <3>2. ~misread' => /\ proto' # 2 /\ (proto' = 1 => version[here] = 1)
                       /\ up'[here] # <<>> /\ up'[here][1] = IF proto' = 1 THEN "v1" ELSE "nul"
      <4>1. ~misread' => proto' # 2 /\ (proto' = 1 => version[here] = 1)
        BY <1>v, <2>2
      <4> QED BY <2>2, <3>1, <4>1 DEF HasSaid
    <3> QED BY <3>1, <3>2 DEF Answers, HasAnswered
  <2>3. CASE Reading /\ CutOff
    BY <1>0, <1>i, <1>s, <1>n, <2>3 DEF Answers, HasAnswered, Unheard
  <2> QED BY <1>e, <2>1, <2>2, <2>3
<1>9. Passed'
  <2>1. CASE AtEof
    BY <1>0, <2>1 DEF Passed, Excused, HasAnswered, ReadPort, Kept
  <2>2. CASE Reading /\ Answering
    <3>1. /\ UNCHANGED <<mode, at, server, copied, errs, killed>>
          /\ mode = "tolocal" /\ Ended(here) => here \in killed
      <4>1. mode = "tolocal" /\ Ended(here) => here \in killed
        BY <1>v, <2>2
      <4>2. UNCHANGED <<mode, at, server, copied, errs, killed>>
        BY DEF ReadPort
      <4> QED BY <4>1, <4>2
    <3>2. \A i \in Sources : Excused(i) => Excused(i)'
      BY <2>2, <3>1 DEF Excused, Kept
    <3> HIDE DEF Reading, Answering
    <3> QED BY <1>0, <3>1, <3>2 DEF Passed, Excused, Kept
  <2>3. CASE Reading /\ CutOff
    BY <1>0, <1>v, <2>3 DEF Passed, Excused, ReadPort, Kept
  <2> QED BY <1>e, <2>1, <2>2, <2>3
<1>10. Deaths'
  <2>1. CASE AtEof
    BY <1>0 DEF Deaths, ClientPlaces, Unheard, ReadPort
  <2>2. CASE Reading /\ Answering
    BY <1>0, <2>2 DEF Deaths, ReadPort
  <2>3. CASE Reading /\ CutOff
    BY <1>0, <2>3 DEF Deaths, ReadPort
  <2> QED BY <1>e, <2>1, <2>2, <2>3
<1>11. ExitTellsFailure'
  BY <1>0, <1>h, <1>e DEF ExitTellsFailure, ReadPort, Parsed, Kept
<1> QED BY <1>1, <1>2, <1>3, <1>4, <1>5, <1>6, <1>7, <1>8, <1>9, <1>10, <1>11 DEF IInv

LEMMA ConnectsInv == ASSUME IInv, Kept, Connects PROVE IInv'
<1> USE Sizes DEF Sources, Hosts, Host, here, Ended, Running, optVars, clientVars,
      monitorVars, ghostVars
<1>0. /\ OptTypes /\ ClientTypes /\ MonitorTypes /\ ServerTypes /\ PipeTypes /\ GhostTypes
      /\ ClientPlaces /\ OneByOne /\ Said /\ Greeting /\ Untold /\ Unheard /\ Answers
      /\ Passed /\ Deaths /\ ExitTellsFailure
  BY DEF IInv
<1>i. HasAnswered \/ pc \in {"greet", "port"} => here \in Hosts
  BY <1>0, HereIsHost
<1>h. here \in Hosts
  BY <1>0 DEF ClientPlaces, OptTypes, Connects, InTalk
<1>e. \/ mode = "tolocal" /\ HasSaid(here, "nul")
      \/ mode = "toremote" /\ up' = up
  BY <1>0, <1>h, SaysIt DEF Connects, OptTypes, Words
<1>1. OptTypes' /\ ClientTypes' /\ MonitorTypes' /\ ServerTypes' /\ GhostTypes'
  BY <1>0 DEF OptTypes, Connects, Listening, ClientTypes, ClientPcs, MonitorTypes,
       ServerTypes, GhostTypes
<1>2. PipeTypes'
  BY <1>0, <1>h, <1>e DEF PipeTypes, UpType, DownType, Connects, Listening, HasSaid
<1>3. ClientPlaces' /\ OneByOne' /\ Greeting' /\ Unheard' /\ Passed' /\ Deaths'
  BY <1>0 DEF ClientPlaces, HasAnswered, Connects, Listening, OneByOne, Greeting, Unheard,
       Passed, Excused, Deaths, Kept
<1>4. Said'
  <2> SUFFICES ASSUME NEW g \in Hosts PROVE SaidBy(g)'
    BY DEF Said
  <2>1. SaidBy(g)
    BY <1>0 DEF Said
  <2> QED BY <1>i, <2>1 DEF SaidBy, Connects, Listening
<1>5. Untold'
  BY <1>0, <1>h, <1>e DEF Untold, Connects, Listening, HasSaid
<1>6. Answers'
  <2>1. udt'[here] = "up"
    BY <1>0, <1>h DEF PipeTypes, Connects
  <2>2. up[here] # <<>> => up'[here] # <<>> /\ up'[here][1] = up[here][1]
    BY <1>e DEF HasSaid
  <2> QED BY <1>0, <2>1, <2>2 DEF Answers, HasAnswered, Connects, Listening
<1>7. ExitTellsFailure'
  BY <1>0 DEF ExitTellsFailure, Connects, Listening, Kept
<1> QED BY <1>1, <1>2, <1>3, <1>4, <1>5, <1>6, <1>7 DEF IInv

LEMMA ConnectFailsInv == ASSUME IInv, Kept, ConnectFails PROVE IInv'
<1> USE Sizes DEF Sources, Hosts, Host, here, Ended, Exits, Running, optVars,
      clientVars, monitorVars, ghostVars
<1>0. /\ OptTypes /\ ClientTypes /\ MonitorTypes /\ ServerTypes /\ PipeTypes /\ GhostTypes
      /\ ClientPlaces /\ OneByOne /\ Said /\ Greeting /\ Untold /\ Unheard /\ Answers
      /\ Passed /\ Deaths /\ ExitTellsFailure
  BY DEF IInv
<1>h. here \in Hosts
  BY <1>0 DEF ClientPlaces, OptTypes, ConnectFails, InTalk
<1>r. RunErrPipe(here) \in Hosts
  BY <1>0, <1>h DEF ClientTypes, RunErrPipe
<1>e. \/ HasSaid(RunErrPipe(here), "err") /\ pc' = "end" /\ code' = code
      \/ Exits(1) /\ up' = up
  BY <1>0, <1>r, SaysIt DEF ConnectFails, RunErr, Words
<1>1. OptTypes' /\ MonitorTypes' /\ ServerTypes' /\ GhostTypes'
  BY <1>0 DEF OptTypes, ConnectFails, Listening, RunErr, RunErrPipe, MonitorTypes,
       ServerTypes, GhostTypes
<1>2. ClientTypes'
  BY <1>0, <1>h, <1>r, <1>e DEF ClientTypes, ClientPcs, ConnectFails, Listening, RunErr,
       RunErrPipe, HasSaid
<1>3. PipeTypes'
  BY <1>0, <1>h, <1>r, <1>e DEF PipeTypes, UpType, DownType, ConnectFails, Listening,
       RunErr, RunErrPipe, HasSaid
<1>4. ClientPlaces' /\ OneByOne' /\ Greeting' /\ Unheard' /\ Answers' /\ Passed'
  BY <1>0 DEF ClientPlaces, HasAnswered, ConnectFails, Listening, RunErr, RunErrPipe,
       OneByOne, Greeting, Unheard, Answers, Passed, Excused, Kept
<1>5. Said'
  <2> SUFFICES ASSUME NEW g \in Hosts PROVE SaidBy(g)'
    BY DEF Said
  <2>1. SaidBy(g)
    BY <1>0 DEF Said
  <2> QED BY <1>e, <2>1 DEF SaidBy, ConnectFails, Listening, RunErr
<1>6. Untold'
  <2>1. ASSUME NEW g \in Hosts, server[g].pc \in {"none", "start", "listen"}  PROVE up'[g] = <<>>
    <3>1. g # RunErrPipe(here)
      BY <1>0, <2>1 DEF Untold, Answers, HasAnswered, ConnectFails, RunErrPipe
    <3> QED BY <1>0, <1>r, <1>e, <2>1, <3>1 DEF Untold, HasSaid
  <2>2. fp' = RunErrPipe(here) /\ server' = server
    BY DEF ConnectFails, RunErr
  <2>3. server[RunErrPipe(here)].pc \notin {"none", "start", "listen"}
    BY <1>0 DEF Untold, Answers, HasAnswered, ConnectFails, RunErrPipe
  <2> QED BY <2>1, <2>2, <2>3 DEF Untold
<1>7. Deaths' /\ ExitTellsFailure'
  BY <1>0 DEF Deaths, ConnectFails, Listening, RunErr, RunErrPipe, ExitTellsFailure, Kept
<1> QED BY <1>1, <1>2, <1>3, <1>4, <1>5, <1>6, <1>7 DEF IInv

LEMMA TalksTooEarlyInv == ASSUME IInv, Kept, TalksTooEarly PROVE IInv'
<1> USE Sizes DEF Sources, Hosts, Host, here, Ended, Running, optVars, clientVars,
      monitorVars, ghostVars
<1>0. /\ OptTypes /\ ClientTypes /\ MonitorTypes /\ ServerTypes /\ PipeTypes /\ GhostTypes
      /\ ClientPlaces /\ OneByOne /\ Said /\ Greeting /\ Untold /\ Unheard /\ Answers
      /\ Passed /\ Deaths /\ ExitTellsFailure
  BY DEF IInv
<1>i. HasAnswered \/ pc \in {"greet", "port"} => here \in Hosts
  BY <1>0, HereIsHost
<1>e. HasSaid(1, "record")
  BY <1>0, SaysIt DEF TalksTooEarly, Words
<1>1. OptTypes' /\ ClientTypes' /\ MonitorTypes' /\ ServerTypes' /\ GhostTypes'
  BY <1>0 DEF OptTypes, TalksTooEarly, ClientTypes, ClientPcs, MonitorTypes, ServerTypes,
       GhostTypes
<1>2. PipeTypes'
  BY <1>0, <1>e DEF PipeTypes, UpType, DownType, TalksTooEarly, HasSaid
<1>3. ClientPlaces' /\ OneByOne' /\ Greeting' /\ Unheard' /\ Answers' /\ Passed'
  BY <1>0 DEF ClientPlaces, HasAnswered, TalksTooEarly, OneByOne, Greeting, Unheard,
       Answers, Passed, Excused, Kept
<1>4. Said'
  <2> SUFFICES ASSUME NEW g \in Hosts PROVE SaidBy(g)'
    BY DEF Said
  <2>1. SaidBy(g)
    BY <1>0 DEF Said
  <2> QED BY <1>i, <1>e, <2>1 DEF SaidBy, TalksTooEarly, HasSaid, Lines
<1>5. Untold'
  BY <1>0, <1>e DEF Untold, TalksTooEarly, HasSaid
<1>6. Deaths' /\ ExitTellsFailure'
  BY <1>0 DEF Deaths, TalksTooEarly, ExitTellsFailure, Kept
<1> QED BY <1>1, <1>2, <1>3, <1>4, <1>5, <1>6 DEF IInv

LEMMA SourceRefusedInv == ASSUME IInv, Kept, SourceRefused PROVE IInv'
<1> USE Sizes DEF Sources, Hosts, Host, here, Ended, Exits, Running, optVars,
      clientVars, monitorVars, ghostVars
<1>0. /\ OptTypes /\ ClientTypes /\ MonitorTypes /\ ServerTypes /\ PipeTypes /\ GhostTypes
      /\ ClientPlaces /\ OneByOne /\ Said /\ Greeting /\ Untold /\ Unheard /\ Answers
      /\ Passed /\ Deaths /\ ExitTellsFailure
  BY DEF IInv
<1>i. HasAnswered \/ pc \in {"greet", "port"} => here \in Hosts
  BY <1>0, HereIsHost
<1>1. OptTypes' /\ MonitorTypes' /\ PipeTypes' /\ GhostTypes'
  BY <1>0 DEF OptTypes, SourceRefused, InTalk, AfterSource, RunErrPipe, MonitorTypes,
       PipeTypes, UpType, DownType, GhostTypes
<1>2. ClientTypes'
  BY <1>0, <1>i DEF ClientTypes, ClientPcs, SourceRefused, InTalk, AfterSource, RunErrPipe,
       OptTypes, ClientPlaces
<1>3. ServerTypes'
  <2>1. server[here] \in Server /\ here \in Hosts
    BY <1>0 DEF ServerTypes, ClientPlaces, OptTypes, SourceRefused, InTalk
  <2> QED BY <1>0, <2>1 DEF ServerTypes, Server, ServerPcs, AfterSource, SourceRefused, InTalk
<1>4. ClientPlaces' /\ OneByOne' /\ Said' /\ Greeting' /\ Untold' /\ Unheard'
  BY <1>0 DEF ClientPlaces, HasAnswered, SourceRefused, InTalk, AfterSource, RunErrPipe,
       OneByOne, Said, SaidBy, Greeting, Untold, Unheard
<1>5. Answers' /\ Passed' /\ Deaths' /\ ExitTellsFailure'
  BY <1>0 DEF Answers, HasAnswered, SourceRefused, InTalk, AfterSource, RunErrPipe, Passed,
       Excused, Deaths, ExitTellsFailure, Kept
<1> QED BY <1>1, <1>2, <1>3, <1>4, <1>5 DEF IInv

LEMMA DataStartsInv == ASSUME IInv, Kept, DataStarts PROVE IInv'
<1> USE Sizes DEF Sources, Hosts, Host, here, Ended, Running, optVars, clientVars,
      monitorVars, ghostVars
<1>0. /\ OptTypes /\ ClientTypes /\ MonitorTypes /\ ServerTypes /\ PipeTypes /\ GhostTypes
      /\ ClientPlaces /\ OneByOne /\ Said /\ Greeting /\ Untold /\ Unheard /\ Answers
      /\ Passed /\ Deaths /\ ExitTellsFailure
  BY DEF IInv
<1>i. HasAnswered \/ pc \in {"greet", "port"} => here \in Hosts
  BY <1>0, HereIsHost
<1>h. here \in Hosts
  BY <1>0 DEF ClientPlaces, OptTypes, DataStarts, InTalk
<1>e. HasServed(here, "data")
  BY <1>0, <1>h, ServesIt DEF DataStarts, ServerPcs
<1>1. OptTypes' /\ ClientTypes' /\ MonitorTypes'
  BY <1>0 DEF OptTypes, DataStarts, InTalk, ClientTypes, ClientPcs, MonitorTypes
<1>2. PipeTypes' /\ GhostTypes'
  BY <1>0 DEF PipeTypes, UpType, DownType, DataStarts, InTalk, GhostTypes
<1>3. ServerTypes'
  BY <1>0, <1>h, <1>e DEF ServerTypes, DataStarts, InTalk, HasServed
<1>4. ClientPlaces' /\ Unheard' /\ ExitTellsFailure'
  BY <1>0 DEF ClientPlaces, HasAnswered, DataStarts, InTalk, Unheard, ExitTellsFailure, Kept
<1>5. OneByOne' /\ Greeting' /\ Answers' /\ Passed'
  BY <1>0, <1>h, <1>e DEF OneByOne, DataStarts, InTalk, HasServed, Greeting, Answers,
       HasAnswered, Passed, Excused, Kept
<1>6. Said'
  <2> SUFFICES ASSUME NEW g \in Hosts PROVE SaidBy(g)'
    BY DEF Said
  <2>1. SaidBy(g)
    BY <1>0 DEF Said
  <2> QED BY <1>i, <1>h, <1>e, <2>1 DEF SaidBy, DataStarts, InTalk, HasServed, Lines
<1>7. Untold' /\ Deaths'
  BY <1>0, <1>i, <1>h, <1>e DEF Untold, ClientTypes, DataStarts, InTalk, HasServed, Deaths,
       OptTypes, ClientPlaces, GhostTypes
<1> QED BY <1>1, <1>2, <1>3, <1>4, <1>5, <1>6, <1>7 DEF IInv

LEMMA DataMovesInv == ASSUME IInv, Kept, DataMoves PROVE IInv'
<1> USE Sizes DEF Sources, Hosts, Host, here, Ended, Running, optVars, clientVars,
      monitorVars, ghostVars
<1>0. /\ OptTypes /\ ClientTypes /\ MonitorTypes /\ ServerTypes /\ PipeTypes /\ GhostTypes
      /\ ClientPlaces /\ OneByOne /\ Said /\ Greeting /\ Untold /\ Unheard /\ Answers
      /\ Passed /\ Deaths /\ ExitTellsFailure
  BY DEF IInv
<1>1. OptTypes' /\ ClientTypes' /\ MonitorTypes' /\ ServerTypes' /\ PipeTypes' /\ GhostTypes'
  BY <1>0 DEF OptTypes, DataMoves, ClientTypes, ClientPcs, MonitorTypes, ServerTypes,
       PipeTypes, UpType, DownType, GhostTypes
<1>2. ClientPlaces' /\ OneByOne' /\ Said' /\ Greeting' /\ Untold' /\ Unheard'
  BY <1>0 DEF ClientPlaces, HasAnswered, DataMoves, OneByOne, Said, SaidBy, Greeting,
       Untold, Unheard
<1>3. Answers' /\ Passed' /\ Deaths' /\ ExitTellsFailure'
  BY <1>0 DEF Answers, HasAnswered, DataMoves, Passed, Excused, Deaths, ExitTellsFailure, Kept
<1> QED BY <1>1, <1>2, <1>3 DEF IInv

LEMMA DataEndsInv == ASSUME IInv, Kept, DataEnds PROVE IInv'
<1> USE Sizes DEF Sources, Hosts, Host, here, Ended, Running, optVars, clientVars,
      monitorVars, ghostVars
<1>0. /\ OptTypes /\ ClientTypes /\ MonitorTypes /\ ServerTypes /\ PipeTypes /\ GhostTypes
      /\ ClientPlaces /\ OneByOne /\ Said /\ Greeting /\ Untold /\ Unheard /\ Answers
      /\ Passed /\ Deaths /\ ExitTellsFailure
  BY DEF IInv
<1>i. HasAnswered \/ pc \in {"greet", "port"} => here \in Hosts
  BY <1>0, HereIsHost
<1>1. OptTypes' /\ MonitorTypes' /\ PipeTypes'
  BY <1>0 DEF OptTypes, DataEnds, AfterSource, MonitorTypes, PipeTypes, UpType, DownType
<1>2. ClientTypes' /\ GhostTypes'
  BY <1>0, <1>i DEF ClientTypes, ClientPcs, DataEnds, AfterSource, OptTypes, ClientPlaces,
       GhostTypes
<1>3. ServerTypes'
  <2>1. server[here] \in Server /\ here \in Hosts
    BY <1>0 DEF ServerTypes, ClientPlaces, OptTypes, DataEnds
  <2> QED BY <1>0, <2>1 DEF ServerTypes, Server, ServerPcs, AfterSource, DataEnds
<1>4. ClientPlaces' /\ OneByOne' /\ Said' /\ Greeting' /\ Untold' /\ Unheard'
  BY <1>0 DEF ClientPlaces, HasAnswered, DataEnds, AfterSource, OneByOne, Said, SaidBy,
       Greeting, Untold, Unheard
<1>5. Answers' /\ Deaths' /\ ExitTellsFailure'
  BY <1>0 DEF Answers, HasAnswered, DataEnds, AfterSource, Deaths, ExitTellsFailure, Kept
<1>6. Passed'
  BY <1>0, <1>i DEF Passed, Excused, HasAnswered, DataEnds, AfterSource, ClientTypes, Kept
<1> QED BY <1>1, <1>2, <1>3, <1>4, <1>5, <1>6 DEF IInv

LEMMA ServerGoneInv == ASSUME IInv, Kept, ServerGone PROVE IInv'
<1> USE Sizes DEF Sources, Hosts, Host, here, Ended, Eof, Exits, Running, optVars,
      clientVars, monitorVars, ghostVars
<1>0. /\ OptTypes /\ ClientTypes /\ MonitorTypes /\ ServerTypes /\ PipeTypes /\ GhostTypes
      /\ ClientPlaces /\ OneByOne /\ Said /\ Greeting /\ Untold /\ Unheard /\ Answers
      /\ Passed /\ Deaths /\ ExitTellsFailure
  BY DEF IInv
<1>i. HasAnswered \/ pc \in {"greet", "port"} => here \in Hosts
  BY <1>0, HereIsHost
<1>1. OptTypes' /\ MonitorTypes' /\ ServerTypes' /\ PipeTypes' /\ GhostTypes'
  BY <1>0 DEF OptTypes, ServerGone, MonitorTypes, ServerTypes, PipeTypes, UpType, DownType,
       GhostTypes
<1>2. ClientTypes'
  BY <1>0, <1>i DEF ClientTypes, ClientPcs, ServerGone, OptTypes, ClientPlaces
<1>3. ClientPlaces' /\ Said' /\ Greeting' /\ Untold' /\ Unheard' /\ Answers'
  BY <1>0 DEF ClientPlaces, HasAnswered, ServerGone, Said, SaidBy, Greeting, Untold,
       Unheard, Answers
<1>4. OneByOne' /\ Passed' /\ Deaths'
  BY <1>0, <1>i DEF OneByOne, ServerGone, ClientTypes, OptTypes, ClientPlaces, Passed,
       Excused, HasAnswered, Deaths, GhostTypes, Unheard, Kept
<1>5. ExitTellsFailure'
  BY <1>0 DEF ExitTellsFailure, ServerGone, Kept
<1> QED BY <1>1, <1>2, <1>3, <1>4, <1>5 DEF IInv

LEMMA LastSourceInv == ASSUME IInv, Kept, LastSource PROVE IInv'
<1> USE Sizes DEF Sources, Hosts, Host, here, Ended, Running, optVars, clientVars,
      monitorVars, ghostVars
<1>0. /\ OptTypes /\ ClientTypes /\ MonitorTypes /\ ServerTypes /\ PipeTypes /\ GhostTypes
      /\ ClientPlaces /\ OneByOne /\ Said /\ Greeting /\ Untold /\ Unheard /\ Answers
      /\ Passed /\ Deaths /\ ExitTellsFailure
  BY DEF IInv
<1>1. OptTypes' /\ ClientTypes' /\ MonitorTypes' /\ ServerTypes' /\ PipeTypes' /\ GhostTypes'
  BY <1>0 DEF OptTypes, LastSource, ClientTypes, ClientPcs, MonitorTypes, ServerTypes,
       PipeTypes, UpType, DownType, GhostTypes
<1>2. ClientPlaces' /\ OneByOne' /\ Said' /\ Greeting' /\ Untold' /\ Unheard'
  BY <1>0 DEF ClientPlaces, HasAnswered, LastSource, OneByOne, Said, SaidBy, Greeting,
       Untold, Unheard
<1>3. Answers' /\ Passed' /\ Deaths' /\ ExitTellsFailure'
  BY <1>0 DEF Answers, HasAnswered, LastSource, Passed, Excused, Deaths, ExitTellsFailure, Kept
<1> QED BY <1>1, <1>2, <1>3 DEF IInv

LEMMA MainEndsInv == ASSUME IInv, Kept, MainEnds PROVE IInv'
<1> USE Sizes DEF Sources, Hosts, Host, here, Ended, Exits, Running, optVars,
      clientVars, monitorVars, ghostVars
<1>0. /\ OptTypes /\ ClientTypes /\ MonitorTypes /\ ServerTypes /\ PipeTypes /\ GhostTypes
      /\ ClientPlaces /\ OneByOne /\ Said /\ Greeting /\ Untold /\ Unheard /\ Answers
      /\ Passed /\ Deaths /\ ExitTellsFailure
  BY DEF IInv
<1>i. HasAnswered \/ pc \in {"greet", "port"} => here \in Hosts
  BY <1>0, HereIsHost
<1>1. OptTypes' /\ ClientTypes' /\ MonitorTypes' /\ ServerTypes' /\ PipeTypes' /\ GhostTypes'
  BY <1>0 DEF OptTypes, MainEnds, ClientTypes, ClientPcs, MonitorTypes, ServerTypes,
       PipeTypes, UpType, DownType, GhostTypes
<1>2. ClientPlaces' /\ OneByOne' /\ Said' /\ Greeting' /\ Untold' /\ Unheard'
  BY <1>0 DEF ClientPlaces, HasAnswered, MainEnds, OneByOne, Said, SaidBy, Greeting, Untold,
       Unheard
<1>3. Answers' /\ Passed' /\ Deaths'
  BY <1>0 DEF Answers, HasAnswered, MainEnds, Passed, Excused, Deaths, Kept
<1>4. ExitTellsFailure'
  BY <1>0, <1>i DEF ExitTellsFailure, ClientTypes, OptTypes, ClientPlaces, GhostTypes,
       Passed, Excused, Deaths, MainEnds, Kept
<1> QED BY <1>1, <1>2, <1>3, <1>4 DEF IInv

LEMMA SshReapedInv == ASSUME IInv, Kept, SshReaped PROVE IInv'
<1> USE Sizes DEF Sources, Hosts, Host, here, Ended, Exits, Running, optVars,
      clientVars, monitorVars, ghostVars
<1>0. /\ OptTypes /\ ClientTypes /\ MonitorTypes /\ ServerTypes /\ PipeTypes /\ GhostTypes
      /\ ClientPlaces /\ OneByOne /\ Said /\ Greeting /\ Untold /\ Unheard /\ Answers
      /\ Passed /\ Deaths /\ ExitTellsFailure
  BY DEF IInv
<1>i. HasAnswered \/ pc \in {"greet", "port"} => here \in Hosts
  BY <1>0, HereIsHost
<1>1. OptTypes' /\ ClientTypes' /\ MonitorTypes' /\ ServerTypes' /\ PipeTypes' /\ GhostTypes'
  BY <1>0 DEF OptTypes, SshReaped, Status, ClientTypes, ClientPcs, MonitorTypes,
       ServerTypes, PipeTypes, UpType, DownType, GhostTypes
<1>2. ClientPlaces' /\ OneByOne' /\ Said' /\ Greeting' /\ Untold' /\ Unheard'
  BY <1>0 DEF ClientPlaces, HasAnswered, SshReaped, Status, OneByOne, Said, SaidBy,
       Greeting, Untold, Unheard
<1>3. Answers' /\ Passed' /\ Deaths'
  BY <1>0 DEF Answers, HasAnswered, SshReaped, Status, Passed, Excused, Deaths, Kept
<1>4. ExitTellsFailure'
  BY <1>0, <1>i DEF ExitTellsFailure, ClientTypes, OptTypes, ClientPlaces, GhostTypes,
       Passed, Excused, Deaths, SshReaped, Status, Kept
<1> QED BY <1>1, <1>2, <1>3, <1>4 DEF IInv

LEMMA SecondInv == ASSUME IInv, Kept, Second PROVE IInv'
<1> USE Sizes DEF Sources, Hosts, Host, here, Ended, Exits, Running, optVars,
      clientVars, monitorVars, ghostVars
<1>0. /\ OptTypes /\ ClientTypes /\ MonitorTypes /\ ServerTypes /\ PipeTypes /\ GhostTypes
      /\ ClientPlaces /\ OneByOne /\ Said /\ Greeting /\ Untold /\ Unheard /\ Answers
      /\ Passed /\ Deaths /\ ExitTellsFailure
  BY DEF IInv
<1>i. HasAnswered \/ pc \in {"greet", "port"} => here \in Hosts
  BY <1>0, HereIsHost
<1>1. OptTypes' /\ ClientTypes' /\ ServerTypes' /\ PipeTypes' /\ GhostTypes'
  BY <1>0 DEF OptTypes, Second, Quiet, ClientTypes, ClientPcs, ServerTypes, PipeTypes,
       UpType, DownType, GhostTypes
<1>2. MonitorTypes'
  <2>1. /\ moved \in Nat /\ moved <= Blocks /\ seen \in Nat /\ seen <= moved
        /\ stalled \in Nat /\ stalled <= StallLimit /\ moved' = moved
        /\ pc = "data" /\ StallLimit \in Nat /\ (StallLimit > 0 => stalled > 0)
    BY <1>0 DEF MonitorTypes, Second
  <2>2. CASE /\ seen' = moved /\ StallLimit > 0
             /\ stalled' = IF seen + Boundary >= moved THEN Quiet(stalled) ELSE StallLimit
             /\ IF stalled' = 0 THEN Exits(1) ELSE UNCHANGED <<pc, code>>
    <3>1. stalled' = stalled - 1 \/ stalled' = StallLimit
      BY <2>2 DEF Quiet
    <3>2. stalled' = 0 => pc' # "data"
      BY <2>2
    <3> QED BY <2>1, <2>2, <3>1, <3>2 DEF MonitorTypes
  <2>3. CASE UNCHANGED <<pc, code, seen, stalled>>
    BY <2>1, <2>3 DEF MonitorTypes
  <2> QED BY <2>2, <2>3 DEF Second
<1>3. ClientPlaces'
  <2>1. (pc' = pc /\ code' = code) \/ (pc' = "exit" /\ code' = 1)
    BY DEF Second
  <2> QED BY <1>0, <2>1 DEF ClientPlaces, HasAnswered, ClientTypes, Second
<1>4. OneByOne' /\ Said' /\ Greeting' /\ Untold' /\ Unheard' /\ Answers'
  BY <1>0 DEF OneByOne, Second, Quiet, Said, SaidBy, Greeting, Untold, Unheard, Answers,
       HasAnswered
<1>5. Passed' /\ Deaths'
  BY <1>0 DEF Passed, Excused, HasAnswered, Second, Quiet, Deaths, Kept
<1>6. ExitTellsFailure'
  BY <1>0, <1>i DEF ExitTellsFailure, Second, OptTypes, ClientPlaces, Kept
<1> QED BY <1>1, <1>2, <1>3, <1>4, <1>5, <1>6 DEF IInv

LEMMA ClientDiesInv == ASSUME IInv, Kept, ClientDies PROVE IInv'
<1> USE Sizes DEF Sources, Hosts, Host, here, Ended, Exits, Running, optVars,
      clientVars, monitorVars, ghostVars
<1>0. /\ OptTypes /\ ClientTypes /\ MonitorTypes /\ ServerTypes /\ PipeTypes /\ GhostTypes
      /\ ClientPlaces /\ OneByOne /\ Said /\ Greeting /\ Untold /\ Unheard /\ Answers
      /\ Passed /\ Deaths /\ ExitTellsFailure
  BY DEF IInv
<1>1. OptTypes' /\ ClientTypes' /\ MonitorTypes' /\ ServerTypes' /\ PipeTypes' /\ GhostTypes'
  BY <1>0 DEF OptTypes, ClientDies, ClientTypes, ClientPcs, MonitorTypes, ServerTypes,
       PipeTypes, UpType, DownType, GhostTypes
<1>2. ClientPlaces' /\ OneByOne' /\ Said' /\ Greeting' /\ Untold' /\ Unheard'
  BY <1>0 DEF ClientPlaces, HasAnswered, ClientDies, OneByOne, Said, SaidBy, Greeting,
       Untold, Unheard
<1>3. Answers' /\ Passed' /\ Deaths' /\ ExitTellsFailure'
  BY <1>0 DEF Answers, HasAnswered, ClientDies, Passed, Excused, Deaths, ExitTellsFailure, Kept
<1> QED BY <1>1, <1>2, <1>3 DEF IInv

LEMMA UserRefusedInv == ASSUME IInv, Kept, UserRefused PROVE IInv'
<1> USE Sizes DEF Sources, Hosts, Host, here, Ended, Exits, Running, optVars, clientVars,
      monitorVars, ghostVars
<1>0. /\ OptTypes /\ ClientTypes /\ MonitorTypes /\ ServerTypes /\ PipeTypes /\ GhostTypes
      /\ ClientPlaces /\ OneByOne /\ Said /\ Greeting /\ Untold /\ Unheard /\ Answers
      /\ Passed /\ Deaths /\ ExitTellsFailure
  BY DEF IInv
<1>i. HasAnswered \/ pc \in {"greet", "port"} => here \in Hosts
  BY <1>0, HereIsHost
<1>1. OptTypes' /\ ClientTypes' /\ MonitorTypes' /\ ServerTypes' /\ PipeTypes' /\ GhostTypes'
  BY <1>0 DEF OptTypes, UserRefused, ClientTypes, ClientPcs, MonitorTypes, ServerTypes,
       PipeTypes, UpType, DownType, GhostTypes
<1>2. ClientPlaces' /\ OneByOne' /\ Said' /\ Greeting' /\ Untold' /\ Unheard'
  BY <1>0 DEF ClientPlaces, HasAnswered, UserRefused, OneByOne, Said, SaidBy, Greeting,
       Untold, Unheard
<1>3. Answers'
  BY <1>0 DEF Answers, HasAnswered, UserRefused, PipeTypes
<1>4. Passed' /\ Deaths' /\ ExitTellsFailure'
  BY <1>0 DEF HasAnswered, UserRefused, Passed, Excused, Deaths, ExitTellsFailure, Kept
<1> QED BY <1>1, <1>2, <1>3, <1>4 DEF IInv

LEMMA DataFailsInv == ASSUME IInv, Kept, DataFails PROVE IInv'
<1> USE Sizes DEF Sources, Hosts, Host, here, Ended, Exits, Running, optVars, clientVars,
      monitorVars, ghostVars
<1>0. /\ OptTypes /\ ClientTypes /\ MonitorTypes /\ ServerTypes /\ PipeTypes /\ GhostTypes
      /\ ClientPlaces /\ OneByOne /\ Said /\ Greeting /\ Untold /\ Unheard /\ Answers
      /\ Passed /\ Deaths /\ ExitTellsFailure
  BY DEF IInv
<1>i. HasAnswered \/ pc \in {"greet", "port"} => here \in Hosts
  BY <1>0, HereIsHost
<1>1. OptTypes' /\ ClientTypes' /\ MonitorTypes' /\ ServerTypes' /\ PipeTypes' /\ GhostTypes'
  BY <1>0 DEF OptTypes, DataFails, ClientTypes, ClientPcs, MonitorTypes, ServerTypes,
       PipeTypes, UpType, DownType, GhostTypes
<1>2. ClientPlaces' /\ OneByOne' /\ Said' /\ Greeting' /\ Untold' /\ Unheard'
  BY <1>0 DEF ClientPlaces, HasAnswered, DataFails, OneByOne, Said, SaidBy, Greeting,
       Untold, Unheard
<1>3. Answers'
  BY <1>0 DEF Answers, HasAnswered, DataFails, PipeTypes
<1>4. Passed' /\ Deaths' /\ ExitTellsFailure'
  BY <1>0 DEF HasAnswered, DataFails, Passed, Excused, Deaths, ExitTellsFailure, Kept
<1> QED BY <1>1, <1>2, <1>3, <1>4 DEF IInv

LEMMA SourceUncopiedInv == ASSUME IInv, Kept, SourceUncopied PROVE IInv'
<1> USE Sizes DEF Sources, Hosts, Host, here, Ended, Exits, Running, optVars, clientVars,
      monitorVars, ghostVars
<1>0. /\ OptTypes /\ ClientTypes /\ MonitorTypes /\ ServerTypes /\ PipeTypes /\ GhostTypes
      /\ ClientPlaces /\ OneByOne /\ Said /\ Greeting /\ Untold /\ Unheard /\ Answers
      /\ Passed /\ Deaths /\ ExitTellsFailure
  BY DEF IInv
<1>i. HasAnswered \/ pc \in {"greet", "port"} => here \in Hosts
  BY <1>0, HereIsHost
<1>h. here \in Hosts
  BY <1>0 DEF ClientPlaces, OptTypes, SourceUncopied, InTalk
<1>1. OptTypes' /\ MonitorTypes' /\ PipeTypes' /\ GhostTypes'
  BY <1>0 DEF OptTypes, SourceUncopied, InTalk, AfterSource, MonitorTypes,
       PipeTypes, UpType, DownType, GhostTypes
<1>2. ClientTypes'
  BY <1>0, <1>i DEF ClientTypes, ClientPcs, SourceUncopied, InTalk, AfterSource,
       OptTypes, ClientPlaces
<1>s. /\ server[here] \in Server /\ server[here].pc = "talk"
      /\ server' = [server EXCEPT ![here] = server'[here]] /\ server'[here] \in Server
      /\ server'[here].proto = server[here].proto /\ server'[here].code \in {0, 1}
      /\ \/ server'[here].pc = "talk" /\ mode = "toremote"
         \/ server'[here].pc = "exit" /\ mode = "tolocal"
  <2>1. server[here] \in Server /\ server \in [Hosts -> Server]
    BY <1>0, <1>h DEF ServerTypes
  <2> DEFINE Same(w, c, e) == [server[here] EXCEPT !.errs = e, !.pc = w, !.code = c]
  <2>2. \E w \in {"talk", "exit"}, c \in {0, 1}, e \in BOOLEAN :
           /\ server' = [server EXCEPT ![here] = Same(w, c, e)]
           /\ (w = "talk" /\ mode = "toremote") \/ (w = "exit" /\ mode = "tolocal")
    <3> HIDE DEF here, Host
    <3>1. CASE AfterSource(FALSE)
      <4>1. server[here].errs \in BOOLEAN
        BY <2>1 DEF Server
      <4>2. mode \in {"toremote", "tolocal"}
        BY <1>0 DEF OptTypes
      <4>3. server' = [server EXCEPT ![here] = Same(IF mode = "toremote" THEN "talk" ELSE "exit",
                  IF mode = "toremote" \/ ~server[here].errs THEN 0 ELSE 1, server[here].errs)]
        BY <2>1, <3>1 DEF AfterSource, Server
      <4> QED BY <4>1, <4>2, <4>3
    <3>2. CASE /\ mode = "tolocal"
               /\ server' = [server EXCEPT ![here] = [@ EXCEPT !.pc = "exit", !.code = 1]]
      <4>1. server' = [server EXCEPT ![here] = Same("exit", 1, server[here].errs)]
        BY <2>1, <3>2 DEF Server
      <4>2. server[here].errs \in BOOLEAN
        BY <2>1 DEF Server
      <4> QED BY <3>2, <4>1, <4>2
    <3> QED BY <3>1, <3>2 DEF SourceUncopied
  <2>3. PICK w \in {"talk", "exit"}, c \in {0, 1}, e \in BOOLEAN :
           /\ server' = [server EXCEPT ![here] = Same(w, c, e)]
           /\ (w = "talk" /\ mode = "toremote") \/ (w = "exit" /\ mode = "tolocal")
    BY <2>2
  <2>4. Same(w, c, e) \in Server /\ Same(w, c, e).pc = w /\ Same(w, c, e).code = c
        /\ Same(w, c, e).proto = server[here].proto
    BY <2>1 DEF Server, ServerPcs
  <2>5. server'[here] = Same(w, c, e)
    <3> HIDE DEF Same, here
    <3> QED BY <1>h, <2>1, <2>3
  <2>6. server[here].pc = "talk"
    BY DEF SourceUncopied, InTalk
  <2> HIDE DEF Same, here
  <2> QED BY <2>1, <2>3, <2>4, <2>5, <2>6
<1>g. /\ \A g \in Hosts : g # here => server'[g] = server[g]
      /\ UNCHANGED <<mode, kind, version, userOk, errs, code, proto, ssh, fp, up, down, udt,
                     copied, killed, misread>>
      /\ pc = "talk" /\ at \in Sources
      /\ mode = "toremote" => at' = at + 1 /\ pc' = "next"
      /\ mode = "tolocal" => at' = at /\ pc' = "talk"
  <2>1. \A g \in Hosts : g # here => server'[g] = server[g]
    BY <1>0, <1>s DEF ServerTypes
  <2>2. pc = "talk" /\ at \in Sources
    BY <1>0 DEF ClientPlaces, SourceUncopied, InTalk
  <2> QED BY <2>1, <2>2 DEF SourceUncopied, AfterSource
<1>3. ServerTypes'
  BY <1>0, <1>s DEF ServerTypes
<1> HIDE DEF here, Ended
<1>4. ClientPlaces' /\ OneByOne'
  BY <1>0, <1>h, <1>s, <1>g DEF ClientPlaces, HasAnswered, OneByOne, here
<1>9. Said' /\ Greeting' /\ Untold' /\ Unheard'
  <2>1. \A g \in Hosts : server'[g].pc \in {"none", "start", "listen"} => server'[g] = server[g]
    BY <1>s, <1>g
  <2>2. pc' \in {"talk", "next"}
    BY <1>0, <1>g DEF OptTypes
  <2>3. Said'
    BY <1>0, <1>g, <2>1 DEF Said, SaidBy
  <2>4. Greeting'
    BY <1>0, <1>g, <2>1, <2>2 DEF Greeting
  <2>5. Untold'
    <3>1. fp # 0 => fp \in Hosts
      BY <1>0 DEF ClientTypes
    <3> QED BY <1>0, <1>g, <2>1, <3>1 DEF Untold
  <2> QED BY <2>2, <2>3, <2>4, <2>5 DEF Unheard
<1>5. Answers'
  <2>1. here' = here
    BY <1>0, <1>g DEF here, OptTypes
  <2> QED BY <1>0, <1>s, <1>g, <2>1 DEF Answers, HasAnswered
<1>10. Deaths'
  <2>1. here \notin killed
    BY <1>0, <1>s DEF Deaths
  <2>2. pc' \in {"talk", "next"} /\ (pc' = "next" => mode = "toremote")
    BY <1>0, <1>g DEF OptTypes
  <2>3. \A h \in killed : server'[h] = server[h]
    BY <1>0, <1>g, <2>1 DEF GhostTypes
  <2> QED BY <1>0, <1>g, <2>2, <2>3 DEF Deaths
<1>11. ExitTellsFailure'
  <2>1. code' # 0
    BY <1>0, <1>g DEF ClientPlaces, Running
  <2> QED BY <2>1 DEF ExitTellsFailure
<1>6. Excused(at)
  <2>1. ~misread => server[here].proto = 0
    BY <1>0 DEF Answers, HasAnswered, SourceUncopied, InTalk
  <2> QED BY <2>1 DEF Excused, Dropped, SourceUncopied, here
<1>7. \A i \in Sources : Excused(i) => Excused(i)'
  BY DEF Excused, Kept, SourceUncopied
<1>8. Passed'
  <2>1. at \in Sources /\ mode' = mode /\ at' \in {at, at + 1} /\ (mode = "tolocal" => at' = at)
    BY <1>g, <1>0 DEF OptTypes
  <2>2. \A i \in Sources : i < at' => Excused(i)'
    BY <1>0, <1>6, <1>7, <2>1 DEF Passed
  <2>3. \A i \in Sources : i = at => Excused(i)'
    BY <1>6, <1>7
  <2> QED BY <1>g, <2>1, <2>2, <2>3 DEF Passed, Excused, Dropped
<1> QED BY <1>1, <1>2, <1>3, <1>4, <1>5, <1>8, <1>9, <1>10, <1>11 DEF IInv

-----------------------------------------------------------------------------
(***************************************************************************)
(* The server on a host, and its death.                                    *)
(***************************************************************************)
LEMMA ServerStartsInv == ASSUME IInv, Kept, NEW h \in Hosts, ServerStarts(h) PROVE IInv'
<1> USE Sizes DEF Sources, Hosts, Host, here, Ended, Running, optVars, clientVars,
      monitorVars, ghostVars
<1>0. /\ OptTypes /\ ClientTypes /\ MonitorTypes /\ ServerTypes /\ PipeTypes /\ GhostTypes
      /\ ClientPlaces /\ OneByOne /\ Said /\ Greeting /\ Untold /\ Unheard /\ Answers
      /\ Passed /\ Deaths /\ ExitTellsFailure
  BY DEF IInv
<1>i. HasAnswered \/ pc \in {"greet", "port"} => here \in Hosts
  BY <1>0, HereIsHost
<1>e. \/ HasExited(h, 1) /\ down' = down
      \/ HasServed(h, "listen") /\ mode = "toremote" /\ HasTold(h, "nul")
      \/ HasServed(h, "listen") /\ mode = "tolocal" /\ down' = down
  BY <1>0, ServesIt, ExitsIt, TellsIt DEF ServerStarts, ServerPcs, Words, OptTypes
<1>n. \A g \in Hosts : Len(down[g]) \in Nat
  BY <1>0, Lengths DEF PipeTypes
<1>1. OptTypes' /\ ClientTypes' /\ MonitorTypes' /\ GhostTypes'
  BY <1>0 DEF OptTypes, ServerStarts, ClientTypes, ClientPcs, MonitorTypes, GhostTypes
<1>2. ServerTypes' /\ PipeTypes'
  BY <1>0, <1>e DEF ServerTypes, ServerStarts, HasServed, HasExited, HasTold, PipeTypes,
       UpType, DownType
<1>3. ClientPlaces' /\ OneByOne'
  BY <1>0, <1>e DEF ClientPlaces, HasAnswered, ServerStarts, HasServed, HasExited, HasTold,
       OneByOne
<1>4. Said'
  <2> SUFFICES ASSUME NEW g \in Hosts PROVE SaidBy(g)'
    BY DEF Said
  <2>1. SaidBy(g)
    BY <1>0 DEF Said
  <2>2. CASE down' = down
    BY <1>e, <2>1, <2>2 DEF SaidBy, ServerStarts, HasServed, HasExited
  <2>3. CASE g # h
    BY <1>e, <2>1, <2>3 DEF SaidBy, ServerStarts, HasServed, HasExited, HasTold
  <2>4. CASE g = h /\ HasServed(h, "listen") /\ mode = "toremote" /\ HasTold(h, "nul")
    <3>1. Len(down[h]) = 0
      BY <2>1, <2>4 DEF SaidBy, ServerStarts
    <3> QED BY <1>0, <2>1, <2>4, <3>1, SaidAfterTold DEF HasServed, ServerStarts
  <2> QED BY <1>e, <2>2, <2>3, <2>4
<1>5. Greeting' /\ Untold' /\ Answers' /\ Passed'
  BY <1>0, <1>i, <1>e, <1>n DEF Greeting, OneByOne, OptTypes, ClientPlaces, Unheard,
       ServerStarts, HasServed, HasExited, HasTold, Untold, ClientTypes, Answers,
       HasAnswered, Passed, Excused, Kept
<1>6. Unheard'
  <2>1. up' = up /\ UNCHANGED <<mode, pc, at, killed>> /\ server[h].pc = "start"
    BY DEF ServerStarts
  <2>2. CASE h # here \/ pc \notin {"greet", "port"}
    BY <1>0, <1>i, <1>e, <2>1, <2>2 DEF Unheard, HasServed, HasExited, HasTold
  <2>3. CASE h = here /\ HasExited(h, 1) /\ down' = down
    <3>1. Len(down[h]) = 0
      BY <1>0, <2>1 DEF Said, SaidBy
    <3> QED BY <1>0, <2>1, <2>3, <3>1 DEF Unheard, HasExited
  <2>4. CASE h = here /\ HasServed(h, "listen")
    BY <1>0, <2>1, <2>4 DEF Unheard, HasServed
  <2> QED BY <1>e, <2>2, <2>3, <2>4
<1>7. Deaths'
  BY <1>0, <1>e, DeathsKept DEF ServerStarts, HasServed, HasExited
<1>8. ExitTellsFailure'
  BY <1>0 DEF ExitTellsFailure, ServerStarts, Kept
<1> QED BY <1>1, <1>2, <1>3, <1>4, <1>5, <1>6, <1>7, <1>8 DEF IInv

LEMMA ServerListensInv == ASSUME IInv, Kept, NEW h \in Hosts, ServerListens(h) PROVE IInv'
<1> USE Sizes DEF Sources, Hosts, Host, here, Ended, Running, optVars, clientVars,
      monitorVars, ghostVars
<1>0. /\ OptTypes /\ ClientTypes /\ MonitorTypes /\ ServerTypes /\ PipeTypes /\ GhostTypes
      /\ ClientPlaces /\ OneByOne /\ Said /\ Greeting /\ Untold /\ Unheard /\ Answers
      /\ Passed /\ Deaths /\ ExitTellsFailure
  BY DEF IInv
<1>i. HasAnswered \/ pc \in {"greet", "port"} => here \in Hosts
  BY <1>0, HereIsHost
<1>e. \/ HasExited(h, 1) /\ down' = down
      \/ HasServed(h, "verify") /\ version[h] = 1 /\ HasTold(h, "P1")
      \/ HasServed(h, "verify") /\ version[h] # 1 /\ HasTold(h, "P0")
  BY <1>0, ServesIt, ExitsIt, TellsIt DEF ServerListens, ServerPcs, Words
<1>n. \A g \in Hosts : Len(down[g]) \in Nat
  BY <1>0, Lengths DEF PipeTypes
<1>1. OptTypes' /\ ClientTypes' /\ MonitorTypes' /\ GhostTypes'
  BY <1>0 DEF OptTypes, ServerListens, ClientTypes, ClientPcs, MonitorTypes, GhostTypes
<1>2. ServerTypes' /\ PipeTypes'
  BY <1>0, <1>e DEF ServerTypes, ServerListens, HasServed, HasExited, HasTold, PipeTypes,
       UpType, DownType
<1>3. ClientPlaces' /\ OneByOne'
  BY <1>0, <1>e DEF ClientPlaces, HasAnswered, ServerListens, HasServed, HasExited, HasTold,
       OneByOne
<1>4. Said'
  <2> SUFFICES ASSUME NEW g \in Hosts PROVE SaidBy(g)'
    BY DEF Said
  <2>1. SaidBy(g)
    BY <1>0 DEF Said
  <2>2. CASE down' = down
    BY <1>e, <2>1, <2>2 DEF SaidBy, ServerListens, HasServed, HasExited, HasTold
  <2>3. CASE g # h
    BY <1>e, <2>1, <2>3 DEF SaidBy, ServerListens, HasServed, HasExited, HasTold
  <2>4. CASE g = h /\ HasServed(h, "verify") /\ HasTold(h, "P1") /\ version[h] = 1
    BY <1>0, <2>1, <2>4, SaidAfterTold DEF HasServed, ServerListens, Lines
  <2>5. CASE g = h /\ HasServed(h, "verify") /\ HasTold(h, "P0")
    BY <1>0, <2>1, <2>5, SaidAfterTold DEF HasServed, ServerListens, Lines
  <2> QED BY <1>e, <2>2, <2>3, <2>4, <2>5
<1>5. Greeting'
  <2>1. UNCHANGED <<mode, pc>> /\ server[h].pc = "listen"
    BY DEF ServerListens
  <2>2. ASSUME NEW g \in Hosts, Len(down'[g]) > 0, down'[g][1] = "nul"
        PROVE  Len(down[g]) > 0 /\ down[g][1] = "nul"
    <3>1. CASE down'[g] = down[g]
      BY <2>2, <3>1
    <3>2. CASE HasTold(g, "P1") \/ HasTold(g, "P0")
      <4>1. Len(down[g]) # 0
        BY <1>n, <2>2, <3>2 DEF HasTold
      <4> QED BY <1>n, <2>2, <3>2, <4>1 DEF HasTold
    <3> QED BY <1>e, <3>1, <3>2 DEF HasTold
  <2>3. server'[1].pc = "start" => server[1].pc = "start"
    BY <1>e DEF HasServed, HasExited
  <2> QED BY <1>0, <2>1, <2>2, <2>3 DEF Greeting
<1>6. Untold'
  <2>1. UNCHANGED <<up, fp>> /\ server[h].pc = "listen"
    BY DEF ServerListens
  <2>2. \A g \in Hosts : server'[g].pc \in {"none", "start", "listen"}
                           => server[g].pc \in {"none", "start", "listen"}
    BY <1>e, <2>1 DEF HasServed, HasExited
  <2>3. fp # 0 => fp \in Hosts
    BY <1>0 DEF ClientTypes
  <2> QED BY <1>0, <2>1, <2>2, <2>3 DEF Untold
<1>7. Answers'
  BY <1>0, <1>i, <1>e, <1>n DEF Answers, HasAnswered, Unheard, ServerListens, HasServed,
       HasExited, HasTold
<1>8. Passed'
  BY <1>0, <1>i, <1>e, <1>n DEF Passed, Excused, HasAnswered, Answers, ClientTypes,
       GhostTypes, PipeTypes, ServerListens, HasServed, HasExited, HasTold, Kept
<1>9. Unheard'
  <2>1. up' = up /\ UNCHANGED <<mode, pc, at, killed>> /\ server[h].pc = "listen"
    BY DEF ServerListens
  <2>2. CASE h # here \/ pc \notin {"greet", "port"}
    BY <1>0, <1>i, <1>e, <2>1, <2>2 DEF Unheard, HasServed, HasExited, HasTold
  <2>3. CASE h = here /\ HasExited(h, 1) /\ down' = down
    <3>1. mode = "tolocal" => Len(down[h]) = 0
      <4>1. Len(down[h]) <= 1 /\ (Len(down[h]) = 1 => down[h][1] = "nul")
            /\ (Len(down[h]) = 1 /\ down[h][1] = "nul" => mode = "toremote")
        <5>1. SaidBy(h)
          BY <1>0 DEF Said
        <5>2. Len(down[h]) = 1 => 1 \in 1..Len(down[h])
          OBVIOUS
        <5> QED BY <2>1, <5>1, <5>2 DEF SaidBy
      <4> DEFINE a == Len(down[h])
      <4>2. a \in Nat /\ (mode = "tolocal" => a <= 1 /\ a # 1)
        BY <1>n, <4>1
      <4> HIDE DEF a
      <4>3. mode = "tolocal" => a = 0
        BY <4>2
      <4> QED BY <4>3 DEF a
    <3> QED BY <1>0, <2>1, <2>3, <3>1 DEF Unheard, HasExited
  <2>4. CASE h = here /\ HasServed(h, "verify")
    BY <1>0, <2>1, <2>4 DEF Unheard, HasServed
  <2> QED BY <1>e, <2>2, <2>3, <2>4
<1>10. Deaths'
  BY <1>0, <1>e, DeathsKept DEF ServerListens, HasServed, HasExited
<1>11. ExitTellsFailure'
  BY <1>0 DEF ExitTellsFailure, ServerListens, Kept
<1> QED BY <1>1, <1>2, <1>3, <1>4, <1>5, <1>6, <1>7, <1>8, <1>9, <1>10, <1>11 DEF IInv

LEMMA ServerVerifiesInv == ASSUME IInv, Kept, NEW h \in Hosts, ServerVerifies(h) PROVE IInv'
<1> USE Sizes DEF Sources, Hosts, Host, here, Ended, Running, optVars, clientVars,
      monitorVars, ghostVars
<1>0. /\ OptTypes /\ ClientTypes /\ MonitorTypes /\ ServerTypes /\ PipeTypes /\ GhostTypes
      /\ ClientPlaces /\ OneByOne /\ Said /\ Greeting /\ Untold /\ Unheard /\ Answers
      /\ Passed /\ Deaths /\ ExitTellsFailure
  BY DEF IInv
<1>i. HasAnswered \/ pc \in {"greet", "port"} => here \in Hosts
  BY <1>0, HereIsHost
<1>p. HasHeard(h) /\ up[h] # <<>> /\ Head(up[h]) = up[h][1]
  <2>1. up[h] \in Seq(Words) /\ up[h] # <<>>
    BY <1>0 DEF PipeTypes, UpType, ServerVerifies
  <2> QED BY <1>0, <2>1, HearsIt DEF ServerVerifies
<1>e. \/ HasExited(h, 1) /\ version[h] = 0 /\ up[h][1] = "v1"
      \/ /\ ServerTypes'
         /\ version[h] # 0 \/ up[h][1] # "v1"
         /\ server'[h].pc = "accept" /\ server'[h].code = server[h].code
         /\ server'[h].proto = IF up[h][1] = "v1" THEN 1 ELSE 0
         /\ \A g \in Hosts : g # h => server'[g] = server[g]
  <2>1. CASE version[h] = 0 /\ Head(up[h]) = "v1"
    BY <1>0, <1>p, <2>1, ExitsIt DEF ServerVerifies
  <2>2. CASE ~(version[h] = 0 /\ Head(up[h]) = "v1")
    <3> DEFINE R == [server[h] EXCEPT !.pc = "accept", !.proto = Answer(Head(up[h]))]
    <3>1. R \in Server /\ R.pc = "accept" /\ R.code = server[h].code
          /\ R.proto = IF up[h][1] = "v1" THEN 1 ELSE 0
      <4>1. server[h] \in Server /\ Answer(Head(up[h])) = IF up[h][1] = "v1" THEN 1 ELSE 0
        BY <1>0, <1>p DEF ServerTypes, Answer
      <4>2. Answer(Head(up[h])) \in 0..1
        BY <4>1
      <4> HIDE DEF Answer
      <4> QED BY <4>1, <4>2 DEF Server, ServerPcs
    <3>2. server' = [server EXCEPT ![h] = R]
      BY <2>2 DEF ServerVerifies
    <3> HIDE DEF R
    <3> QED BY <1>0, <1>p, <2>2, <3>1, <3>2 DEF ServerTypes
  <2> QED BY <2>1, <2>2
<1>c. /\ server[h].pc = "verify" /\ server'[h].pc \in {"accept", "exit"}
      /\ \A g \in Hosts : g # h => server'[g] = server[g]
  BY <1>e DEF HasExited, ServerVerifies
<1>1. OptTypes' /\ ClientTypes' /\ MonitorTypes' /\ GhostTypes'
  BY <1>0 DEF OptTypes, ServerVerifies, Answer, ClientTypes, ClientPcs, MonitorTypes, GhostTypes
<1>2. ServerTypes'
  BY <1>e, ServedTypes
<1>3. PipeTypes'
  BY <1>0, <1>p, <1>e DEF PipeTypes, UpType, DownType, ServerVerifies, Answer, HasExited,
       HasHeard
<1>4. ClientPlaces' /\ OneByOne'
  BY <1>0, <1>c DEF ClientPlaces, HasAnswered, ServerVerifies, OneByOne
<1>5. Said'
  <2> SUFFICES ASSUME NEW g \in Hosts PROVE SaidBy(g)'
    BY DEF Said
  <2>1. SaidBy(g)
    BY <1>0 DEF Said
  <2> QED BY <1>i, <1>p, <1>e, <2>1 DEF SaidBy, ServerVerifies, Answer, HasExited
<1>6. Greeting'
  BY <1>0, <1>p, <1>e DEF Greeting, ServerVerifies, Answer, HasExited, HasHeard
<1>7. Untold'
  BY <1>0, <1>i, <1>p, <1>e DEF Untold, ClientTypes, ServerVerifies, Answer, HasExited, HasHeard
<1>8. Passed'
  <2>1. \A i \in Sources : Excused(i) => Excused(i)'
    BY DEF Excused, Kept, ServerVerifies
  <2>2. UNCHANGED <<mode, pc, at, misread>>
    BY DEF ServerVerifies
  <2>3. mode = "tolocal" /\ HasAnswered => at \in Sources /\ here \in Hosts
    BY <1>0, <1>i DEF HasAnswered, ClientPlaces
  <2>4. HasAnswered' => HasAnswered
    BY <1>c, <2>2 DEF HasAnswered
  <2>5. HasAnswered /\ server'[here].pc = "exit" /\ server[here].pc # "exit" => misread
    <3>1. CASE h # here
      BY <1>i, <1>c, <3>1
    <3>2. CASE h = here
      <4>1. HasAnswered /\ ~misread => /\ proto = 1 => version[h] = 1
                                       /\ up[h][1] = IF proto = 1 THEN "v1" ELSE "nul"
        BY <1>0, <1>c, <3>2 DEF Answers
      <4>2. server'[h].pc = "exit" => version[h] = 0 /\ up[h][1] = "v1"
        BY <1>e DEF HasExited
      <4> QED BY <3>2, <4>1, <4>2
    <3> QED BY <3>1, <3>2
  <2>6. misread => \A i \in Sources : Excused(i)
    BY DEF Excused
  <2> HIDE DEF Sources, Hosts
  <2> QED BY <1>0, <2>1, <2>2, <2>3, <2>4, <2>5, <2>6 DEF Passed
<1>9. Unheard'
  BY <1>0, <1>p, <1>e, <1>i DEF Unheard, ServerVerifies, Answer, HasExited, HasHeard
<1>10. Answers'
  <2>1. UNCHANGED <<mode, version, pc, at, proto, udt, misread>> /\ server[h].pc = "verify"
    BY DEF ServerVerifies
  <2>2. server'[1].pc # "none" <=> server[1].pc # "none"
    BY <1>e, <2>1 DEF HasExited
  <2>3. CASE h # here
    <3>1. HasAnswered => server'[here] = server[here] /\ up'[here] = up[here]
      BY <1>i, <1>p, <1>e, <2>3 DEF HasHeard, HasExited
    <3> QED BY <1>0, <2>1, <2>2, <3>1 DEF Answers, HasAnswered
  <2>4. CASE h = here /\ HasExited(h, 1)
    BY <1>0, <2>1, <2>2, <2>4 DEF Answers, HasAnswered, HasExited
  <2>5. CASE /\ h = here
             /\ version[h] # 0 \/ up[h][1] # "v1"
             /\ server'[h].pc = "accept"
             /\ server'[h].proto = IF up[h][1] = "v1" THEN 1 ELSE 0
    <3>1. proto \in 0..2 /\ (HasAnswered' => HasAnswered) /\ server'[here] = server'[h]
      BY <1>0, <2>1, <2>2, <2>5 DEF ClientTypes, HasAnswered
    <3>2. HasAnswered /\ ~misread => /\ proto # 2 /\ (proto = 1 => version[h] = 1)
                                     /\ up[h][1] = IF proto = 1 THEN "v1" ELSE "nul"
      BY <1>0, <2>1, <2>5 DEF Answers
    <3>3. HasAnswered /\ ~misread => server'[h].proto = proto
      BY <2>5, <3>1, <3>2
    <3>4. HasAnswered /\ pc # "connect" => udt[here] # "no"
      BY <1>0 DEF Answers
    <3> QED BY <2>1, <2>5, <3>1, <3>2, <3>3, <3>4 DEF Answers
  <2> QED BY <1>e, <2>3, <2>4, <2>5
<1>11. Deaths'
  BY <1>0, <1>e, DeathsKept DEF ServerVerifies, HasExited
<1>12. ExitTellsFailure'
  BY <1>0 DEF ExitTellsFailure, ServerVerifies, Answer, Kept
<1> QED BY <1>1, <1>2, <1>3, <1>4, <1>5, <1>6, <1>7, <1>8, <1>9, <1>10, <1>11, <1>12 DEF IInv

LEMMA ServerAcceptsInv == ASSUME IInv, Kept, NEW h \in Hosts, ServerAccepts(h) PROVE IInv'
<1> USE Sizes DEF Sources, Hosts, Host, here, Ended, Running, optVars, clientVars,
      monitorVars, ghostVars
<1>0. /\ OptTypes /\ ClientTypes /\ MonitorTypes /\ ServerTypes /\ PipeTypes /\ GhostTypes
      /\ ClientPlaces /\ OneByOne /\ Said /\ Greeting /\ Untold /\ Unheard /\ Answers
      /\ Passed /\ Deaths /\ ExitTellsFailure
  BY DEF IInv
<1>i. HasAnswered \/ pc \in {"greet", "port"} => here \in Hosts
  BY <1>0, HereIsHost
<1>e. HasServed(h, IF mode = "toremote" THEN "talk" ELSE "hello")
  BY <1>0, ServesIt DEF ServerAccepts, ServerPcs
<1>1. OptTypes' /\ ClientTypes' /\ MonitorTypes' /\ PipeTypes' /\ GhostTypes'
  BY <1>0 DEF OptTypes, ServerAccepts, ClientTypes, ClientPcs, MonitorTypes, PipeTypes,
       UpType, DownType, GhostTypes
<1>2. ServerTypes'
  BY <1>0, <1>e DEF ServerTypes, ServerAccepts, HasServed
<1>3. ClientPlaces' /\ OneByOne' /\ Greeting'
  BY <1>0, <1>e DEF ClientPlaces, HasAnswered, ServerAccepts, HasServed, OneByOne, Greeting
<1>4. Said'
  <2> SUFFICES ASSUME NEW g \in Hosts PROVE SaidBy(g)'
    BY DEF Said
  <2>1. SaidBy(g)
    BY <1>0 DEF Said
  <2> QED BY <1>i, <1>e, <2>1 DEF SaidBy, ServerAccepts, HasServed, Lines
<1>5. Untold' /\ Answers' /\ Deaths'
  BY <1>0, <1>i, <1>e DEF Untold, ClientTypes, ServerAccepts, HasServed, Answers,
       HasAnswered, Unheard, Deaths, OptTypes, ClientPlaces, GhostTypes, OneByOne
<1>6. Unheard' /\ Passed'
  BY <1>0, <1>e, <1>i DEF Unheard, ServerAccepts, HasServed, Passed, Excused, HasAnswered, Kept
<1>7. ExitTellsFailure'
  BY <1>0 DEF ExitTellsFailure, ServerAccepts, Kept
<1> QED BY <1>1, <1>2, <1>3, <1>4, <1>5, <1>6, <1>7 DEF IInv

LEMMA AcceptTimesOutInv == ASSUME IInv, Kept, NEW h \in Hosts, AcceptTimesOut(h) PROVE IInv'
<1> USE Sizes DEF Sources, Hosts, Host, here, Ended, ServerExits, Running, optVars,
      clientVars, monitorVars, ghostVars
<1>0. /\ OptTypes /\ ClientTypes /\ MonitorTypes /\ ServerTypes /\ PipeTypes /\ GhostTypes
      /\ ClientPlaces /\ OneByOne /\ Said /\ Greeting /\ Untold /\ Unheard /\ Answers
      /\ Passed /\ Deaths /\ ExitTellsFailure
  BY DEF IInv
<1>i. HasAnswered \/ pc \in {"greet", "port"} => here \in Hosts
  BY <1>0, HereIsHost
<1>1. OptTypes' /\ ClientTypes' /\ MonitorTypes' /\ PipeTypes' /\ GhostTypes'
  BY <1>0 DEF OptTypes, AcceptTimesOut, AcceptExpires, ClientTypes, ClientPcs, MonitorTypes,
       PipeTypes, UpType, DownType, GhostTypes
<1>2. ServerTypes'
  BY <1>0, <1>i DEF ServerTypes, Server, ServerPcs, ClientPlaces, AcceptTimesOut, AcceptExpires
<1>3. ClientPlaces' /\ OneByOne' /\ Said' /\ Greeting' /\ Untold' /\ Unheard'
  BY <1>0 DEF ClientPlaces, HasAnswered, AcceptTimesOut, AcceptExpires, OneByOne, Said,
       SaidBy, Greeting, Untold, Unheard
<1>4. Answers' /\ Deaths' /\ ExitTellsFailure'
  BY <1>0 DEF Answers, HasAnswered, AcceptTimesOut, AcceptExpires, Deaths, ExitTellsFailure, Kept
<1>5. Passed'
  BY <1>0, <1>i DEF Passed, Excused, HasAnswered, Answers, ClientTypes, OptTypes,
       ServerTypes, ClientPlaces, GhostTypes, PipeTypes, AcceptTimesOut, AcceptExpires, Kept
<1> QED BY <1>1, <1>2, <1>3, <1>4, <1>5 DEF IInv

LEMMA ServerHelloInv == ASSUME IInv, Kept, NEW h \in Hosts, ServerHello(h) PROVE IInv'
<1> USE Sizes DEF Sources, Hosts, Host, here, Ended, Hears, Running, optVars,
      clientVars, monitorVars, ghostVars
<1>0. /\ OptTypes /\ ClientTypes /\ MonitorTypes /\ ServerTypes /\ PipeTypes /\ GhostTypes
      /\ ClientPlaces /\ OneByOne /\ Said /\ Greeting /\ Untold /\ Unheard /\ Answers
      /\ Passed /\ Deaths /\ ExitTellsFailure
  BY DEF IInv
<1>i. HasAnswered \/ pc \in {"greet", "port"} => here \in Hosts
  BY <1>0, HereIsHost
<1>1. OptTypes' /\ ClientTypes' /\ MonitorTypes'
  BY <1>0 DEF OptTypes, ServerHello, ClientTypes, ClientPcs, MonitorTypes
<1>2. PipeTypes' /\ GhostTypes'
  BY <1>0 DEF PipeTypes, UpType, DownType, ServerHello, GhostTypes
<1>3. ServerTypes'
  <2>1. server[h] \in Server
    BY <1>0 DEF ServerTypes
  <2>2. server'[h] \in Server
    BY <1>0, <2>1 DEF ServerTypes, Server, ServerPcs, ServerHello
  <2>3. server' = [server EXCEPT ![h] = server'[h]]
    BY <1>0 DEF ServerTypes, ServerHello
  <2> QED BY <1>0, <2>2, <2>3 DEF ServerTypes
<1>4. ClientPlaces' /\ OneByOne' /\ Said' /\ Greeting' /\ Untold' /\ Unheard'
  BY <1>0 DEF ClientPlaces, HasAnswered, ServerHello, OneByOne, Said, SaidBy, Greeting,
       Untold, Unheard
<1>5. Answers' /\ Deaths'
  BY <1>0 DEF Answers, HasAnswered, ServerHello, Deaths
<1>6. Passed'
  <2>1. \A i \in Sources : Excused(i) => Excused(i)'
    BY DEF Excused, Kept, ServerHello
  <2>2. UNCHANGED <<mode, pc, at>> /\ \A g \in Hosts : server'[g] = server[g] \/ g = h
    BY <1>0 DEF ServerTypes, ServerHello
  <2>3. server[h].pc \in {"hello", "talk"} /\ server'[h].pc = "talk"
    BY <1>0 DEF ServerTypes, Server, ServerHello
  <2> HIDE DEF Hosts
  <2>4. 1 \in Hosts
    BY DEF Hosts
  <2>5. HasAnswered' => HasAnswered
    BY <2>2, <2>3, <2>4 DEF HasAnswered
  <2>6. HasAnswered /\ Ended(here)' => Ended(here)
    BY <1>i, <2>2, <2>3
  <2>7. mode = "tolocal" /\ HasAnswered => at \in Sources
    BY <1>0 DEF HasAnswered, ClientPlaces
  <2> QED BY <1>0, <2>1, <2>2, <2>5, <2>6, <2>7 DEF Passed
<1>7. ExitTellsFailure'
  BY <1>0 DEF ServerHello, ExitTellsFailure, Kept
<1> QED BY <1>1, <1>2, <1>3, <1>4, <1>5, <1>6, <1>7 DEF IInv

LEMMA ServerHearsErrorInv == ASSUME IInv, Kept, NEW h \in Hosts, ServerHearsError(h) PROVE IInv'
<1> USE Sizes DEF Sources, Hosts, Host, here, Ended, Hears, Running, optVars,
      clientVars, monitorVars, ghostVars
<1>0. /\ OptTypes /\ ClientTypes /\ MonitorTypes /\ ServerTypes /\ PipeTypes /\ GhostTypes
      /\ ClientPlaces /\ OneByOne /\ Said /\ Greeting /\ Untold /\ Unheard /\ Answers
      /\ Passed /\ Deaths /\ ExitTellsFailure
  BY DEF IInv
<1>i. HasAnswered \/ pc \in {"greet", "port"} => here \in Hosts
  BY <1>0, HereIsHost
<1>1. OptTypes' /\ ClientTypes' /\ MonitorTypes'
  BY <1>0 DEF OptTypes, ServerHearsError, ClientTypes, ClientPcs, MonitorTypes
<1>2. PipeTypes' /\ GhostTypes'
  BY <1>0 DEF PipeTypes, UpType, DownType, ServerHearsError, GhostTypes
<1>3. ServerTypes'
  BY <1>0, <1>i DEF ServerTypes, Server, ServerPcs, ClientTypes, ServerHearsError
<1>4. ClientPlaces' /\ OneByOne' /\ Said' /\ Greeting' /\ Untold' /\ Unheard'
  BY <1>0 DEF ClientPlaces, HasAnswered, ServerHearsError, OneByOne, Said, SaidBy, Greeting,
       Untold, Unheard
<1>5. Answers' /\ Deaths'
  BY <1>0 DEF Answers, HasAnswered, ServerHearsError, Deaths
<1>6. Passed'
  <2>1. \A i \in Sources : Excused(i) => Excused(i)'
    BY DEF Excused, Kept, ServerHearsError
  <2>2. UNCHANGED <<mode, pc, at>> /\ \A g \in Hosts : server'[g] = server[g] \/ g = h
    BY <1>0 DEF ServerTypes, ServerHearsError
  <2>3. server[h].pc \in {"hello", "talk"} /\ server'[h].pc = "talk"
    BY <1>0 DEF ServerTypes, Server, ServerHearsError
  <2> HIDE DEF Hosts
  <2>4. 1 \in Hosts
    BY DEF Hosts
  <2>5. HasAnswered' => HasAnswered
    BY <2>2, <2>3, <2>4 DEF HasAnswered
  <2>6. HasAnswered /\ Ended(here)' => Ended(here)
    BY <1>i, <2>2, <2>3
  <2>7. mode = "tolocal" /\ HasAnswered => at \in Sources
    BY <1>0 DEF HasAnswered, ClientPlaces
  <2> QED BY <1>0, <2>1, <2>2, <2>5, <2>6, <2>7 DEF Passed
<1>7. ExitTellsFailure'
  BY <1>0 DEF ServerHearsError, ExitTellsFailure, Kept
<1> QED BY <1>1, <1>2, <1>3, <1>4, <1>5, <1>6, <1>7 DEF IInv

LEMMA ServerAloneInv == ASSUME IInv, Kept, NEW h \in Hosts, ServerAlone(h) PROVE IInv'
<1> USE Sizes DEF Sources, Hosts, Host, here, Ended, Running, optVars, clientVars,
      monitorVars, ghostVars
<1>0. /\ OptTypes /\ ClientTypes /\ MonitorTypes /\ ServerTypes /\ PipeTypes /\ GhostTypes
      /\ ClientPlaces /\ OneByOne /\ Said /\ Greeting /\ Untold /\ Unheard /\ Answers
      /\ Passed /\ Deaths /\ ExitTellsFailure
  BY DEF IInv
<1>i. HasAnswered \/ pc \in {"greet", "port"} => here \in Hosts
  BY <1>0, HereIsHost
<1>e. HasExited(h, 0) \/ HasExited(h, 1)
  BY <1>0, ExitsIt DEF ServerAlone
<1>1. OptTypes' /\ ClientTypes' /\ MonitorTypes' /\ PipeTypes' /\ GhostTypes'
  BY <1>0 DEF OptTypes, ServerAlone, ClientTypes, ClientPcs, MonitorTypes, PipeTypes,
       UpType, DownType, GhostTypes
<1>2. ServerTypes'
  BY <1>0, <1>e DEF ServerTypes, ServerAlone, HasExited
<1>3. ClientPlaces' /\ ExitTellsFailure'
  BY <1>0 DEF ClientPlaces, HasAnswered, ServerAlone, ExitTellsFailure, Kept
<1>4. OneByOne' /\ Greeting'
  BY <1>0, <1>e DEF OneByOne, ServerAlone, HasExited, Greeting
<1>5. Said'
  <2> SUFFICES ASSUME NEW g \in Hosts PROVE SaidBy(g)'
    BY DEF Said
  <2>1. SaidBy(g)
    BY <1>0 DEF Said
  <2> QED BY <1>i, <1>e, <2>1 DEF SaidBy, ServerAlone, HasExited, Lines
<1>6. Untold' /\ Answers' /\ Deaths'
  BY <1>0, <1>i, <1>e DEF Untold, ClientTypes, ServerAlone, HasExited, Answers, HasAnswered,
       Unheard, Deaths, OptTypes, ClientPlaces, GhostTypes, OneByOne
<1>7. Unheard' /\ Passed'
  BY <1>0, <1>e, <1>i DEF Unheard, ServerAlone, HasExited, ClientTypes, OptTypes,
       ClientPlaces, Passed, Excused, HasAnswered, Kept
<1> QED BY <1>1, <1>2, <1>3, <1>4, <1>5, <1>6, <1>7 DEF IInv

LEMMA ServerDiesInv == ASSUME IInv, Kept, NEW h \in Hosts, ServerDies(h) PROVE IInv'
<1> USE Sizes DEF Sources, Hosts, Host, here, Ended, Running, optVars, clientVars,
      monitorVars, ghostVars
<1>0. /\ OptTypes /\ ClientTypes /\ MonitorTypes /\ ServerTypes /\ PipeTypes /\ GhostTypes
      /\ ClientPlaces /\ OneByOne /\ Said /\ Greeting /\ Untold /\ Unheard /\ Answers
      /\ Passed /\ Deaths /\ ExitTellsFailure
  BY DEF IInv
<1>i. HasAnswered \/ pc \in {"greet", "port"} => here \in Hosts
  BY <1>0, HereIsHost
<1>e. HasExited(h, 1)
  BY <1>0, ExitsIt DEF ServerDies
<1>d. \/ down' = down
      \/ /\ down[h] # <<>> /\ Len(down[h]) > 0 /\ DownType'
         /\ Len(down'[h]) = Len(down[h]) /\ down'[h][Len(down[h])] = "cut"
         /\ \A i \in 1..(Len(down[h]) - 1) : down'[h][i] = down[h][i]
         /\ \A g \in Hosts : g # h => down'[g] = down[g]
  <2>1. down[h] \in Seq(Words) /\ down \in [Hosts -> Seq(Words)]
    BY <1>0 DEF PipeTypes, DownType
  <2>2. CASE down' = down
    BY <2>2
  <2>3. CASE /\ down[h] # <<>>
             /\ down' = [down EXCEPT ![h] = SubSeq(@, 1, Len(@) - 1) \o <<"cut">>]
    <3> DEFINE q == SubSeq(down[h], 1, Len(down[h]) - 1)
    <3>1. Len(down[h]) \in Nat /\ Len(down[h]) >= 1
      BY <2>1, <2>3
    <3>2. \A i \in 1..(Len(down[h]) - 1) : down[h][i] \in Words
      BY <2>1, <3>1
    <3>3. q \in Seq(Words) /\ Len(q) = Len(down[h]) - 1
          /\ \A i \in 1..(Len(down[h]) - 1) : q[i] = down[h][i]
      BY <3>1, <3>2, SubSeqProperties
    <3> HIDE DEF q
    <3>4. "cut" \in Words /\ down' = [down EXCEPT ![h] = Append(q, "cut")]
      BY <2>3, <3>3, AppendIsConcat DEF q, Words
    <3>5. /\ down'[h] = Append(q, "cut") /\ DownType'
          /\ \A g \in Hosts : g # h => down'[g] = down[g]
      BY <2>1, <3>3, <3>4, AppendProperties DEF DownType
    <3>6. /\ Len(down'[h]) = Len(q) + 1 /\ down'[h][Len(q) + 1] = "cut"
          /\ \A i \in 1..Len(q) : down'[h][i] = q[i]
      BY <3>3, <3>4, <3>5, AppendProperties
    <3>7. Len(q) = Len(down[h]) - 1 /\ Len(q) + 1 = Len(down[h])
      BY <3>1, <3>3
    <3> QED BY <2>3, <3>1, <3>3, <3>5, <3>6, <3>7
  <2> QED BY <2>2, <2>3 DEF ServerDies
<1>n. \A g \in Hosts : Len(down[g]) \in Nat
  BY <1>0, Lengths DEF PipeTypes
<1>1. OptTypes' /\ ClientTypes' /\ MonitorTypes' /\ GhostTypes'
  BY <1>0 DEF OptTypes, ServerDies, ClientTypes, ClientPcs, MonitorTypes, GhostTypes
<1>2. ServerTypes' /\ PipeTypes'
  BY <1>0, <1>e, <1>d DEF ServerTypes, ServerDies, HasExited, PipeTypes, UpType, DownType
<1>3. ClientPlaces' /\ OneByOne' /\ Greeting'
  BY <1>0, <1>e, <1>d DEF ClientPlaces, HasAnswered, ServerDies, HasExited, OneByOne, Greeting
<1>4. Said'
  <2> SUFFICES ASSUME NEW g \in Hosts PROVE SaidBy(g)'
    BY DEF Said
  <2>1. SaidBy(g) /\ UNCHANGED <<mode, version>> /\ Len(down[g]) \in Nat /\ server[h].pc # "none"
    BY <1>0, <1>n DEF Said, ServerDies
  <2>2. server'[g] = server[g] \/ server'[g].pc = "exit"
    BY <1>e DEF HasExited
  <2>3. CASE down'[g] = down[g]
    BY <2>1, <2>2, <2>3 DEF SaidBy
  <2>4. CASE /\ Len(down'[g]) = Len(down[g]) /\ down'[g][Len(down[g])] = "cut"
             /\ \A i \in 1..(Len(down[g]) - 1) : down'[g][i] = down[g][i]
             /\ g = h
    <3>1. server'[g].pc = "exit"
      BY <1>e, <2>4 DEF HasExited
    <3>2. ASSUME NEW i \in 1..Len(down'[g])
          PROVE  /\ down'[g][i] \in Lines \cup {"nul"}
                 /\ down'[g][i] = "nul" => i = 1 /\ mode = "toremote"
                 /\ down'[g][i] = "P1" => version[g] = 1
      <4>1. i = Len(down[g]) \/ i \in 1..(Len(down[g]) - 1)
        BY <2>1, <2>4
      <4> QED BY <2>1, <2>4, <4>1 DEF SaidBy, Lines
    <3> QED BY <2>1, <3>1, <3>2 DEF SaidBy
  <2> QED BY <1>d, <2>3, <2>4
<1>5. Untold' /\ Answers' /\ Deaths'
  BY <1>0, <1>i, <1>e, <1>d, <1>n DEF Untold, ClientTypes, ServerDies, HasExited, Answers,
       HasAnswered, Unheard, Deaths, OptTypes, ClientPlaces, GhostTypes, OneByOne
<1>6. Unheard' /\ Passed'
  BY <1>0, <1>e, <1>d, <1>i DEF Unheard, ServerDies, HasExited, Passed, Excused, HasAnswered, Kept
<1>7. ExitTellsFailure'
  BY <1>0 DEF ExitTellsFailure, ServerDies, Kept
<1> QED BY <1>1, <1>2, <1>3, <1>4, <1>5, <1>6, <1>7 DEF IInv

LEMMA ConnectionBreaksInv == ASSUME IInv, Kept, NEW h \in Hosts, ConnectionBreaks(h) PROVE IInv'
<1> USE Sizes DEF Sources, Hosts, Host, here, Ended, Exits, Running, optVars, clientVars,
      monitorVars, ghostVars
<1>0. /\ OptTypes /\ ClientTypes /\ MonitorTypes /\ ServerTypes /\ PipeTypes /\ GhostTypes
      /\ ClientPlaces /\ OneByOne /\ Said /\ Greeting /\ Untold /\ Unheard /\ Answers
      /\ Passed /\ Deaths /\ ExitTellsFailure
  BY DEF IInv
<1>i. HasAnswered \/ pc \in {"greet", "port"} => here \in Hosts
  BY <1>0, HereIsHost
<1>1. OptTypes' /\ ClientTypes' /\ MonitorTypes' /\ ServerTypes' /\ PipeTypes' /\ GhostTypes'
  BY <1>0 DEF OptTypes, ConnectionBreaks, ClientTypes, ClientPcs, MonitorTypes, ServerTypes,
       PipeTypes, UpType, DownType, GhostTypes
<1>2. ClientPlaces' /\ OneByOne' /\ Said' /\ Greeting' /\ Untold' /\ Unheard'
  BY <1>0 DEF ClientPlaces, HasAnswered, ConnectionBreaks, OneByOne, Said, SaidBy, Greeting,
       Untold, Unheard
<1>3. Answers'
  BY <1>0 DEF Answers, HasAnswered, ConnectionBreaks, PipeTypes
<1>4. Passed' /\ Deaths'
  <2>1. \A i \in Sources : Excused(i) => Excused(i)'
    BY DEF Excused, Kept, ConnectionBreaks
  <2>2. UNCHANGED <<mode, userOk, pc, at, errs, ssh, server, killed>>
    BY DEF ConnectionBreaks
  <2>3. mode = "tolocal" /\ HasAnswered => at \in Sources
    BY <1>0 DEF HasAnswered, ClientPlaces
  <2>4. HasAnswered' <=> HasAnswered
    BY <2>2 DEF HasAnswered
  <2>5. Deaths'
    BY <1>0, <2>2 DEF Deaths
  <2> HIDE DEF Sources
  <2>6. Passed'
    BY <1>0, <2>1, <2>2, <2>3, <2>4 DEF Passed
  <2> QED BY <2>5, <2>6
<1>5. ExitTellsFailure'
  BY <1>0 DEF ConnectionBreaks, ExitTellsFailure, Kept
<1> QED BY <1>1, <1>2, <1>3, <1>4, <1>5 DEF IInv

LEMMA ServerDataFailsInv ==
  ASSUME IInv, Bonds, Kept, NEW h \in Hosts, ServerDataFails(h)  PROVE IInv'
<1> USE Sizes DEF Sources, Hosts, Host, here, Ended, Running, optVars, clientVars,
      monitorVars, ghostVars
<1>0. /\ OptTypes /\ ClientTypes /\ MonitorTypes /\ ServerTypes /\ PipeTypes /\ GhostTypes
      /\ ClientPlaces /\ OneByOne /\ Said /\ Greeting /\ Untold /\ Unheard /\ Answers
      /\ Passed /\ Deaths /\ ExitTellsFailure
  BY DEF IInv
<1>i. HasAnswered \/ pc \in {"greet", "port"} => here \in Hosts
  BY <1>0, HereIsHost
<1>e. HasExited(h, 1)
  BY <1>0, ExitsIt DEF ServerDataFails
<1>c. pc = "exit" \/ (pc = "data" /\ h = here)
  BY DEF Bonds, DataTogether, ServerDataFails
<1>1. OptTypes' /\ ClientTypes' /\ MonitorTypes' /\ PipeTypes' /\ GhostTypes'
  BY <1>0 DEF OptTypes, ServerDataFails, ClientTypes, ClientPcs, MonitorTypes, PipeTypes,
       UpType, DownType, GhostTypes
<1>2. ServerTypes'
  BY <1>e, ServedTypes
<1>3. ClientPlaces'
  BY <1>0, <1>e DEF ClientPlaces, HasAnswered, ServerDataFails, HasExited
<1>8. ExitTellsFailure'
  BY <1>0 DEF ServerDataFails, ExitTellsFailure, Kept
<1>4. OneByOne' /\ Greeting'
  BY <1>0, <1>e DEF OneByOne, ServerDataFails, HasExited, Greeting
<1>5. Said'
  <2> SUFFICES ASSUME NEW g \in Hosts PROVE SaidBy(g)'
    BY DEF Said
  <2>1. SaidBy(g)
    BY <1>0 DEF Said
  <2> QED BY <1>e, <2>1 DEF SaidBy, ServerDataFails, HasExited, Lines
<1>6. Untold' /\ Answers' /\ Deaths'
  BY <1>0, <1>i, <1>e DEF Untold, ClientTypes, ServerDataFails, HasExited, Answers, HasAnswered,
       Unheard, Deaths, OptTypes, ClientPlaces, GhostTypes, OneByOne
<1>7. Unheard' /\ Passed'
  BY <1>0, <1>e, <1>c DEF Unheard, ServerDataFails, HasExited, Passed, Excused, HasAnswered, Kept
<1> QED BY <1>1, <1>2, <1>3, <1>4, <1>5, <1>6, <1>7, <1>8 DEF IInv

-----------------------------------------------------------------------------
(***************************************************************************)
(* The protocol of a server, its connection, and who is in the contents.   *)
(***************************************************************************)
(* What the servers' own steps leave alone.                                *)
ServerItself(h) ==
    \/ ServerStarts(h) \/ ServerListens(h) \/ ServerVerifies(h) \/ ServerAccepts(h)
    \/ AcceptTimesOut(h) \/ ServerHello(h) \/ ServerHearsError(h) \/ ServerAlone(h)
    \/ ServerDataFails(h) \/ ServerDies(h)

LEMMA ServerKeeps ==
  ASSUME ServerTypes, NEW h \in Hosts, ServerItself(h)
  PROVE  /\ UNCHANGED <<mode, pc, at, udt>>
         /\ \A g \in Hosts : g # h => server'[g] = server[g]
         /\ server[h].pc # "none" /\ server'[h].pc \notin {"none", "start", "data"}
         /\ server'[h].proto = server[h].proto
               \/ (server[h].pc = "verify" /\ server'[h].pc = "accept")
         /\ server'[h].pc \in {"listen", "verify"} => server[h].pc \in {"start", "listen"}
<1> USE DEF optVars, clientVars, monitorVars, ghostVars
<1>1. server \in [Hosts -> Server] /\ server[h] \in Server
  BY DEF ServerTypes
<1>2. CASE ServerStarts(h) \/ ServerListens(h)
  <2>1. HasServed(h, "listen") \/ HasServed(h, "verify") \/ HasExited(h, 1)
    BY <1>2, ServesIt, ExitsIt DEF ServerStarts, ServerListens, ServerPcs
  <2>2. server[h].pc \in {"start", "listen"} /\ UNCHANGED <<mode, pc, at, udt>>
    BY <1>2 DEF ServerStarts, ServerListens
  <2> QED BY <2>1, <2>2 DEF HasServed, HasExited
<1>3. CASE ServerVerifies(h)
  <2>1. CASE ServerExits(h, 1)
    BY <1>3, <2>1, ExitsIt DEF HasExited, ServerVerifies
  <2>2. CASE server' = [server EXCEPT ![h] = [@ EXCEPT
                            !.pc = "accept", !.proto = Answer(Head(up[h]))]]
    BY <1>1, <1>3, <2>2 DEF Server, ServerPcs, ServerVerifies
  <2> QED BY <1>3, <2>1, <2>2 DEF ServerVerifies
<1>4. CASE ServerAccepts(h)
  BY <1>4, ServesIt DEF ServerAccepts, HasServed, ServerPcs
<1>5. CASE ServerHello(h)
  BY <1>1, <1>5 DEF Server, ServerPcs, ServerHello
<1>6. CASE ServerHearsError(h)
  BY <1>1, <1>6 DEF Server, ServerPcs, ServerHearsError
<1>7. CASE AcceptTimesOut(h) \/ ServerAlone(h) \/ ServerDataFails(h) \/ ServerDies(h)
  <2>1. \E status \in {0, 1} : ServerExits(h, status)
    BY <1>7 DEF AcceptTimesOut, ServerAlone, ServerDataFails, ServerDies
  <2>2. server[h].pc # "none" /\ UNCHANGED <<mode, pc, at, udt>>
    BY <1>7 DEF AcceptTimesOut, ServerAlone, ServerDataFails, ServerDies
  <2> QED BY <2>1, <2>2, ExitsIt DEF HasExited
<1> QED BY <1>2, <1>3, <1>4, <1>5, <1>6, <1>7 DEF ServerItself

(* The steps of the client that touch no server and no connection.         *)
ClientItself ==
    \/ UserRefused \/ LocalCopy \/ NextSource \/ Greeted \/ ReadPort \/ TalksTooEarly
    \/ DataMoves \/ DataFails \/ ServerGone \/ LastSource \/ MainEnds \/ SshReaped
    \/ MonitorSends \/ MonitorReceives \/ ClientDies \/ UNCHANGED vars

LEMMA ClientKeeps ==
  ASSUME ClientPlaces, ClientItself
  PROVE  /\ UNCHANGED <<mode, server, udt>>
         /\ pc' \in {"greet", "port", "connect"} =>
               at' = at /\ pc \in {"greet", "port", "connect"}
         /\ pc = "exit" => pc' = "exit"
         /\ pc = "data" => pc' = "exit" \/ (pc' = "data" /\ at' = at)
<1> USE DEF optVars, clientVars, monitorVars, ghostVars, Exits
<1>1. CASE UserRefused \/ LocalCopy \/ NextSource \/ Greeted
  BY <1>1 DEF UserRefused, LocalCopy, NextSource, Greeted
<1>2. CASE ReadPort \/ TalksTooEarly \/ DataMoves \/ DataFails
  BY <1>2 DEF ReadPort, TalksTooEarly, DataMoves, DataFails
<1>3. CASE ServerGone
  BY <1>3 DEF ServerGone
<1>4. CASE LastSource \/ MainEnds \/ SshReaped \/ ClientDies \/ UNCHANGED vars
  BY <1>4 DEF LastSource, MainEnds, SshReaped, ClientDies, vars, ClientPlaces
<1>5. CASE MonitorSends \/ MonitorReceives
  BY <1>5 DEF MonitorSends, MonitorReceives, Second
<1> QED BY <1>1, <1>2, <1>3, <1>4, <1>5 DEF ClientItself

(* What the steps do that go from one source to the next.                  *)
LEMMA SourceKeeps ==
  ASSUME ServerTypes, here \in Hosts, SourceRefused \/ SourceUncopied \/ DataEnds
  PROVE  /\ UNCHANGED <<mode, udt>> /\ pc' \notin {"greet", "port", "connect"}
         /\ \A g \in Hosts : g # here => server'[g] = server[g]
         /\ server'[here].pc \in {"talk", "exit"} /\ server'[here].proto = server[here].proto
         /\ server[here].pc \in {"talk", "data"} /\ pc \in {"talk", "data"}
<1> USE DEF optVars, clientVars, monitorVars, ghostVars, Exits
<1>1. server \in [Hosts -> Server] /\ server[here] \in Server
  BY DEF ServerTypes
<1> HIDE DEF here
<1>2. CASE SourceRefused
  BY <1>1, <1>2 DEF Server, SourceRefused, InTalk, AfterSource
<1>3. CASE SourceUncopied
  <2>1. CASE AfterSource(FALSE)
    BY <1>1, <1>3, <2>1 DEF Server, SourceUncopied, InTalk, AfterSource
  <2>2. CASE server' = [server EXCEPT ![here] = [@ EXCEPT !.pc = "exit", !.code = 1]]
            /\ pc' = pc
    BY <1>1, <1>3, <2>2 DEF Server, SourceUncopied, InTalk
  <2> QED BY <1>3, <2>1, <2>2 DEF SourceUncopied
<1>4. CASE DataEnds
  BY <1>1, <1>4 DEF Server, DataEnds, AfterSource
<1> QED BY <1>2, <1>3, <1>4

(* Every step keeps Bonds: nothing is connected before the server listens. *)
LEMMA BondsInv == ASSUME IInv, Bonds, [Next]_vars PROVE Bonds'
<1> USE Sizes DEF Sources, Hosts, Host, here, optVars, clientVars, monitorVars, ghostVars
<1>0. /\ OptTypes /\ ClientTypes /\ ServerTypes /\ PipeTypes /\ ClientPlaces /\ OneByOne
      /\ Fresh /\ Unconnected /\ DataTogether
  BY DEF IInv, Bonds
<1>t. /\ server \in [Hosts -> Server] /\ udt \in [Hosts -> {"no", "half", "up", "broken"}]
      /\ at \in 1..(N + 1) /\ mode \in {"toremote", "tolocal"}
  BY <1>0 DEF ServerTypes, PipeTypes, ClientTypes, OptTypes
<1>1. ASSUME NEW h \in Hosts, ServerItself(h) PROVE Bonds'
  BY <1>0, <1>1, ServerKeeps DEF Bonds, Fresh, Unconnected, DataTogether
<1>2. ASSUME NEW h \in Hosts, ConnectionBreaks(h) PROVE Bonds'
  BY <1>0, <1>t, <1>2 DEF Bonds, Fresh, Unconnected, DataTogether, ConnectionBreaks
<1>3. CASE DoCmd
  <2>1. here \in Hosts
    BY <1>t, <1>3 DEF DoCmd
  <2>2. HasServed(here, "start")
    BY <1>0, <1>3, <2>1, ServesIt DEF DoCmd, ServerPcs
  <2>3. pc = "next" /\ server[here].pc = "none" /\ pc' \in {"greet", "port"}
        /\ UNCHANGED <<mode, at, udt>>
    BY <1>3 DEF DoCmd
  <2>4. \A g \in Hosts : server[g].pc # "data"
    BY <1>0, <2>3 DEF DataTogether
  <2> HIDE DEF Host, Hosts, here
  <2>5. here' = here
    BY <2>3 DEF here, Host
  <2> QED BY <1>0, <2>1, <2>2, <2>3, <2>4, <2>5 DEF Bonds, Fresh, Unconnected, DataTogether,
        HasServed
<1>4. CASE Connects \/ ConnectFails
  <2>1. here \in Hosts /\ pc = "connect" /\ pc' \notin {"greet", "port", "connect", "data"}
        /\ UNCHANGED <<mode, at, server>>
    BY <1>0, <1>t, <1>4 DEF ClientPlaces, Connects, ConnectFails, RunErr, Exits
  <2>2. \A h \in Hosts : udt'[h] = udt[h] \/ server[h].pc # "none"
    BY <1>t, <1>4, <2>1 DEF Connects, ConnectFails, Listening
  <2>3. \A h \in Hosts : server[h].pc # "data"
    BY <1>0, <2>1 DEF DataTogether
  <2> QED BY <1>0, <2>1, <2>2, <2>3 DEF Bonds, Fresh, Unconnected, DataTogether
<1>5. CASE SourceRefused \/ SourceUncopied \/ DataEnds
  <2>1. here \in Hosts
    <3>1. pc \in {"talk", "data"}
      BY <1>5 DEF SourceRefused, SourceUncopied, DataEnds, InTalk
    <3>2. at \in Sources
      BY <1>0, <3>1 DEF ClientPlaces
    <3> QED BY <1>t, <3>2
  <2>2. \A g \in Hosts : g # here => server[g].pc # "data"
    BY <1>0, <1>5, <2>1, SourceKeeps DEF DataTogether
  <2> HIDE DEF here, Host, Hosts
  <2>3. Fresh' /\ DataTogether' /\ Unconnected'
    BY <1>0, <1>5, <2>1, <2>2, SourceKeeps DEF Fresh, DataTogether, Unconnected
  <2> QED BY <2>3 DEF Bonds
<1>6. CASE DataStarts
  <2>1. here \in Hosts
    BY <1>0, <1>t, <1>6 DEF ClientPlaces, DataStarts, InTalk
  <2> QED BY <1>0, <1>t, <1>6, <2>1 DEF Bonds, Fresh, Unconnected, DataTogether, DataStarts,
        InTalk, Serves, Server
<1>7. CASE ClientItself
  BY <1>0, <1>7, ClientKeeps DEF Bonds, Fresh, Unconnected, DataTogether
<1> QED BY <1>1, <1>2, <1>3, <1>4, <1>5, <1>6, <1>7 DEF Next, ServerItself, ClientItself

(* No step mends a broken connection, or changes the protocol on it: it    *)
(* was chosen before the connection was made.                              *)
LEMMA KeptByAll == ASSUME IInv, Bonds, [Next]_vars PROVE Kept
<1> USE Sizes DEF Sources, Hosts, Host, here, optVars, clientVars, monitorVars, ghostVars
<1>0. /\ OptTypes /\ ClientTypes /\ ServerTypes /\ PipeTypes /\ ClientPlaces
      /\ Fresh /\ Unconnected
  BY DEF IInv, Bonds
<1>t. /\ server \in [Hosts -> Server] /\ udt \in [Hosts -> {"no", "half", "up", "broken"}]
      /\ at \in 1..(N + 1) /\ mode \in {"toremote", "tolocal"}
  BY <1>0 DEF ServerTypes, PipeTypes, ClientTypes, OptTypes
<1> DEFINE Fell(g) == server[g].proto = 0 /\ udt[g] = "broken"
<1>r. ASSUME mode' = mode,
             \A g \in Hosts : Fell(g) => server'[g].proto = 0 /\ udt'[g] = "broken"
      PROVE  Kept
  <2> SUFFICES ASSUME NEW i \in Sources, Dropped(i) PROVE Dropped(i)'
    BY DEF Kept
  <2>1. Host(i) \in Hosts /\ Host(i)' = Host(i)
    BY <1>r
  <2>2. Fell(Host(i))
    BY DEF Dropped, Broken
  <2> HIDE DEF Host, Hosts
  <2> QED BY <1>r, <2>1, <2>2 DEF Dropped, Broken
<1>1. ASSUME NEW h \in Hosts, ServerItself(h) PROVE Kept
  <2>1. server[h].pc = "verify" => ~Fell(h)
    BY <1>0 DEF Fresh
  <2> QED BY <1>0, <1>r, <1>1, <2>1, ServerKeeps
<1>2. ASSUME NEW h \in Hosts, ConnectionBreaks(h) PROVE Kept
  BY <1>r, <1>t, <1>2 DEF ConnectionBreaks
<1>3. CASE Connects \/ ConnectFails
  <2>1. UNCHANGED <<mode, server>> /\ \A g \in Hosts : udt'[g] = udt[g] \/ g = here
    BY <1>t, <1>3 DEF Connects, ConnectFails
  <2>2. ~Fell(here)
    BY <1>0, <1>3 DEF Unconnected, Connects, ConnectFails
  <2> QED BY <1>r, <2>1, <2>2
<1>4. CASE SourceRefused \/ SourceUncopied \/ DataEnds
  <2>1. here \in Hosts
    <3>1. pc \in {"talk", "data"}
      BY <1>4 DEF SourceRefused, SourceUncopied, DataEnds, InTalk
    <3>2. at \in Sources
      BY <1>0, <3>1 DEF ClientPlaces
    <3> QED BY <1>t, <3>2
  <2> HIDE DEF here, Host, Hosts
  <2> QED BY <1>0, <1>r, <1>4, <2>1, SourceKeeps
<1>5. CASE DataStarts \/ DoCmd
  <2>1. UNCHANGED <<mode, udt>>
    BY <1>5 DEF DataStarts, DoCmd
  <2>3. here \in Hosts
    BY <1>0, <1>t, <1>5 DEF ClientPlaces, DataStarts, DoCmd, InTalk
  <2>2. \A g \in Hosts : server'[g].proto = server[g].proto
    BY <1>0, <1>t, <1>5, <2>3, ServesIt DEF DataStarts, DoCmd, HasServed, ServerPcs
  <2> QED BY <1>r, <2>1, <2>2
<1>6. CASE ClientItself
  BY <1>0, <1>r, <1>6, ClientKeeps
<1> QED BY <1>1, <1>2, <1>3, <1>4, <1>5, <1>6 DEF Next, ServerItself, ClientItself

-----------------------------------------------------------------------------
(***************************************************************************)
(* The theorems.                                                           *)
(***************************************************************************)
LEMMA InitInv == ASSUME Init PROVE IInv /\ Bonds
<1> USE Sizes DEF Init, Sources, Hosts, Running
<1>1. OptTypes /\ GhostTypes /\ OneByOne
  <2>1. userOk \in BOOLEAN
    OBVIOUS
  <2> QED BY <2>1 DEF OptTypes, GhostTypes, OneByOne
<1>2. ClientTypes
  <2>1. 1 \in 1..(N + 1) /\ 0 \in 0..N /\ 1 \in 0..2
    OBVIOUS
  <2> QED BY <2>1 DEF ClientTypes, ClientPcs
<1>8. MonitorTypes
  BY DEF MonitorTypes
<1>3. ServerTypes
  BY DEF ServerTypes, Server, ServerPcs
<1>4. PipeTypes
  BY DEF PipeTypes, UpType, DownType
<1>5. ~HasAnswered
  BY DEF HasAnswered
<1>6. ClientPlaces /\ Unheard /\ Answers /\ Passed /\ Deaths /\ ExitTellsFailure
  BY <1>5 DEF ClientPlaces, Unheard, Answers, Passed, Deaths, ExitTellsFailure
<1>7. Said /\ Greeting /\ Untold
  BY DEF Said, SaidBy, Greeting, Untold
<1>9. Bonds
  BY DEF Bonds, Fresh, Unconnected, DataTogether, here, Host
<1> QED BY <1>1, <1>2, <1>3, <1>4, <1>6, <1>7, <1>8, <1>9 DEF IInv

LEMMA StutterInv == ASSUME IInv, UNCHANGED vars PROVE IInv'
<1> USE DEF vars, optVars, clientVars, monitorVars, ghostVars, Host, here, Ended
<1>1. OptTypes' /\ ClientTypes' /\ MonitorTypes' /\ ServerTypes' /\ PipeTypes' /\ GhostTypes'
  BY DEF IInv, OptTypes, ClientTypes, MonitorTypes, ServerTypes, PipeTypes, UpType,
       DownType, GhostTypes
<1>2. ClientPlaces' /\ OneByOne' /\ Said' /\ Greeting' /\ Untold'
  BY DEF IInv, ClientPlaces, HasAnswered, OneByOne, Said, SaidBy, Greeting, Untold
<1>3. Unheard' /\ Answers' /\ Passed' /\ Deaths' /\ ExitTellsFailure'
  BY DEF IInv, Unheard, Answers, HasAnswered, Passed, Excused, Deaths, ExitTellsFailure,
       Dropped, Broken
<1> QED BY <1>1, <1>2, <1>3 DEF IInv

LEMMA NextInv == ASSUME IInv, Bonds, [Next]_vars PROVE IInv' /\ Bonds'
<1>0. Kept
  BY KeptByAll
<1>1. ASSUME NEW h \in Hosts,
             \/ ServerStarts(h) \/ ServerListens(h) \/ ServerVerifies(h) \/ ServerAccepts(h)
             \/ AcceptTimesOut(h) \/ ServerHello(h) \/ ServerHearsError(h) \/ ServerAlone(h)
             \/ ServerDataFails(h) \/ ServerDies(h) \/ ConnectionBreaks(h)
      PROVE  IInv'
  BY <1>0, <1>1, ServerStartsInv, ServerListensInv, ServerVerifiesInv, ServerAcceptsInv,
       AcceptTimesOutInv, ServerHelloInv, ServerHearsErrorInv, ServerAloneInv, ServerDiesInv,
       ServerDataFailsInv, ConnectionBreaksInv
<1>2. ASSUME \/ UserRefused \/ DoCmd \/ LocalCopy \/ NextSource \/ Greeted \/ ReadPort
             \/ Connects \/ ConnectFails \/ TalksTooEarly
      PROVE  IInv'
  BY <1>0, <1>2, UserRefusedInv, DoCmdInv, LocalCopyInv, NextSourceInv, GreetedInv, ReadPortInv, ConnectsInv,
       ConnectFailsInv, TalksTooEarlyInv
<1>3. ASSUME \/ SourceRefused \/ SourceUncopied \/ DataStarts \/ DataMoves \/ DataEnds
             \/ DataFails \/ ServerGone
             \/ LastSource \/ MainEnds \/ SshReaped \/ ClientDies
      PROVE  IInv'
  BY <1>0, <1>3, SourceRefusedInv, SourceUncopiedInv, DataFailsInv, DataStartsInv, DataMovesInv, DataEndsInv, ServerGoneInv,
       LastSourceInv, MainEndsInv, SshReapedInv, ClientDiesInv
<1>4. ASSUME MonitorSends \/ MonitorReceives PROVE IInv'
  BY <1>0, <1>4, SecondInv DEF MonitorSends, MonitorReceives
<1> QED BY <1>1, <1>2, <1>3, <1>4, StutterInv, BondsInv DEF Next

(* The inductive invariant: what either side has said and has heard, and   *)
(* what is known of the sources passed and of the servers that died, holds *)
(* of every state of the command, for any number of sources.               *)
THEOREM Invariance == Spec => [](IInv /\ Bonds)
<1>1. Init => IInv /\ Bonds
  BY InitInv
<1>2. IInv /\ Bonds /\ [Next]_vars => (IInv /\ Bonds)'
  BY NextInv
<1> QED BY <1>1, <1>2, PTL DEF Spec

(* Every variable keeps its range.                                         *)
THEOREM TypeCorrect == Spec => []TypeOK
<1>1. IInv => TypeOK
  <2> SUFFICES ASSUME IInv PROVE TypeOK
    OBVIOUS
  <2>1. \A h \in Hosts : up[h] \in Seq(Words) /\ down[h] \in Seq(Words)
    BY DEF IInv, PipeTypes, UpType, DownType
  <2>2. \A h \in Hosts : \A n \in 1..Len(up[h]) : up[h][n] \in Words
    BY <2>1
  <2>3. \A h \in Hosts : \A n \in 1..Len(down[h]) : down[h][n] \in Words
    BY <2>1
  <2>4. OptTypes /\ ClientTypes /\ MonitorTypes /\ ServerTypes /\ PipeTypes /\ GhostTypes
    BY DEF IInv
  <2> QED BY <2>2, <2>3, <2>4 DEF TypeOK, OptTypes, ClientTypes, ClientPcs, MonitorTypes, ServerTypes,
       Server, ServerPcs, PipeTypes, GhostTypes
<1> QED BY <1>1, Invariance, PTL

(* Client and server agree on the protocol while they talk: the server has *)
(* taken the answer of the client, whatever dies, whoever is older.        *)
THEOREM ProtocolsAgree == Spec => []ProtocolAgreed
<1>1. IInv => ProtocolAgreed
  <2> SUFFICES ASSUME IInv, NEW h \in Hosts, pc \in {"talk", "data"}, h = here,
                      server[h].pc \in {"hello", "talk", "data"}, ~misread
               PROVE  proto = server[h].proto
    BY DEF ProtocolAgreed
  <2>1. Answers /\ HasAnswered
    BY DEF IInv, HasAnswered
  <2> QED BY <2>1 DEF Answers
<1> QED BY <1>1, Invariance, PTL

(* hscp exits with 0 only when every source was copied, but for what it    *)
(* does not tell: a user's name that toremote refuses, a connection of     *)
(* protocol 0 that broke, a server of tolocal that died before the last    *)
(* one was started, a number misread behind the line of an older server.   *)
THEOREM StatusTellsFailure == Spec => []ExitTellsFailure
<1>1. IInv => ExitTellsFailure
  BY DEF IInv
<1> QED BY <1>1, Invariance, PTL

=============================================================================
