-------------------------- MODULE UdtConnectProofs --------------------------
(***************************************************************************)
(* Proofs about the server's sockets, for any number of clients, calls of  *)
(* connect and sockets: the multiplexer counts the sockets that share it,  *)
(* a request gets one connection however often it arrives, and nothing is  *)
(* deleted that a thread still follows.                                    *)
(***************************************************************************)
EXTENDS UdtConnect, FiniteSetTheorems, TLAPS

(* The program has neither ended nor called cleanup.                       *)
Serving == Running /\ app.pc # "cleanup"

WorkerPcs == {"idle", "listen", "find", "make", "publish", "queue", "release"}
AppPcs == {"accept", "got", "close", "unlisten", "unmap", "up", "recv", "bye",
           "cleanup", "end", "exit", "crash"}
Client == [pc : {"idle", "wait", "up", "failed", "gone"}, isn : 0..Attempts,
           entries : 0..Attempts, buf : Msg, peer : Sockets,
           err : {"no", "rejected", "security", "timeout"}]

SocketTypes == sock \in [Sockets -> Socket]
SetTypes ==
    /\ queued \subseteq Made /\ accepted \subseteq Made /\ listening \in BOOLEAN
    /\ newest \in 0..MaxSockets /\ refs \in Int /\ tidy \in Tidy
ThreadTypes ==
    /\ worker \in [pc : WorkerPcs, msg : Msg, sock : Sockets]
    /\ app \in [pc : AppPcs, sock : Sockets]
    /\ gc \in {"run", "close", "join", "drain", "done"}
Enlisted(r) == r.entries <= r.isn /\ (r.pc = "wait" => r.entries > 0)
ClientTypes ==
    /\ cl \in [Clients -> Client]
    /\ \A c \in Clients : Enlisted(cl[c])
    /\ net \subseteq Msg

(* A socket that shares the multiplexer.                                   *)
Exists(s) == sock[s].where \notin {"none", "gone"}

(* Sockets are made in order, and the worker has room for the one that it  *)
(* has been asked for.                                                     *)
Born ==
    /\ \A s \in Made : sock[s].where = "none" <=> s > newest
    /\ \A s \in queued \cup accepted \cup {app.sock} : s <= newest
    /\ worker.pc \in {"listen", "find", "make"} =>
          worker.sock = Listener /\ (worker.msg.val = 1 => newest < MaxSockets)
    /\ worker.pc \in {"find", "make"} => worker.msg.val = 1
    /\ worker.pc \in {"publish", "queue", "release"} => worker.sock \in Made
    /\ worker.pc \in {"publish", "queue"} =>
          worker.sock \notin queued \cup accepted \cup {app.sock} /\ worker.sock <= newest
    /\ app.pc \in {"got", "close", "unlisten", "unmap", "up", "recv", "bye"} =>
          app.sock \in Made

(* What is true of a socket by itself.                                     *)
Sane(s) ==
    /\ sock[s].listed # "no" => sock[s].onList /\ Exists(s)
    /\ sock[s].where \notin {"loose", "open"} => ~Live(s)
    /\ sock[s].old => sock[s].where = "closed"
    /\ sock[s].where = "loose" => worker.pc = "publish" /\ worker.sock = s
EachSane == \A s \in Sockets : Sane(s)

(* The listener is never a connection; while the worker is in newConnection*)
(* it is still in the queue's m_pListener.                                 *)
ListenerSane ==
    /\ sock[Listener].where \in {"open", "closed", "gone"}
    /\ ~sock[Listener].connected /\ ~sock[Listener].broken /\ sock[Listener].listed = "no"
    /\ listening => sock[Listener].where = "open"
    /\ ~listening => sock[Listener].closing \/ Gone(Listener)
    /\ Connecting => listening

(* The sockets that newConnection looks through, and the one it makes.     *)
InMaking(s) == worker.pc \in {"publish", "queue"} /\ worker.sock = s
Tracked(s) == s \in queued \cup accepted \/ InMaking(s)

(* Every connection that stands is found, and no two answer the same       *)
(* request.                                                                *)
LiveAreTracked == \A s \in Made : Live(s) => Tracked(s)
Stands(s) == Tracked(s) /\ sock[s].where \in {"loose", "open"}
NoTwins ==
    \A s, t \in Made :
        /\ Stands(s) /\ Stands(t)
        /\ sock[s].client = sock[t].client /\ sock[s].isn = sock[t].isn
        => s = t
NoneAnswers ==
    worker.pc = "make" =>
        \A s \in queued \cup accepted :
            sock[s].where = "open" => ~SamePeerSameRequest(s, worker.msg)
Unique == LiveAreTracked /\ NoTwins /\ NoneAnswers

(* A socket that a thread is inside, and will not become old.              *)
Held(s) == sock[s].where \in {"open", "closed"} /\ ~sock[s].old

(* What each thread may rely on of the socket it is inside: before cleanup *)
(* the collector does not delete it.                                       *)
PublishesLoose ==
    worker.pc = "publish" => sock[worker.sock].where = "loose" /\ Live(worker.sock)
CleanupBegun == gc \in {"close", "drain", "done"} => ~Serving
WorkerInside ==
    /\ worker.pc = "queue" => sock[worker.sock].where = "open" /\ Live(worker.sock)
    /\ worker.pc = "release" => Held(worker.sock) /\ ~Live(worker.sock)
    /\ worker.pc = "listen" => Held(Listener)
ProgramInside ==
    /\ ~tidy \/ app.pc \in {"accept", "got", "close", "unlisten", "unmap"} =>
          sock[Listener].where = "open"
    /\ app.pc \in {"close", "unlisten", "unmap"} => tidy
    /\ app.pc = "unlisten" => sock[Listener].closing
    /\ app.pc = "unmap" => ~listening
    /\ app.pc \in {"recv", "bye"} => Held(app.sock)
    /\ app.pc = "bye" => sock[app.sock].closing
Followed == PublishesLoose /\ CleanupBegun /\ (Serving => WorkerInside /\ ProgramInside)

IInv ==
    /\ SocketTypes /\ SetTypes /\ ThreadTypes /\ ClientTypes
    /\ Born /\ RefCountIsSockets /\ EachSane /\ ListenerSane /\ Unique /\ Followed

-----------------------------------------------------------------------------
(***************************************************************************)
(* What the proofs keep needing.                                           *)
(***************************************************************************)

(* One socket is changed.                                                  *)
LEMMA OneSocket ==
  ASSUME SocketTypes, NEW s \in Sockets, NEW R \in Socket, sock' = [sock EXCEPT ![s] = R]
  PROVE  SocketTypes' /\ sock'[s] = R /\ \A t \in Sockets : t # s => sock'[t] = sock[t]
BY DEF SocketTypes

(* The initial records have their types.                                   *)
LEMMA Records ==
  /\ Unmade \in Socket /\ NoMsg \in Msg
  /\ Listener \in Sockets /\ Made \subseteq Sockets /\ Listener \notin Made
  /\ \A s \in Sockets : s \in Int /\ 0 <= s /\ s <= MaxSockets
  /\ \A s : s \in Made <=> s \in Int /\ 1 <= s /\ s <= MaxSockets
BY ConnectAssumption DEF ConnectAssumption, Unmade, Socket, NoMsg, Msg, Listener,
   Sockets, Made

LEMMA FiniteSockets == IsFiniteSet(Sockets) /\ Cardinality(Sockets) = MaxSockets + 1
<1>1. Sockets = 0..MaxSockets
  BY ConnectAssumption DEF ConnectAssumption, Sockets, Made, Listener
<1>2. 0 \in Int /\ MaxSockets \in Int /\ ~(0 > MaxSockets)
  BY ConnectAssumption DEF ConnectAssumption
<1> QED BY <1>1, <1>2, FS_Interval

(* The count stays right when no socket comes or goes.                     *)
LEMMA SameCount ==
  ASSUME RefCountIsSockets, refs' = refs,
         \A s \in Sockets : sock'[s].where \in {"none", "gone"}
                             <=> sock[s].where \in {"none", "gone"}
  PROVE  RefCountIsSockets'
<1>1. {s \in Sockets : sock'[s].where \notin {"none", "gone"}}
        = {s \in Sockets : sock[s].where \notin {"none", "gone"}}
  OBVIOUS
<1> QED BY <1>1 DEF RefCountIsSockets

(* The collector and accept take the newest socket of a set.               *)
Before == {ss \in Nat \X Nat : ss[1] < ss[2]}

LEMMA BeforeIsWellFounded == IsWellFoundedOn(Before, Nat)
<1>1. OpToRel(<, Nat) = Before
  BY DEF OpToRel, Before
<1> QED BY <1>1, NatLessThanWellFounded, Zenon

LEMMA NewestIsIn ==
  ASSUME NEW S \in SUBSET Sockets, S # {}
  PROVE  Newest(S) \in S /\ \A t \in S : Newest(S) >= t
<1> DEFINE Back == {MaxSockets - s : s \in S}
<1>1. \A s \in S : s \in Int /\ 0 <= s /\ s <= MaxSockets
  BY Records
<1>2. Back \subseteq Nat /\ Back # {}
  BY <1>1, ConnectAssumption DEF ConnectAssumption
<1>3. PICK b \in Back : \A d \in Back : ~ (<<d, b>> \in Before)
  <2> HIDE DEF Back
  <2> QED BY <1>2, BeforeIsWellFounded, WFMin
<1>4. PICK s \in S : b = MaxSockets - s
  BY <1>3
<1>5. ASSUME NEW t \in S PROVE s >= t
  <2>1. MaxSockets - t \in Back /\ MaxSockets - t \in Nat /\ b \in Nat
    BY <1>2, <1>3
  <2>2. ~ (MaxSockets - t < b)
    BY <1>3, <2>1 DEF Before
  <2> QED BY <1>1, <1>4, <2>2, ConnectAssumption DEF ConnectAssumption
<1> QED BY <1>5 DEF Newest

-----------------------------------------------------------------------------
(***************************************************************************)
(* The clients: they change their own record and send messages.            *)
(***************************************************************************)

LEMMA Messages ==
  /\ \A c \in Clients, i \in 0..Attempts, b \in BOOLEAN : Request(c, i, b) \in Msg
  /\ \A c \in Clients \cup {None}, i \in 0..Attempts, v \in Sockets :
       \A what \in {"cookie", "accepted", "refused"} : Answer(c, i, what, v) \in Msg
  /\ \A c \in Clients \cup {None} \cup Sockets : Shutdown(c) \in Msg
BY ConnectAssumption, Records
DEF ConnectAssumption, Request, Answer, Shutdown, Msg, Sockets, Made, Listener

LEMMA ClientStep ==
  ASSUME IInv, NEW c \in Clients, NEW r \in Client, Enlisted(r),
         cl' = [cl EXCEPT ![c] = r], net' \subseteq Msg,
         UNCHANGED <<sock, queued, accepted, listening, newest, refs, tidy, worker, app, gc>>
  PROVE  IInv'
<1>1. SocketTypes' /\ SetTypes' /\ ThreadTypes' /\ Born' /\ RefCountIsSockets'
  BY DEF IInv, SocketTypes, SetTypes, ThreadTypes, Born, RefCountIsSockets
<1>2. EachSane' /\ ListenerSane' /\ Unique'
  BY DEF IInv, EachSane, Sane, Exists, Live, ListenerSane, Gone, Connecting, Unique,
     LiveAreTracked, NoTwins,
     NoneAnswers, Stands, Tracked, InMaking, SamePeerSameRequest
<1>3. Followed'
  BY DEF IInv, Followed, PublishesLoose, CleanupBegun, WorkerInside, ProgramInside,
       Live, Held, Serving, Running
<1>4. ClientTypes'
  BY DEF IInv, ClientTypes
<1> QED BY <1>1, <1>2, <1>3, <1>4 DEF IInv

(* What a client's record may become.                                      *)
LEMMA ClientRecords ==
  ASSUME IInv, NEW c \in Clients
  PROVE  /\ cl[c] \in Client /\ Enlisted(cl[c]) /\ cl[c].buf \in Msg
         /\ cl[c].isn \in 0..Attempts /\ cl[c].entries \in 0..Attempts /\ cl[c].peer \in Sockets
         /\ net \subseteq Msg
<1>1. cl[c] \in Client /\ Enlisted(cl[c]) /\ net \subseteq Msg
  BY DEF IInv, ClientTypes
<1> QED BY <1>1 DEF Client

LEMMA ConnectStep ==
  ASSUME IInv, NEW c \in Clients, Connect(c)
  PROVE  IInv'
<1> DEFINE r == [Enrolled(cl[c]) EXCEPT !.pc = "wait", !.isn = @ + 1, !.err = "no"]
<1>1. /\ cl[c].isn < Attempts /\ cl' = [cl EXCEPT ![c] = r]
      /\ net' = net \cup {Request(c, r.isn, FALSE)}
      /\ UNCHANGED <<sock, queued, accepted, listening, newest, refs, tidy, worker, app, gc>>
  BY DEF Connect, Set, Send, serverVars
<1>2. /\ r \in Client /\ Enlisted(r) /\ r.isn \in 0..Attempts
  <2>1. /\ cl[c].isn \in Int /\ 0 <= cl[c].isn /\ cl[c].isn + 1 <= Attempts
        /\ cl[c].entries \in Int /\ 0 <= cl[c].entries /\ cl[c].entries <= cl[c].isn
    BY <1>1, ClientRecords, ConnectAssumption DEF ConnectAssumption, Enlisted
  <2>2. r.isn = cl[c].isn + 1 /\ r.entries = cl[c].entries + 1 /\ r.pc = "wait"
    BY ClientRecords DEF Client, Enrolled
  <2>3. cl[c].isn + 1 \in 0..Attempts /\ cl[c].entries + 1 \in 0..Attempts
    BY <2>1, ConnectAssumption DEF ConnectAssumption
  <2>4. Enrolled(cl[c]) \in Client /\ Enrolled(cl[c]).isn = cl[c].isn
    BY <2>3, ClientRecords DEF Client, Enrolled
  <2>5. r \in Client
    <3> DEFINE e == Enrolled(cl[c])
    <3>1. e \in Client /\ e.isn + 1 \in 0..Attempts
      BY <2>3, <2>4
    <3>2. r = [e EXCEPT !.pc = "wait", !.isn = @ + 1, !.err = "no"]
      OBVIOUS
    <3> HIDE DEF e, r
    <3> QED BY <3>1, <3>2 DEF Client
  <2>6. Enlisted(r)
    BY <2>1, <2>2 DEF Enlisted
  <2> QED BY <2>2, <2>3, <2>5, <2>6
<1>3. net' \subseteq Msg
  BY <1>1, <1>2, Messages, ClientRecords
<1> HIDE DEF r
<1> QED BY <1>1, <1>2, <1>3, ClientStep

LEMMA TakenIsClient ==
  ASSUME IInv, NEW c \in Clients
  PROVE  /\ Taken(cl[c]) \in Client /\ Enlisted(Taken(cl[c]))
         /\ Taken(cl[c]).isn = cl[c].isn
BY ClientRecords, Records DEF Client, Taken, Enlisted

LEMMA FailsIsClient ==
  ASSUME NEW r \in Client, Enlisted(r), NEW why \in {"rejected", "security", "timeout"},
         NEW more
  PROVE  Fails(r, why, more) \in Client /\ Enlisted(Fails(r, why, more))
BY DEF Client, Fails, Enlisted

LEMMA ClientReceivesStep ==
  ASSUME IInv, NEW c \in Clients, ClientReceives(c)
  PROVE  IInv'
<1> DEFINE m == cl[c].buf
           r == Taken(cl[c])
           a == AfterAnswer(r, m)
<1>1. /\ UNCHANGED <<sock, queued, accepted, listening, newest, refs, tidy, worker, app, gc>>
      /\ \/ cl' = [cl EXCEPT ![c] = r] /\ net' = net \cup {Request(c, r.isn, TRUE)}
         \/ cl' = [cl EXCEPT ![c] = a] /\ net' = net
         \/ cl' = [cl EXCEPT ![c] = r] /\ net' = net
  BY DEF ClientReceives, Set, Send, serverVars
<1>2. /\ r \in Client /\ Enlisted(r) /\ r.isn \in 0..Attempts /\ m \in Msg
  BY TakenIsClient, ClientRecords
<1>5. r.entries \in 0..Attempts /\ r.entries > 0
  BY ClientRecords DEF ClientReceives, Taken, Enlisted, Client
<1>3. Request(c, r.isn, TRUE) \in Msg /\ net \subseteq Msg
  BY <1>2, Messages, ClientRecords
<1>4. a \in Client /\ Enlisted(a)
  <2> HIDE DEF r, m
  <2>1. Fails(r, "rejected", r.isn < Attempts) \in Client
        /\ Enlisted(Fails(r, "rejected", r.isn < Attempts))
    BY <1>2, FailsIsClient
  <2>2. Fails(r, "security", r.isn < Attempts) \in Client
        /\ Enlisted(Fails(r, "security", r.isn < Attempts))
    BY <1>2, FailsIsClient
  <2>3. m.val \in Sockets
    BY <1>2 DEF Msg
  <2>4. Established(r, m) \in Client /\ Enlisted(Established(r, m))
    <3> DEFINE w == Withdrawn(r)
    <3>1. r.entries - 1 \in 0..Attempts /\ r.entries - 1 <= r.isn
      BY <1>2, <1>5, ConnectAssumption DEF ConnectAssumption, Enlisted
    <3>2. w \in Client /\ w.entries <= w.isn
      BY <1>2, <3>1 DEF Withdrawn, Client
    <3>3. Established(r, m) = [w EXCEPT !.pc = "up", !.peer = m.val]
      BY DEF Established
    <3> HIDE DEF w
    <3> QED BY <2>3, <3>2, <3>3 DEF Client, Enlisted
  <2> QED BY <2>1, <2>2, <2>4 DEF AfterAnswer
<1> HIDE DEF r, a, m
<1> QED BY <1>1, <1>2, <1>3, <1>4, ClientStep

LEMMA ConnectTimesOutStep ==
  ASSUME IInv, NEW c \in Clients, ConnectTimesOut(c)
  PROVE  IInv'
<1> DEFINE r == Fails(cl[c], "timeout", cl[c].isn < Attempts)
<1>1. /\ cl' = [cl EXCEPT ![c] = r] /\ net' = net
      /\ UNCHANGED <<sock, queued, accepted, listening, newest, refs, tidy, worker, app, gc>>
  BY DEF ConnectTimesOut, Set, serverVars
<1>2. r \in Client /\ Enlisted(r)
  BY ClientRecords, FailsIsClient
<1> HIDE DEF r
<1> QED BY <1>1, <1>2, ClientRecords, ClientStep

LEMMA ClientStoresStep ==
  ASSUME IInv, NEW c \in Clients, NEW m \in net, ClientStores(c, m)
  PROVE  IInv'
<1> DEFINE r == [cl[c] EXCEPT !.buf = m]
<1>1. /\ cl' = [cl EXCEPT ![c] = r] /\ net' = net
      /\ UNCHANGED <<sock, queued, accepted, listening, newest, refs, tidy, worker, app, gc>>
  BY DEF ClientStores, Set, serverVars
<1>2. r \in Client /\ Enlisted(r)
  BY ClientRecords DEF Client, Enlisted
<1> HIDE DEF r
<1> QED BY <1>1, <1>2, ClientRecords, ClientStep

LEMMA ClientHearsShutdownStep ==
  ASSUME IInv, NEW c \in Clients, ClientHearsShutdown(c)
  PROVE  IInv'
<1> DEFINE r == [cl[c] EXCEPT !.pc = "gone"]
<1>1. /\ cl' = [cl EXCEPT ![c] = r] /\ net' = net
      /\ UNCHANGED <<sock, queued, accepted, listening, newest, refs, tidy, worker, app, gc>>
  BY DEF ClientHearsShutdown, Set, serverVars
<1>2. r \in Client /\ Enlisted(r)
  BY ClientRecords DEF Client, Enlisted
<1> HIDE DEF r
<1> QED BY <1>1, <1>2, ClientRecords, ClientStep

LEMMA ClientClosesStep ==
  ASSUME IInv, NEW c \in Clients, ClientCloses(c)
  PROVE  IInv'
<1> DEFINE r == [cl[c] EXCEPT !.pc = "gone"]
<1>1. /\ cl' = [cl EXCEPT ![c] = r] /\ net' = net \cup {Shutdown(cl[c].peer)}
      /\ UNCHANGED <<sock, queued, accepted, listening, newest, refs, tidy, worker, app, gc>>
  BY DEF ClientCloses, Set, Send, serverVars
<1>2. r \in Client /\ Enlisted(r)
  BY ClientRecords DEF Client, Enlisted
<1>3. net' \subseteq Msg
  BY <1>1, ClientRecords, Messages
<1> HIDE DEF r
<1> QED BY <1>1, <1>2, <1>3, ClientStep


-----------------------------------------------------------------------------
(***************************************************************************)
(* Steps of threads that change no socket.                                 *)
(***************************************************************************)

LEMMA AcceptGivesUpStep ==
  ASSUME IInv, AcceptGivesUp
  PROVE  IInv'
<1>1. SocketTypes' /\ SetTypes' /\ ClientTypes' /\ RefCountIsSockets'
      /\ EachSane' /\ ListenerSane' /\ Unique'
  BY DEF IInv, AcceptGivesUp, serverVars, SocketTypes, SetTypes, ClientTypes,
     Client, RefCountIsSockets, EachSane, Sane, Exists, Live, ListenerSane,
     Gone, Connecting, Unique, LiveAreTracked, NoTwins, NoneAnswers, Stands,
     Tracked, InMaking, SamePeerSameRequest
<1>2. ThreadTypes'
  BY Records DEF IInv, AcceptGivesUp, serverVars, Goes, AppPcs, ThreadTypes
<1>3. Born'
  <2>1. /\ app' = [pc |-> "exit", sock |-> Listener]
        /\ UNCHANGED <<sock, queued, accepted, worker, newest>>
    BY DEF AcceptGivesUp, Goes, serverVars
  <2>2. 0 <= newest
    BY DEF IInv, SetTypes
  <2> QED BY <2>1, <2>2, Records DEF IInv, Born, Listener
<1>4. Followed'
  BY Records DEF IInv, AcceptGivesUp, serverVars, Goes, AppPcs, Followed,
     PublishesLoose, CleanupBegun, WorkerInside, ProgramInside, Live, Held,
     Serving, Running
<1> QED BY <1>1, <1>2, <1>3, <1>4 DEF IInv

LEMMA AcceptReturnsStep ==
  ASSUME IInv, AcceptReturns
  PROVE  IInv'
<1>1. SocketTypes' /\ SetTypes' /\ ClientTypes' /\ RefCountIsSockets'
      /\ EachSane' /\ ListenerSane' /\ Unique'
  BY DEF IInv, AcceptReturns, serverVars, SocketTypes, SetTypes, ClientTypes,
     Client, RefCountIsSockets, EachSane, Sane, Exists, Live, ListenerSane,
     Gone, Connecting, Unique, LiveAreTracked, NoTwins, NoneAnswers, Stands,
     Tracked, InMaking, SamePeerSameRequest
<1>2. ThreadTypes'
  BY Records DEF IInv, AcceptReturns, serverVars, Goes, Located, AppPcs,
     ThreadTypes
<1>3. Born'
  <2>1. /\ app'.sock = app.sock /\ app'.pc \notin {"recv", "bye"}
        /\ UNCHANGED <<sock, queued, accepted, worker, newest>>
    BY DEF AcceptReturns, Goes, serverVars
  <2>2. app.sock \in Made
    BY DEF AcceptReturns, Goes, serverVars, IInv, Born
  <2> QED BY <2>1, <2>2 DEF IInv, Born
<1>4. Followed'
  BY Records DEF IInv, AcceptReturns, serverVars, Goes, Located, AppPcs,
     Followed, PublishesLoose, CleanupBegun, WorkerInside, ProgramInside,
     Live, Held, Serving, Running
<1> QED BY <1>1, <1>2, <1>3, <1>4 DEF IInv

LEMMA ReceiveStartsStep ==
  ASSUME IInv, ReceiveStarts
  PROVE  IInv'
<1>1. SocketTypes' /\ SetTypes' /\ ClientTypes' /\ RefCountIsSockets'
      /\ EachSane' /\ ListenerSane' /\ Unique'
  BY DEF IInv, ReceiveStarts, serverVars, SocketTypes, SetTypes, ClientTypes,
     Client, RefCountIsSockets, EachSane, Sane, Exists, Live, ListenerSane,
     Gone, Connecting, Unique, LiveAreTracked, NoTwins, NoneAnswers, Stands,
     Tracked, InMaking, SamePeerSameRequest
<1>2. ThreadTypes'
  BY Records DEF IInv, ReceiveStarts, serverVars, Goes, Located, AppPcs,
     ThreadTypes
<1>3. Born'
  BY Records DEF IInv, ReceiveStarts, serverVars, Goes, Located, AppPcs, Born
<1>4. Followed'
  <2>1. sock[app.sock].where = "open" /\ app.sock \in Sockets /\ ~sock[app.sock].old
    BY DEF ReceiveStarts, Located, IInv, ThreadTypes, EachSane, Sane
  <2>2. app'.pc = "recv" /\ app'.sock = app.sock
        /\ UNCHANGED <<sock, queued, accepted, worker, listening, newest, tidy, gc>>
    BY DEF ReceiveStarts, Goes, serverVars
  <2>3. app.pc = "up"
    BY DEF ReceiveStarts
  <2> QED BY <2>1, <2>2, <2>3 DEF IInv, Followed, PublishesLoose, CleanupBegun,
     WorkerInside, ProgramInside,
       Live, Held, Serving, Running
<1> QED BY <1>1, <1>2, <1>3, <1>4 DEF IInv

LEMMA CleansUpStep ==
  ASSUME IInv, CleansUp
  PROVE  IInv'
<1>1. SocketTypes' /\ SetTypes' /\ ClientTypes' /\ RefCountIsSockets'
      /\ EachSane' /\ ListenerSane' /\ Unique'
  BY DEF IInv, CleansUp, serverVars, SocketTypes, SetTypes, ClientTypes,
     Client, RefCountIsSockets, EachSane, Sane, Exists, Live, ListenerSane,
     Gone, Connecting, Unique, LiveAreTracked, NoTwins, NoneAnswers, Stands,
     Tracked, InMaking, SamePeerSameRequest
<1>2. ThreadTypes'
  BY Records DEF IInv, CleansUp, serverVars, Goes, AppPcs, ThreadTypes
<1>3. Born'
  BY Records DEF IInv, CleansUp, serverVars, Goes, AppPcs, Born
<1>4. Followed'
  BY Records DEF IInv, CleansUp, serverVars, Goes, AppPcs, Followed,
     PublishesLoose, CleanupBegun, WorkerInside, ProgramInside, Live, Held,
     Serving, Running
<1> QED BY <1>1, <1>2, <1>3, <1>4 DEF IInv

LEMMA CleanupReturnsStep ==
  ASSUME IInv, CleanupReturns
  PROVE  IInv'
<1>1. SocketTypes' /\ SetTypes' /\ ClientTypes' /\ RefCountIsSockets'
      /\ EachSane' /\ ListenerSane' /\ Unique'
  BY DEF IInv, CleanupReturns, serverVars, SocketTypes, SetTypes, ClientTypes,
     Client, RefCountIsSockets, EachSane, Sane, Exists, Live, ListenerSane,
     Gone, Connecting, Unique, LiveAreTracked, NoTwins, NoneAnswers, Stands,
     Tracked, InMaking, SamePeerSameRequest
<1>2. ThreadTypes'
  BY Records DEF IInv, CleanupReturns, serverVars, Goes, AppPcs, ThreadTypes
<1>3. Born'
  BY Records DEF IInv, CleanupReturns, serverVars, Goes, AppPcs, Born
<1>4. Followed'
  BY Records DEF IInv, CleanupReturns, serverVars, Goes, AppPcs, Followed,
     PublishesLoose, CleanupBegun, WorkerInside, ProgramInside, Live, Held,
     Serving, Running
<1> QED BY <1>1, <1>2, <1>3, <1>4 DEF IInv

LEMMA CleanupStartsStep ==
  ASSUME IInv, CleanupStarts
  PROVE  IInv'
<1>1. SocketTypes' /\ SetTypes' /\ ClientTypes' /\ Born' /\ RefCountIsSockets'
      /\ EachSane' /\ ListenerSane' /\ Unique'
  BY DEF IInv, CleanupStarts, serverVars, SocketTypes, SetTypes, ClientTypes,
     Client, Born, RefCountIsSockets, EachSane, Sane, Exists, Live,
     ListenerSane, Gone, Connecting, Unique, LiveAreTracked, NoTwins,
     NoneAnswers, Stands, Tracked, InMaking, SamePeerSameRequest
<1>2. ThreadTypes'
  BY Records DEF IInv, CleanupStarts, serverVars, Running, ThreadTypes
<1>3. Followed'
  BY Records DEF IInv, CleanupStarts, serverVars, Running, Followed,
     PublishesLoose, CleanupBegun, WorkerInside, ProgramInside, Live, Held,
     Serving
<1> QED BY <1>1, <1>2, <1>3 DEF IInv

LEMMA CollectorEndsStep ==
  ASSUME IInv, CollectorEnds
  PROVE  IInv'
<1>1. SocketTypes' /\ SetTypes' /\ ClientTypes' /\ Born' /\ RefCountIsSockets'
      /\ EachSane' /\ ListenerSane' /\ Unique'
  BY DEF IInv, CollectorEnds, serverVars, SocketTypes, SetTypes, ClientTypes,
     Client, Born, RefCountIsSockets, EachSane, Sane, Exists, Live,
     ListenerSane, Gone, Connecting, Unique, LiveAreTracked, NoTwins,
     NoneAnswers, Stands, Tracked, InMaking, SamePeerSameRequest
<1>2. ThreadTypes'
  BY Records DEF IInv, CollectorEnds, serverVars, Running, ThreadTypes
<1>3. Followed'
  BY Records DEF IInv, CollectorEnds, serverVars, Running, Followed,
     PublishesLoose, CleanupBegun, WorkerInside, ProgramInside, Live, Held,
     Serving
<1> QED BY <1>1, <1>2, <1>3 DEF IInv

LEMMA JoinWorkerStep ==
  ASSUME IInv, JoinWorker
  PROVE  IInv'
<1>1. SocketTypes' /\ SetTypes' /\ ClientTypes' /\ Born' /\ RefCountIsSockets'
      /\ EachSane' /\ ListenerSane' /\ Unique'
  BY DEF IInv, JoinWorker, serverVars, SocketTypes, SetTypes, ClientTypes,
     Client, Born, RefCountIsSockets, EachSane, Sane, Exists, Live,
     ListenerSane, Gone, Connecting, Unique, LiveAreTracked, NoTwins,
     NoneAnswers, Stands, Tracked, InMaking, SamePeerSameRequest
<1>2. ThreadTypes'
  BY Records DEF IInv, JoinWorker, serverVars, Running, ThreadTypes
<1>3. Followed'
  BY Records DEF IInv, JoinWorker, serverVars, Running, Followed,
     PublishesLoose, CleanupBegun, WorkerInside, ProgramInside, Live, Held,
     Serving
<1> QED BY <1>1, <1>2, <1>3 DEF IInv

LEMMA TakeRequestStep ==
  ASSUME IInv, TakeRequest
  PROVE  IInv'
<1>1. SocketTypes' /\ SetTypes' /\ ClientTypes' /\ RefCountIsSockets'
  BY DEF IInv, TakeRequest, serverVars, SocketTypes, SetTypes, ClientTypes,
     Client, RefCountIsSockets
<1>2. ThreadTypes'
  <2>1. PICK m \in net : worker' = [pc |-> "listen", msg |-> m, sock |-> Listener]
    BY DEF TakeRequest, Works
  <2>2. m \in Msg
    BY DEF IInv, ClientTypes
  <2>3. UNCHANGED <<app, gc>>
    BY DEF TakeRequest
  <2> QED BY <2>1, <2>2, <2>3, Records DEF IInv, ThreadTypes, WorkerPcs
<1>3. Born'
  BY Records DEF IInv, TakeRequest, serverVars, Works, Rests, Idle, Ready,
     Running, WorkerPcs, AppPcs, Gone, Born
<1>4. EachSane'
  BY Records DEF IInv, TakeRequest, serverVars, Works, Rests, Idle, Ready,
     Running, WorkerPcs, AppPcs, Gone, EachSane, Sane, Exists, Live
<1>5. ListenerSane'
  BY Records DEF IInv, TakeRequest, serverVars, Works, Rests, Idle, Ready,
     Running, WorkerPcs, AppPcs, Gone, ListenerSane, Connecting
<1>6. Unique'
  BY Records DEF IInv, TakeRequest, serverVars, Works, Rests, Idle, Ready,
     Running, WorkerPcs, AppPcs, Gone, Unique, LiveAreTracked, NoTwins,
     NoneAnswers, Stands, Live, Tracked, InMaking, SamePeerSameRequest
<1>7. Followed'
  BY Records DEF IInv, TakeRequest, serverVars, Works, Rests, Idle, Ready,
     Running, WorkerPcs, AppPcs, Gone, Followed, PublishesLoose, CleanupBegun,
     WorkerInside, ProgramInside, Live, Held, Serving, ListenerSane,
     Connecting, EachSane, Sane
<1> QED BY <1>1, <1>2, <1>3, <1>4, <1>5, <1>6, <1>7 DEF IInv

LEMMA ListenStep ==
  ASSUME IInv, Listen
  PROVE  IInv'
<1>1. SocketTypes' /\ SetTypes' /\ RefCountIsSockets'
  BY DEF IInv, Listen, serverVars, SocketTypes, SetTypes, RefCountIsSockets
<1>2. ThreadTypes'
  BY Records DEF IInv, Listen, serverVars, Works, Rests, Idle, Ready, Running,
     WorkerPcs, AppPcs, Gone, ThreadTypes
<1>3. ClientTypes'
  <2>1. /\ UNCHANGED cl
        /\ (net' = net \/ net' = net \cup {Answer(worker.msg.from, worker.msg.isn, "cookie", 0)})
    BY DEF Listen, Send
  <2>2. worker.msg.from \in Clients \cup {None} /\ worker.msg.isn \in 0..Attempts
    BY DEF IInv, ThreadTypes, Msg
  <2>3. Answer(worker.msg.from, worker.msg.isn, "cookie", 0) \in Msg
    BY <2>2, Messages, Records DEF Listener
  <2> QED BY <2>1, <2>3 DEF IInv, ClientTypes
<1>4. Born'
  BY Records DEF IInv, Listen, serverVars, Works, Rests, Idle, Ready, Running,
     WorkerPcs, AppPcs, Gone, Born
<1>5. EachSane'
  BY Records DEF IInv, Listen, serverVars, Works, Rests, Idle, Ready, Running,
     WorkerPcs, AppPcs, Gone, EachSane, Sane, Exists, Live
<1>6. ListenerSane'
  BY Records DEF IInv, Listen, serverVars, Works, Rests, Idle, Ready, Running,
     WorkerPcs, AppPcs, Gone, ListenerSane, Connecting
<1>7. Unique'
  BY Records DEF IInv, Listen, serverVars, Works, Rests, Idle, Ready, Running,
     WorkerPcs, AppPcs, Gone, Unique, LiveAreTracked, NoTwins, NoneAnswers,
     Stands, Live, Tracked, InMaking, SamePeerSameRequest
<1>8. Followed'
  BY Records DEF IInv, Listen, serverVars, Works, Rests, Idle, Ready, Running,
     WorkerPcs, AppPcs, Gone, Followed, PublishesLoose, CleanupBegun,
     WorkerInside, ProgramInside, Live, Held, Serving, ListenerSane,
     Connecting, EachSane, Sane
<1> QED BY <1>1, <1>2, <1>3, <1>4, <1>5, <1>6, <1>7, <1>8 DEF IInv

LEMMA ListenToDeletedStep ==
  ASSUME IInv, ListenToDeleted
  PROVE  IInv'
<1>1. SocketTypes' /\ SetTypes' /\ ClientTypes' /\ RefCountIsSockets'
  BY DEF IInv, ListenToDeleted, serverVars, SocketTypes, SetTypes,
     ClientTypes, Client, RefCountIsSockets
<1>2. ThreadTypes'
  BY Records DEF IInv, ListenToDeleted, serverVars, Works, Rests, Idle, Ready,
     Running, WorkerPcs, AppPcs, Gone, ThreadTypes
<1>3. Born'
  <2>1. worker'.pc = "idle" /\ app'.sock = app.sock /\ app'.pc \in {app.pc, "crash"}
        /\ UNCHANGED <<sock, queued, accepted, newest>>
    BY DEF ListenToDeleted, Rests, Idle, serverVars, IInv, ThreadTypes
  <2> QED BY <2>1 DEF IInv, Born
<1>4. EachSane'
  BY Records DEF IInv, ListenToDeleted, serverVars, Works, Rests, Idle, Ready,
     Running, WorkerPcs, AppPcs, Gone, EachSane, Sane, Exists, Live
<1>5. ListenerSane'
  BY Records DEF IInv, ListenToDeleted, serverVars, Works, Rests, Idle, Ready,
     Running, WorkerPcs, AppPcs, Gone, ListenerSane, Connecting
<1>6. Unique'
  BY Records DEF IInv, ListenToDeleted, serverVars, Works, Rests, Idle, Ready,
     Running, WorkerPcs, AppPcs, Gone, Unique, LiveAreTracked, NoTwins,
     NoneAnswers, Stands, Live, Tracked, InMaking, SamePeerSameRequest
<1>7. Followed'
  <2>1. worker'.pc = "idle" /\ app'.sock = app.sock /\ app'.pc \in {app.pc, "crash"}
        /\ UNCHANGED <<sock, listening, tidy, gc>>
    BY DEF ListenToDeleted, Rests, Idle, serverVars, IInv, ThreadTypes
  <2> QED BY <2>1 DEF IInv, Followed, PublishesLoose, CleanupBegun, WorkerInside,
     ProgramInside,
       Live, Held, Serving, Running
<1> QED BY <1>1, <1>2, <1>3, <1>4, <1>5, <1>6, <1>7 DEF IInv

LEMMA ReleaseStep ==
  ASSUME IInv, Release
  PROVE  IInv'
<1>1. SocketTypes' /\ SetTypes' /\ ClientTypes' /\ RefCountIsSockets'
  BY DEF IInv, Release, serverVars, SocketTypes, SetTypes, ClientTypes,
     Client, RefCountIsSockets
<1>2. ThreadTypes'
  BY Records DEF IInv, Release, serverVars, Works, Rests, Idle, Ready,
     Running, WorkerPcs, AppPcs, Gone, ThreadTypes
<1>3. Born'
  BY Records DEF IInv, Release, serverVars, Works, Rests, Idle, Ready,
     Running, WorkerPcs, AppPcs, Gone, Born
<1>4. EachSane'
  BY Records DEF IInv, Release, serverVars, Works, Rests, Idle, Ready,
     Running, WorkerPcs, AppPcs, Gone, EachSane, Sane, Exists, Live
<1>5. ListenerSane'
  BY Records DEF IInv, Release, serverVars, Works, Rests, Idle, Ready,
     Running, WorkerPcs, AppPcs, Gone, ListenerSane, Connecting
<1>6. Unique'
  BY Records DEF IInv, Release, serverVars, Works, Rests, Idle, Ready,
     Running, WorkerPcs, AppPcs, Gone, Unique, LiveAreTracked, NoTwins,
     NoneAnswers, Stands, Live, Tracked, InMaking, SamePeerSameRequest
<1>7. Followed'
  BY Records DEF IInv, Release, serverVars, Works, Rests, Idle, Ready,
     Running, WorkerPcs, AppPcs, Gone, Followed, PublishesLoose, CleanupBegun,
     WorkerInside, ProgramInside, Live, Held, Serving, ListenerSane,
     Connecting, EachSane, Sane
<1> QED BY <1>1, <1>2, <1>3, <1>4, <1>5, <1>6, <1>7 DEF IInv
-----------------------------------------------------------------------------
(***************************************************************************)
(* Steps that change one socket.                                           *)
(***************************************************************************)

LEMMA TakeNewEntryStep ==
  ASSUME IInv, TakeNewEntry
  PROVE  IInv'
<1>1. PICK s \in Made :
        /\ sock[s].listed = "new"
        /\ sock' = [sock EXCEPT ![s] = IntoHash(sock[s])]
        /\ UNCHANGED <<queued, accepted, listening, newest,
                       refs, tidy, worker, app, gc, cl, net>>
  BY DEF TakeNewEntry
<1> DEFINE r == IntoHash(sock[s])
<1>2. s \in Sockets /\ sock[s] \in Socket
  BY <1>1, Records DEF IInv, SocketTypes
<1>3. /\ r \in Socket
      /\ r.where = sock[s].where
      /\ r.client = sock[s].client
      /\ r.isn = sock[s].isn
      /\ r.connected = sock[s].connected
      /\ r.closing = sock[s].closing
      /\ r.broken = sock[s].broken
      /\ r.old = sock[s].old
      /\ r.onList = sock[s].onList
  BY <1>2, ConnectAssumption DEF ConnectAssumption, Socket, IntoHash
<1>0. sock' = [sock EXCEPT ![s] = r]
  BY <1>1
<1> HIDE DEF r
<1>4. SocketTypes' /\ sock'[s] = r /\ \A t \in Sockets : t # s => sock'[t] = sock[t]
  BY <1>0, <1>2, <1>3, OneSocket DEF IInv
<1>5. SetTypes' /\ ThreadTypes' /\ ClientTypes'
  BY <1>1 DEF IInv, SetTypes, ThreadTypes, ClientTypes, Client
<1>6. Born'
  BY <1>1, <1>2, <1>3, <1>4, Records DEF IInv, Born
<1>7. RefCountIsSockets'
  BY <1>1, <1>3, <1>4, SameCount DEF IInv
<1>8. EachSane'
  BY <1>1, <1>2, <1>3, <1>4, Records DEF IInv, EachSane, Sane, Exists, Live
<1>9. ListenerSane'
  BY <1>1, <1>2, <1>3, <1>4, Records DEF IInv, ListenerSane, Gone, Connecting
<1>10. Unique'
  BY <1>1, <1>2, <1>3, <1>4, Records DEF IInv, Unique, LiveAreTracked,
     NoTwins, NoneAnswers, Stands, Live, Tracked, InMaking,
     SamePeerSameRequest
<1>11. Followed'
  BY <1>1, <1>2, <1>3, <1>4, Records DEF IInv, Followed, PublishesLoose,
     CleanupBegun, WorkerInside, ProgramInside, Live, Held, Serving, Running
<1> QED BY <1>4, <1>5, <1>6, <1>7, <1>8, <1>9, <1>10, <1>11 DEF IInv

LEMMA TakeDataStep ==
  ASSUME IInv, TakeData
  PROVE  IInv'
<1>1. PICK s \in Made :
        /\ sock' = [sock EXCEPT ![s] = [sock[s] EXCEPT !.unread = TRUE]]
        /\ UNCHANGED <<queued, accepted, listening, newest,
                       refs, tidy, worker, app, gc, cl, net>>
  BY DEF TakeData
<1> DEFINE r == [sock[s] EXCEPT !.unread = TRUE]
<1>2. s \in Sockets /\ sock[s] \in Socket
  BY <1>1, Records DEF IInv, SocketTypes
<1>3. /\ r \in Socket
      /\ r.where = sock[s].where
      /\ r.client = sock[s].client
      /\ r.isn = sock[s].isn
      /\ r.connected = sock[s].connected
      /\ r.closing = sock[s].closing
      /\ r.broken = sock[s].broken
      /\ r.old = sock[s].old
      /\ r.onList = sock[s].onList
      /\ r.listed = sock[s].listed
  BY <1>2, ConnectAssumption DEF ConnectAssumption, Socket
<1>0. sock' = [sock EXCEPT ![s] = r]
  BY <1>1
<1> HIDE DEF r
<1>4. SocketTypes' /\ sock'[s] = r /\ \A t \in Sockets : t # s => sock'[t] = sock[t]
  BY <1>0, <1>2, <1>3, OneSocket DEF IInv
<1>5. SetTypes' /\ ThreadTypes' /\ ClientTypes'
  BY <1>1 DEF IInv, SetTypes, ThreadTypes, ClientTypes, Client
<1>6. Born'
  BY <1>1, <1>2, <1>3, <1>4, Records DEF IInv, Born
<1>7. RefCountIsSockets'
  BY <1>1, <1>3, <1>4, SameCount DEF IInv
<1>8. EachSane'
  BY <1>1, <1>2, <1>3, <1>4, Records DEF IInv, EachSane, Sane, Exists, Live
<1>9. ListenerSane'
  BY <1>1, <1>2, <1>3, <1>4, Records DEF IInv, ListenerSane, Gone, Connecting
<1>10. Unique'
  BY <1>1, <1>2, <1>3, <1>4, Records DEF IInv, Unique, LiveAreTracked,
     NoTwins, NoneAnswers, Stands, Live, Tracked, InMaking,
     SamePeerSameRequest
<1>11. Followed'
  BY <1>1, <1>2, <1>3, <1>4, Records DEF IInv, Followed, PublishesLoose,
     CleanupBegun, WorkerInside, ProgramInside, Live, Held, Serving, Running
<1> QED BY <1>4, <1>5, <1>6, <1>7, <1>8, <1>9, <1>10, <1>11 DEF IInv

LEMMA DropFromListStep ==
  ASSUME IInv, DropFromList
  PROVE  IInv'
<1>1. PICK s \in Made :
        /\ sock' = [sock EXCEPT ![s] = Unlisted(sock[s])]
        /\ UNCHANGED <<queued, accepted, listening, newest,
                       refs, tidy, worker, app, gc, cl, net>>
  BY DEF DropFromList
<1> DEFINE r == Unlisted(sock[s])
<1>2. s \in Sockets /\ sock[s] \in Socket
  BY <1>1, Records DEF IInv, SocketTypes
<1>3. /\ r \in Socket
      /\ r.where = sock[s].where
      /\ r.client = sock[s].client
      /\ r.isn = sock[s].isn
      /\ r.connected = sock[s].connected
      /\ r.closing = sock[s].closing
      /\ r.broken = sock[s].broken
      /\ r.old = sock[s].old
      /\ r.listed = "no"
  BY <1>2, ConnectAssumption DEF ConnectAssumption, Socket, Unlisted, OutOfHash
<1>0. sock' = [sock EXCEPT ![s] = r]
  BY <1>1
<1> HIDE DEF r
<1>4. SocketTypes' /\ sock'[s] = r /\ \A t \in Sockets : t # s => sock'[t] = sock[t]
  BY <1>0, <1>2, <1>3, OneSocket DEF IInv
<1>5. SetTypes' /\ ThreadTypes' /\ ClientTypes'
  BY <1>1 DEF IInv, SetTypes, ThreadTypes, ClientTypes, Client
<1>6. Born'
  BY <1>1, <1>2, <1>3, <1>4, Records DEF IInv, Born
<1>7. RefCountIsSockets'
  BY <1>1, <1>3, <1>4, SameCount DEF IInv
<1>8. EachSane'
  BY <1>1, <1>2, <1>3, <1>4, Records DEF IInv, EachSane, Sane, Exists, Live
<1>9. ListenerSane'
  BY <1>1, <1>2, <1>3, <1>4, Records DEF IInv, ListenerSane, Gone, Connecting
<1>10. Unique'
  BY <1>1, <1>2, <1>3, <1>4, Records DEF IInv, Unique, LiveAreTracked,
     NoTwins, NoneAnswers, Stands, Live, Tracked, InMaking,
     SamePeerSameRequest
<1>11. Followed'
  BY <1>1, <1>2, <1>3, <1>4, Records DEF IInv, Followed, PublishesLoose,
     CleanupBegun, WorkerInside, ProgramInside, Live, Held, Serving, Running
<1> QED BY <1>4, <1>5, <1>6, <1>7, <1>8, <1>9, <1>10, <1>11 DEF IInv

LEMMA BreakStep ==
  ASSUME IInv, Ready, NEW s \in Made, NEW byPeer \in BOOLEAN, Break(s, byPeer)
  PROVE  IInv'
<1>1. /\ Live(s)
      /\ worker.pc = "idle"
      /\ Running
      /\ sock' = [sock EXCEPT ![s] = [sock[s] EXCEPT !.broken = TRUE, !.closing = TRUE,
                                   !.shutdown = byPeer, !.rounds = BrokenRounds]]
      /\ UNCHANGED <<queued, accepted, listening, newest, refs, tidy, app, gc, cl, net>>
      /\ worker' = [pc |-> "release", msg |-> NoMsg, sock |-> s]
  BY DEF Break, Works, Ready
<1> DEFINE r == [sock[s] EXCEPT !.broken = TRUE, !.closing = TRUE,
                                !.shutdown = byPeer, !.rounds = BrokenRounds]
<1>2. s \in Sockets /\ sock[s] \in Socket
  BY <1>1, Records DEF IInv, SocketTypes
<1>3. /\ r \in Socket
      /\ r.where = sock[s].where
      /\ r.client = sock[s].client
      /\ r.isn = sock[s].isn
      /\ r.connected = sock[s].connected
      /\ r.old = sock[s].old
      /\ r.onList = sock[s].onList
      /\ r.listed = sock[s].listed
      /\ r.broken /\ r.closing
  <2>1. byPeer \in BOOLEAN /\ BrokenRounds \in 0..BrokenRounds
    BY <1>1, ConnectAssumption DEF ConnectAssumption
  <2>2. r \in Socket
    BY <1>2, <2>1 DEF Socket
  <2>3. r.broken /\ r.closing
    BY <1>2 DEF Socket
  <2>4. r.where = sock[s].where /\ r.client = sock[s].client /\ r.isn = sock[s].isn
        /\ r.connected = sock[s].connected /\ r.old = sock[s].old
        /\ r.onList = sock[s].onList /\ r.listed = sock[s].listed
    BY <1>2 DEF Socket
  <2> QED BY <2>2, <2>3, <2>4
<1>0. sock' = [sock EXCEPT ![s] = r]
  BY <1>1
<1> HIDE DEF r
<1>4. SocketTypes' /\ sock'[s] = r /\ \A t \in Sockets : t # s => sock'[t] = sock[t]
  BY <1>0, <1>2, <1>3, OneSocket DEF IInv
<1>5. SetTypes' /\ ClientTypes'
  BY <1>1 DEF IInv, SetTypes, ClientTypes, Client
<1>6. ThreadTypes'
  BY <1>1, <1>2, <1>3, <1>4, Records DEF IInv, ThreadTypes, WorkerPcs
<1>7. Born'
  BY <1>1, <1>2, <1>3, <1>4, Records DEF IInv, Born
<1>8. RefCountIsSockets'
  BY <1>1, <1>3, <1>4, SameCount DEF IInv
<1>9. EachSane'
  BY <1>1, <1>2, <1>3, <1>4, Records DEF IInv, EachSane, Sane, Exists, Live
<1>10. ListenerSane'
  BY <1>1, <1>2, <1>3, <1>4, Records DEF IInv, ListenerSane, Gone, Connecting
<1>11. Unique'
  BY <1>1, <1>2, <1>3, <1>4, Records DEF IInv, Unique, LiveAreTracked,
     NoTwins, NoneAnswers, Stands, Live, Tracked, InMaking,
     SamePeerSameRequest
<1>12. Followed'
  BY <1>1, <1>2, <1>3, <1>4, Records DEF IInv, Followed, PublishesLoose,
     CleanupBegun, WorkerInside, ProgramInside, Live, Held, Serving, Running,
     EachSane, Sane, Exists
<1> QED BY <1>4, <1>5, <1>6, <1>7, <1>8, <1>9, <1>10, <1>11, <1>12 DEF IInv

LEMMA TakeShutdownStep ==
  ASSUME IInv, TakeShutdown
  PROVE  IInv'
BY BreakStep DEF TakeShutdown

LEMMA PeerSilentStep ==
  ASSUME IInv, NEW s \in Made, PeerSilent(s)
  PROVE  IInv'
BY BreakStep DEF PeerSilent

LEMMA PublishSocketStep ==
  ASSUME IInv, PublishSocket
  PROVE  IInv'
<1>1. PICK s \in Sockets :
        /\ s = worker.sock
        /\ worker.pc = "publish"
        /\ Running
        /\ sock' = [sock EXCEPT ![s] = [sock[s] EXCEPT !.where = "open"]]
        /\ UNCHANGED <<queued, accepted, listening, newest, refs, tidy, app, gc, cl, net>>
        /\ worker' = [pc |-> "queue", msg |-> worker.msg, sock |-> worker.sock]
  BY DEF PublishSocket, IInv, ThreadTypes
<1> DEFINE r == [sock[s] EXCEPT !.where = "open"]
<1>2. s \in Sockets /\ sock[s] \in Socket
  BY <1>1, Records DEF IInv, SocketTypes
<1>3. /\ r \in Socket
      /\ r.client = sock[s].client
      /\ r.isn = sock[s].isn
      /\ r.connected = sock[s].connected
      /\ r.closing = sock[s].closing
      /\ r.broken = sock[s].broken
      /\ r.old = sock[s].old
      /\ r.onList = sock[s].onList
      /\ r.listed = sock[s].listed
      /\ r.where = "open"
  BY <1>2, ConnectAssumption DEF ConnectAssumption, Socket
<1>0. sock' = [sock EXCEPT ![s] = r]
  BY <1>1
<1> HIDE DEF r
<1>4. SocketTypes' /\ sock'[s] = r /\ \A t \in Sockets : t # s => sock'[t] = sock[t]
  BY <1>0, <1>2, <1>3, OneSocket DEF IInv
<1>w. /\ s \in Made /\ s <= newest /\ s \notin queued \cup accepted \cup {app.sock}
      /\ sock[s].where = "loose" /\ r.connected /\ ~r.broken /\ ~r.closing /\ s # Listener
      /\ worker'.pc = "queue" /\ worker'.sock = s /\ worker'.msg = worker.msg
  BY <1>1, <1>3, Records DEF IInv, Followed, PublishesLoose, Live, Born
<1>5. SetTypes' /\ ClientTypes'
  BY <1>1 DEF IInv, SetTypes, ClientTypes, Client
<1>6. ThreadTypes'
  BY <1>1, <1>2, <1>3, <1>4, <1>w, Records DEF IInv, ThreadTypes, WorkerPcs
<1>7. Born'
  BY <1>1, <1>2, <1>3, <1>4, <1>w, Records DEF IInv, Born
<1>8. RefCountIsSockets'
  <2>1. sock[s].where = "loose"
    BY <1>1 DEF IInv, Followed, PublishesLoose
  <2> QED BY <1>1, <1>3, <1>4, <2>1, SameCount DEF IInv
<1>9. EachSane'
  BY <1>1, <1>2, <1>3, <1>4, <1>w, Records DEF IInv, EachSane, Sane, Exists,
     Live
<1>10. ListenerSane'
  BY <1>1, <1>2, <1>3, <1>4, <1>w, Records DEF IInv, ListenerSane, Gone,
     Connecting
<1>11. Unique'
  BY <1>1, <1>2, <1>3, <1>4, <1>w, Records DEF IInv, Unique, LiveAreTracked,
     NoTwins, NoneAnswers, Stands, Live, Tracked, InMaking,
     SamePeerSameRequest
<1>12. Followed'
  <2>1. PublishesLoose' /\ CleanupBegun'
    BY <1>1, <1>2, <1>3, <1>4, <1>w, Records DEF IInv, Followed,
       PublishesLoose, CleanupBegun, Live, Serving, Running
  <2>2. ASSUME Serving' PROVE Serving
    BY <2>2, <1>1, <1>2, <1>3, <1>4, <1>w, Records DEF Serving, Running
  <2>3. ASSUME Serving' PROVE WorkerInside'
    BY <2>2, <2>3, <1>1, <1>2, <1>3, <1>4, <1>w, Records DEF IInv, Followed,
       WorkerInside, Live, Held
  <2>4. ASSUME Serving' PROVE ProgramInside'
    BY <2>2, <2>4, <1>1, <1>2, <1>3, <1>4, <1>w, Records DEF IInv, Followed,
       ProgramInside, Held
  <2> QED BY <2>1, <2>3, <2>4 DEF Followed
<1> QED BY <1>4, <1>5, <1>6, <1>7, <1>8, <1>9, <1>10, <1>11, <1>12 DEF IInv

LEMMA ListenerStopsStep ==
  ASSUME IInv, ListenerStops
  PROVE  IInv'
<1>1. PICK s \in Sockets :
        /\ s = Listener
        /\ app.pc = "close"
        /\ sock' = [sock EXCEPT ![s] = [sock[s] EXCEPT !.closing = TRUE]]
        /\ UNCHANGED <<queued, accepted, listening, newest, refs, tidy, worker, gc, cl, net>>
        /\ app' = [pc |-> "unlisten", sock |-> app.sock]
  BY Records DEF ListenerStops, IInv, ThreadTypes, Goes
<1> DEFINE r == [sock[s] EXCEPT !.closing = TRUE]
<1>2. s \in Sockets /\ sock[s] \in Socket
  BY <1>1, Records DEF IInv, SocketTypes
<1>3. /\ r \in Socket
      /\ r.where = sock[s].where
      /\ r.client = sock[s].client
      /\ r.isn = sock[s].isn
      /\ r.connected = sock[s].connected
      /\ r.broken = sock[s].broken
      /\ r.old = sock[s].old
      /\ r.onList = sock[s].onList
      /\ r.listed = sock[s].listed
      /\ r.closing
  BY <1>2, ConnectAssumption DEF ConnectAssumption, Socket
<1>0. sock' = [sock EXCEPT ![s] = r]
  BY <1>1
<1> HIDE DEF r
<1>4. SocketTypes' /\ sock'[s] = r /\ \A t \in Sockets : t # s => sock'[t] = sock[t]
  BY <1>0, <1>2, <1>3, OneSocket DEF IInv
<1>5. SetTypes' /\ ClientTypes'
  BY <1>1 DEF IInv, SetTypes, ClientTypes, Client
<1>6. ThreadTypes'
  BY <1>1, <1>2, <1>3, <1>4, Records DEF IInv, ThreadTypes, AppPcs
<1>7. Born'
  BY <1>1, <1>2, <1>3, <1>4, Records DEF IInv, Born
<1>8. RefCountIsSockets'
  BY <1>1, <1>3, <1>4, SameCount DEF IInv
<1>9. EachSane'
  BY <1>1, <1>2, <1>3, <1>4, Records DEF IInv, EachSane, Sane, Exists, Live
<1>10. ListenerSane'
  BY <1>1, <1>2, <1>3, <1>4, Records DEF IInv, ListenerSane, Gone, Connecting
<1>11. Unique'
  BY <1>1, <1>2, <1>3, <1>4, Records DEF IInv, Unique, LiveAreTracked,
     NoTwins, NoneAnswers, Stands, Live, Tracked, InMaking,
     SamePeerSameRequest
<1>12. Followed'
  <2>1. PublishesLoose' /\ CleanupBegun'
    BY <1>1, <1>2, <1>3, <1>4, Records DEF IInv, Followed, PublishesLoose,
       CleanupBegun, Live, Serving, Running, Born
  <2>2. ASSUME Serving' PROVE Serving
    BY <2>2, <1>1, <1>2, <1>3, <1>4, Records DEF Serving, Running, Born
  <2>3. ASSUME Serving' PROVE WorkerInside'
    BY <2>2, <2>3, <1>1, <1>2, <1>3, <1>4, Records DEF IInv, Followed,
       WorkerInside, Live, Held, Born
  <2>4. ASSUME Serving' PROVE ProgramInside'
    BY <2>2, <2>4, <1>1, <1>2, <1>3, <1>4, Records DEF IInv, Followed,
       ProgramInside, Held, Born
  <2> QED BY <2>1, <2>3, <2>4 DEF Followed
<1> QED BY <1>4, <1>5, <1>6, <1>7, <1>8, <1>9, <1>10, <1>11, <1>12 DEF IInv

LEMMA ListenerUnsetStep ==
  ASSUME IInv, ListenerUnset
  PROVE  IInv'
<1>1. PICK s \in Sockets :
        /\ s = Listener
        /\ app.pc = "unlisten"
        /\ ~Connecting
        /\ sock' = [sock EXCEPT ![s] = [sock[s] EXCEPT !.opened = FALSE]]
        /\ UNCHANGED <<queued, accepted, newest, refs, tidy, worker, gc, cl, net>>
        /\ app' = [pc |-> "unmap", sock |-> app.sock]
        /\ listening' = FALSE
  BY Records DEF ListenerUnset, IInv, ThreadTypes, Goes
<1> DEFINE r == [sock[s] EXCEPT !.opened = FALSE]
<1>2. s \in Sockets /\ sock[s] \in Socket
  BY <1>1, Records DEF IInv, SocketTypes
<1>3. /\ r \in Socket
      /\ r.where = sock[s].where
      /\ r.client = sock[s].client
      /\ r.isn = sock[s].isn
      /\ r.connected = sock[s].connected
      /\ r.broken = sock[s].broken
      /\ r.closing = sock[s].closing
      /\ r.old = sock[s].old
      /\ r.onList = sock[s].onList
      /\ r.listed = sock[s].listed
  BY <1>2, ConnectAssumption DEF ConnectAssumption, Socket
<1>0. sock' = [sock EXCEPT ![s] = r]
  BY <1>1
<1> HIDE DEF r
<1>4. SocketTypes' /\ sock'[s] = r /\ \A t \in Sockets : t # s => sock'[t] = sock[t]
  BY <1>0, <1>2, <1>3, OneSocket DEF IInv
<1>w. r.closing /\ s \notin Made
  BY <1>1, <1>3, Records DEF IInv, Followed, ProgramInside, Serving, Running
<1>5. ClientTypes'
  BY <1>1 DEF IInv, ClientTypes, Client
<1>6. SetTypes'
  BY <1>1, <1>2, <1>3, <1>4, <1>w, Records DEF IInv, SetTypes
<1>7. ThreadTypes'
  BY <1>1, <1>2, <1>3, <1>4, <1>w, Records DEF IInv, ThreadTypes, AppPcs
<1>8. Born'
  BY <1>1, <1>2, <1>3, <1>4, <1>w, Records DEF IInv, Born
<1>9. RefCountIsSockets'
  BY <1>1, <1>3, <1>4, <1>w, SameCount DEF IInv
<1>10. EachSane'
  BY <1>1, <1>2, <1>3, <1>4, <1>w, Records DEF IInv, EachSane, Sane, Exists,
     Live
<1>11. ListenerSane'
  BY <1>1, <1>2, <1>3, <1>4, <1>w, Records DEF IInv, ListenerSane, Gone,
     Connecting
<1>12. Unique'
  BY <1>1, <1>2, <1>3, <1>4, <1>w, Records DEF IInv, Unique, LiveAreTracked,
     NoTwins, NoneAnswers, Stands, Live, Tracked, InMaking,
     SamePeerSameRequest
<1>13. Followed'
  BY <1>1, <1>2, <1>3, <1>4, <1>w, Records DEF IInv, Followed, PublishesLoose,
     CleanupBegun, WorkerInside, ProgramInside, Live, Held, Serving, Running
<1> QED BY <1>4, <1>5, <1>6, <1>7, <1>8, <1>9, <1>10, <1>11, <1>12, <1>13 DEF IInv

LEMMA ListenerClosedStep ==
  ASSUME IInv, ListenerClosed
  PROVE  IInv'
<1>1. PICK s \in Sockets :
        /\ s = Listener
        /\ app.pc = "unmap"
        /\ sock' = [sock EXCEPT ![s] = ToClosed(sock[s])]
        /\ UNCHANGED <<queued, accepted, listening, newest, refs, tidy, worker, gc, cl, net>>
        /\ app' = [pc |-> "up", sock |-> app.sock]
  BY Records DEF ListenerClosed, IInv, ThreadTypes, Goes
<1> DEFINE r == ToClosed(sock[s])
<1>2. s \in Sockets /\ sock[s] \in Socket
  BY <1>1, Records DEF IInv, SocketTypes
<1>3. /\ r \in Socket
      /\ r.client = sock[s].client
      /\ r.isn = sock[s].isn
      /\ r.connected = sock[s].connected
      /\ r.broken = sock[s].broken
      /\ r.closing = sock[s].closing
      /\ r.onList = sock[s].onList
      /\ r.listed = sock[s].listed
      /\ r.where = "closed"
      /\ ~r.old
  BY <1>2, ConnectAssumption DEF ConnectAssumption, Socket, ToClosed
<1>0. sock' = [sock EXCEPT ![s] = r]
  BY <1>1
<1> HIDE DEF r
<1>4. SocketTypes' /\ sock'[s] = r /\ \A t \in Sockets : t # s => sock'[t] = sock[t]
  BY <1>0, <1>2, <1>3, OneSocket DEF IInv
<1>w. sock[s].where = "open" /\ ~listening /\ ~Live(s) /\ sock[s].listed = "no" /\ s \notin Made
  BY <1>1, Records DEF IInv, Followed, ProgramInside, Serving, Running, ListenerSane, Live
<1>5. SetTypes' /\ ClientTypes'
  BY <1>1 DEF IInv, SetTypes, ClientTypes, Client
<1>6. ThreadTypes'
  BY <1>1, <1>2, <1>3, <1>4, <1>w, Records DEF IInv, ThreadTypes, AppPcs
<1>7. Born'
  BY <1>1, <1>2, <1>3, <1>4, <1>w, Records DEF IInv, Born
<1>8. RefCountIsSockets'
  BY <1>1, <1>3, <1>4, <1>w, SameCount DEF IInv
<1>9. EachSane'
  BY <1>1, <1>2, <1>3, <1>4, <1>w, Records DEF IInv, EachSane, Sane, Exists,
     Live
<1>10. ListenerSane'
  BY <1>1, <1>2, <1>3, <1>4, <1>w, Records DEF IInv, ListenerSane, Gone,
     Connecting
<1>11. Unique'
  BY <1>1, <1>2, <1>3, <1>4, <1>w, Records DEF IInv, Unique, LiveAreTracked,
     NoTwins, NoneAnswers, Stands, Live, Tracked, InMaking,
     SamePeerSameRequest
<1>12. Followed'
  <2>1. PublishesLoose' /\ CleanupBegun'
    BY <1>1, <1>2, <1>3, <1>4, <1>w, Records DEF IInv, Followed,
       PublishesLoose, CleanupBegun, Live, Serving, Running, Born
  <2>2. ASSUME Serving' PROVE Serving
    BY <2>2, <1>1, <1>2, <1>3, <1>4, <1>w, Records DEF Serving, Running, Born
  <2>3. ASSUME Serving' PROVE WorkerInside'
    BY <2>2, <2>3, <1>1, <1>2, <1>3, <1>4, <1>w, Records DEF IInv, Followed,
       WorkerInside, Live, Held, Born
  <2>4. ASSUME Serving' PROVE ProgramInside'
    BY <2>2, <2>4, <1>1, <1>2, <1>3, <1>4, <1>w, Records DEF IInv, Followed,
       ProgramInside, Held, Born
  <2> QED BY <2>1, <2>3, <2>4 DEF Followed
<1> QED BY <1>4, <1>5, <1>6, <1>7, <1>8, <1>9, <1>10, <1>11, <1>12 DEF IInv

LEMMA ReceiveReturnsStep ==
  ASSUME IInv, ReceiveReturns
  PROVE  IInv'
<1>1. PICK s \in Sockets :
        /\ s = app.sock
        /\ app.pc = "recv"
        /\ sock' = [sock EXCEPT ![s] = [sock[s] EXCEPT !.unread = FALSE]]
        /\ UNCHANGED <<queued, accepted, listening, newest, refs, tidy, worker, gc, cl, net>>
        /\ app' = [pc |-> "up", sock |-> app.sock]
  BY DEF ReceiveReturns, IInv, ThreadTypes, Goes
<1> DEFINE r == [sock[s] EXCEPT !.unread = FALSE]
<1>2. s \in Sockets /\ sock[s] \in Socket
  BY <1>1, Records DEF IInv, SocketTypes
<1>3. /\ r \in Socket
      /\ r.where = sock[s].where
      /\ r.client = sock[s].client
      /\ r.isn = sock[s].isn
      /\ r.connected = sock[s].connected
      /\ r.broken = sock[s].broken
      /\ r.closing = sock[s].closing
      /\ r.old = sock[s].old
      /\ r.onList = sock[s].onList
      /\ r.listed = sock[s].listed
  BY <1>2, ConnectAssumption DEF ConnectAssumption, Socket
<1>0. sock' = [sock EXCEPT ![s] = r]
  BY <1>1
<1> HIDE DEF r
<1>4. SocketTypes' /\ sock'[s] = r /\ \A t \in Sockets : t # s => sock'[t] = sock[t]
  BY <1>0, <1>2, <1>3, OneSocket DEF IInv
<1>5. SetTypes' /\ ClientTypes'
  BY <1>1 DEF IInv, SetTypes, ClientTypes, Client
<1>6. ThreadTypes'
  BY <1>1, <1>2, <1>3, <1>4, Records DEF IInv, ThreadTypes, AppPcs
<1>7. Born'
  BY <1>1, <1>2, <1>3, <1>4, Records DEF IInv, Born
<1>8. RefCountIsSockets'
  BY <1>1, <1>3, <1>4, SameCount DEF IInv
<1>9. EachSane'
  BY <1>1, <1>2, <1>3, <1>4, Records DEF IInv, EachSane, Sane, Exists, Live
<1>10. ListenerSane'
  BY <1>1, <1>2, <1>3, <1>4, Records DEF IInv, ListenerSane, Gone, Connecting
<1>11. Unique'
  BY <1>1, <1>2, <1>3, <1>4, Records DEF IInv, Unique, LiveAreTracked,
     NoTwins, NoneAnswers, Stands, Live, Tracked, InMaking,
     SamePeerSameRequest
<1>12. Followed'
  BY <1>1, <1>2, <1>3, <1>4, Records DEF IInv, Followed, PublishesLoose,
     CleanupBegun, WorkerInside, ProgramInside, Live, Held, Serving, Running
<1> QED BY <1>4, <1>5, <1>6, <1>7, <1>8, <1>9, <1>10, <1>11, <1>12 DEF IInv

LEMMA HandleClosedStep ==
  ASSUME IInv, HandleClosed
  PROVE  IInv'
<1>1. PICK s \in Sockets :
        /\ s = app.sock
        /\ app.pc = "bye"
        /\ sock' = [sock EXCEPT ![s] = ToClosed(sock[s])]
        /\ UNCHANGED <<queued, accepted, listening, newest, refs, tidy, worker, gc, cl, net>>
        /\ app' = [pc |-> "cleanup", sock |-> app.sock]
  BY DEF HandleClosed, IInv, ThreadTypes, Goes
<1> DEFINE r == ToClosed(sock[s])
<1>2. s \in Sockets /\ sock[s] \in Socket
  BY <1>1, Records DEF IInv, SocketTypes
<1>3. /\ r \in Socket
      /\ r.client = sock[s].client
      /\ r.isn = sock[s].isn
      /\ r.connected = sock[s].connected
      /\ r.broken = sock[s].broken
      /\ r.closing = sock[s].closing
      /\ r.onList = sock[s].onList
      /\ r.listed = sock[s].listed
      /\ r.where = "closed"
      /\ ~r.old
  BY <1>2, ConnectAssumption DEF ConnectAssumption, Socket, ToClosed
<1>0. sock' = [sock EXCEPT ![s] = r]
  BY <1>1
<1> HIDE DEF r
<1>4. SocketTypes' /\ sock'[s] = r /\ \A t \in Sockets : t # s => sock'[t] = sock[t]
  BY <1>0, <1>2, <1>3, OneSocket DEF IInv
<1>w. sock[s].where \in {"open", "closed"} /\ r.closing /\ s \in Made
  BY <1>1, <1>3 DEF IInv, Followed, ProgramInside, Serving, Running, Held, Born
<1>5. SetTypes' /\ ClientTypes'
  BY <1>1 DEF IInv, SetTypes, ClientTypes, Client
<1>6. ThreadTypes'
  BY <1>1, <1>2, <1>3, <1>4, <1>w, Records DEF IInv, ThreadTypes, AppPcs
<1>7. Born'
  BY <1>1, <1>2, <1>3, <1>4, <1>w, Records DEF IInv, Born
<1>8. RefCountIsSockets'
  BY <1>1, <1>3, <1>4, <1>w, SameCount DEF IInv
<1>9. EachSane'
  BY <1>1, <1>2, <1>3, <1>4, <1>w, Records DEF IInv, EachSane, Sane, Exists,
     Live
<1>10. ListenerSane'
  BY <1>1, <1>2, <1>3, <1>4, <1>w, Records DEF IInv, ListenerSane, Gone,
     Connecting
<1>11. Unique'
  BY <1>1, <1>2, <1>3, <1>4, <1>w, Records DEF IInv, Unique, LiveAreTracked,
     NoTwins, NoneAnswers, Stands, Live, Tracked, InMaking,
     SamePeerSameRequest
<1>12. Followed'
  BY <1>1, <1>2, <1>3, <1>4, <1>w, Records DEF IInv, Followed, PublishesLoose,
     CleanupBegun, WorkerInside, ProgramInside, Live, Held, Serving, Running
<1> QED BY <1>4, <1>5, <1>6, <1>7, <1>8, <1>9, <1>10, <1>11, <1>12 DEF IInv

LEMMA CleanupStopsListenerStep ==
  ASSUME IInv, CleanupStopsListener
  PROVE  IInv'
<1>1. PICK s \in Sockets :
        /\ s = Listener
        /\ gc = "close"
        /\ sock' = [sock EXCEPT ![s] = [sock[s] EXCEPT !.closing = TRUE]]
        /\ UNCHANGED <<queued, accepted, listening, newest,
                       refs, tidy, worker, app, gc, cl, net>>
  BY Records DEF CleanupStopsListener, IInv, ThreadTypes
<1> DEFINE r == [sock[s] EXCEPT !.closing = TRUE]
<1>2. s \in Sockets /\ sock[s] \in Socket
  BY <1>1, Records DEF IInv, SocketTypes
<1>3. /\ r \in Socket
      /\ r.where = sock[s].where
      /\ r.client = sock[s].client
      /\ r.isn = sock[s].isn
      /\ r.connected = sock[s].connected
      /\ r.broken = sock[s].broken
      /\ r.old = sock[s].old
      /\ r.onList = sock[s].onList
      /\ r.listed = sock[s].listed
      /\ r.closing
  BY <1>2, ConnectAssumption DEF ConnectAssumption, Socket
<1>0. sock' = [sock EXCEPT ![s] = r]
  BY <1>1
<1> HIDE DEF r
<1>4. SocketTypes' /\ sock'[s] = r /\ \A t \in Sockets : t # s => sock'[t] = sock[t]
  BY <1>0, <1>2, <1>3, OneSocket DEF IInv
<1>5. SetTypes' /\ ThreadTypes' /\ ClientTypes'
  BY <1>1 DEF IInv, SetTypes, ThreadTypes, ClientTypes, Client
<1>6. Born'
  BY <1>1, <1>2, <1>3, <1>4, Records DEF IInv, Born
<1>7. RefCountIsSockets'
  BY <1>1, <1>3, <1>4, SameCount DEF IInv
<1>8. EachSane'
  BY <1>1, <1>2, <1>3, <1>4, Records DEF IInv, EachSane, Sane, Exists, Live
<1>9. ListenerSane'
  BY <1>1, <1>2, <1>3, <1>4, Records DEF IInv, ListenerSane, Gone, Connecting
<1>10. Unique'
  BY <1>1, <1>2, <1>3, <1>4, Records DEF IInv, Unique, LiveAreTracked,
     NoTwins, NoneAnswers, Stands, Live, Tracked, InMaking,
     SamePeerSameRequest
<1>11. Followed'
  <2>1. PublishesLoose' /\ CleanupBegun'
    BY <1>1, <1>2, <1>3, <1>4, Records DEF IInv, Followed, PublishesLoose,
       CleanupBegun, Live, Serving, Running, Born
  <2>2. ASSUME Serving' PROVE Serving
    BY <2>2, <1>1, <1>2, <1>3, <1>4, Records DEF Serving, Running, Born
  <2>3. ASSUME Serving' PROVE WorkerInside'
    BY <2>2, <2>3, <1>1, <1>2, <1>3, <1>4, Records DEF IInv, Followed,
       WorkerInside, Live, Held, Born
  <2>4. ASSUME Serving' PROVE ProgramInside'
    BY <2>2, <2>4, <1>1, <1>2, <1>3, <1>4, Records DEF IInv, Followed,
       ProgramInside, Held, Born
  <2> QED BY <2>1, <2>3, <2>4 DEF Followed
<1> QED BY <1>4, <1>5, <1>6, <1>7, <1>8, <1>9, <1>10, <1>11 DEF IInv

LEMMA SecondPassesStep ==
  ASSUME IInv, NEW s \in Sockets, SecondPasses(s)
  PROVE  IInv'
<1>1. /\ sock[s].where = "closed"
      /\ ~Uses(s)
      /\ Running
      /\ sock' = [sock EXCEPT ![s] = [sock[s] EXCEPT !.old = TRUE]]
      /\ UNCHANGED <<queued, accepted, listening, newest,
                     refs, tidy, worker, app, gc, cl, net>>
  BY DEF SecondPasses
<1> DEFINE r == [sock[s] EXCEPT !.old = TRUE]
<1>2. s \in Sockets /\ sock[s] \in Socket
  BY <1>1, Records DEF IInv, SocketTypes
<1>3. /\ r \in Socket
      /\ r.where = sock[s].where
      /\ r.client = sock[s].client
      /\ r.isn = sock[s].isn
      /\ r.connected = sock[s].connected
      /\ r.broken = sock[s].broken
      /\ r.closing = sock[s].closing
      /\ r.onList = sock[s].onList
      /\ r.listed = sock[s].listed
      /\ r.old
  BY <1>2, ConnectAssumption DEF ConnectAssumption, Socket
<1>0. sock' = [sock EXCEPT ![s] = r]
  BY <1>1
<1> HIDE DEF r
<1>4. SocketTypes' /\ sock'[s] = r /\ \A t \in Sockets : t # s => sock'[t] = sock[t]
  BY <1>0, <1>2, <1>3, OneSocket DEF IInv
<1>5. SetTypes' /\ ThreadTypes' /\ ClientTypes'
  BY <1>1 DEF IInv, SetTypes, ThreadTypes, ClientTypes, Client
<1>6. Born'
  BY <1>1, <1>2, <1>3, <1>4, Records DEF IInv, Born
<1>7. RefCountIsSockets'
  BY <1>1, <1>3, <1>4, SameCount DEF IInv
<1>8. EachSane'
  BY <1>1, <1>2, <1>3, <1>4, Records DEF IInv, EachSane, Sane, Exists, Live
<1>9. ListenerSane'
  BY <1>1, <1>2, <1>3, <1>4, Records DEF IInv, ListenerSane, Gone, Connecting
<1>10. Unique'
  BY <1>1, <1>2, <1>3, <1>4, Records DEF IInv, Unique, LiveAreTracked,
     NoTwins, NoneAnswers, Stands, Live, Tracked, InMaking,
     SamePeerSameRequest
<1>11. Followed'
  <2>1. PublishesLoose' /\ CleanupBegun'
    BY <1>1, <1>2, <1>3, <1>4, Records DEF IInv, Followed, PublishesLoose,
       CleanupBegun, Live, Serving, Running, Uses, InCall, EachSane, Sane
  <2>2. ASSUME Serving' PROVE Serving
    BY <2>2, <1>1, <1>2, <1>3, <1>4, Records DEF Serving, Running, Uses,
       InCall, EachSane, Sane
  <2>3. ASSUME Serving' PROVE WorkerInside'
    BY <2>2, <2>3, <1>1, <1>2, <1>3, <1>4, Records DEF IInv, Followed,
       WorkerInside, Live, Held, Uses, InCall, EachSane, Sane
  <2>4. ASSUME Serving' PROVE ProgramInside'
    BY <2>2, <2>4, <1>1, <1>2, <1>3, <1>4, Records DEF IInv, Followed,
       ProgramInside, Held, Uses, InCall, EachSane, Sane
  <2> QED BY <2>1, <2>3, <2>4 DEF Followed
<1> QED BY <1>4, <1>5, <1>6, <1>7, <1>8, <1>9, <1>10, <1>11 DEF IInv
-----------------------------------------------------------------------------
(***************************************************************************)
(* Steps that change the listener's sets.                                  *)
(***************************************************************************)

LEMMA QueueSocketStep ==
  ASSUME IInv, QueueSocket
  PROVE  IInv'
<1>1. /\ worker.pc = "queue" /\ worker' = Idle
      /\ queued' = queued \cup {worker.sock}
      /\ net' = net \cup {Answer(worker.msg.from, worker.msg.isn, "accepted", worker.sock)}
      /\ UNCHANGED <<sock, accepted, listening, newest, refs, tidy, app, gc, cl>>
  BY DEF QueueSocket, Rests, Send
<1>2. /\ worker.sock \in Made /\ worker.sock \in Sockets /\ worker.sock <= newest
      /\ worker.msg.from \in Clients \cup {None} /\ worker.msg.isn \in 0..Attempts
      /\ worker'.pc = "idle" /\ worker'.sock = Listener /\ worker'.msg = NoMsg
  BY <1>1, Records DEF IInv, Born, ThreadTypes, Msg, Idle
<1>3. Answer(worker.msg.from, worker.msg.isn, "accepted", worker.sock) \in Msg
  BY <1>2, Messages
<1>4. SocketTypes' /\ SetTypes' /\ RefCountIsSockets'
  BY <1>1, <1>2 DEF IInv, SocketTypes, SetTypes, RefCountIsSockets
<1>5. ThreadTypes'
  BY <1>1, Records DEF IInv, ThreadTypes, WorkerPcs, Idle
<1>6. ClientTypes'
  BY <1>1, <1>3 DEF IInv, ClientTypes
<1>7. Born'
  BY <1>1, <1>2 DEF IInv, Born
<1>8. EachSane' /\ ListenerSane'
  BY <1>1, <1>2 DEF IInv, EachSane, Sane, Exists, Live, ListenerSane, Gone, Connecting
<1>9. Unique'
  BY <1>1, <1>2 DEF IInv, Unique, LiveAreTracked, NoTwins, NoneAnswers, Stands,
     Live, Tracked, InMaking, SamePeerSameRequest
<1>10. Followed'
  BY <1>1, <1>2 DEF IInv, Followed, PublishesLoose, CleanupBegun, WorkerInside,
     ProgramInside, Live, Held, Serving, Running
<1> QED BY <1>4, <1>5, <1>6, <1>7, <1>8, <1>9, <1>10 DEF IInv

LEMMA AcceptPopsStep ==
  ASSUME IInv, AcceptPops
  PROVE  IInv'
<1>1. PICK u \in queued :
        /\ app.pc = "accept" /\ app' = [pc |-> "got", sock |-> u]
        /\ queued' = queued \ {u} /\ accepted' = accepted \cup {u}
        /\ UNCHANGED <<sock, listening, newest, refs, tidy, worker, gc, cl, net>>
  <2>1. queued \in SUBSET Sockets /\ queued # {}
    BY Records DEF AcceptPops, IInv, SetTypes
  <2> QED BY <2>1, NewestIsIn DEF AcceptPops, Goes
<1>2. u \in Made /\ u \in Sockets /\ u <= newest
  BY <1>1, Records DEF IInv, SetTypes, Born
<1>3. SocketTypes' /\ SetTypes' /\ RefCountIsSockets'
  BY <1>1, <1>2 DEF IInv, SocketTypes, SetTypes, RefCountIsSockets
<1>4. ThreadTypes' /\ ClientTypes'
  BY <1>1, <1>2 DEF IInv, ThreadTypes, AppPcs, ClientTypes
<1>5. Born'
  BY <1>1, <1>2 DEF IInv, Born
<1>6. EachSane' /\ ListenerSane'
  BY <1>1 DEF IInv, EachSane, Sane, Exists, Live, ListenerSane, Gone, Connecting
<1>7. Unique'
  BY <1>1 DEF IInv, Unique, LiveAreTracked, NoTwins, NoneAnswers, Stands, Live,
     Tracked, InMaking, SamePeerSameRequest
<1>8. Followed'
  BY <1>1 DEF IInv, Followed, PublishesLoose, CleanupBegun, WorkerInside,
     ProgramInside, Live, Held, Serving, Running
<1> QED BY <1>3, <1>4, <1>5, <1>6, <1>7, <1>8 DEF IInv

(* newConnection without a new socket: an answer, or a refusal.            *)
LEMMA AnsweredStep ==
  ASSUME IInv, Running, worker.pc \in {"find", "make"}, worker' = Idle, net' \subseteq Msg,
         UNCHANGED <<sock, queued, accepted, listening, newest, refs, tidy, app, gc, cl>>
  PROVE  IInv'
<1>1. worker'.pc = "idle" /\ worker'.sock = Listener /\ worker'.msg = NoMsg
  BY DEF Idle
<1>2. SocketTypes' /\ SetTypes' /\ RefCountIsSockets'
  BY DEF IInv, SocketTypes, SetTypes, RefCountIsSockets
<1>3. ThreadTypes' /\ ClientTypes'
  BY Records DEF IInv, ThreadTypes, WorkerPcs, Idle, ClientTypes
<1>4. Born'
  BY <1>1 DEF IInv, Born
<1>5. EachSane' /\ ListenerSane'
  BY <1>1 DEF IInv, EachSane, Sane, Exists, Live, ListenerSane, Gone, Connecting
<1>6. Unique'
  BY <1>1 DEF IInv, Unique, LiveAreTracked, NoTwins, NoneAnswers, Stands, Live,
     Tracked, InMaking, SamePeerSameRequest
<1>7. Followed'
  BY <1>1 DEF IInv, Followed, PublishesLoose, CleanupBegun, WorkerInside,
     ProgramInside, Live, Held, Serving, Running
<1> QED BY <1>2, <1>3, <1>4, <1>5, <1>6, <1>7 DEF IInv

(* The request that newConnection answers.                                 *)
LEMMA RequestFacts ==
  ASSUME IInv, worker.pc \in {"find", "make"}
  PROVE  /\ worker.msg \in Msg /\ worker.msg.from \in Clients \cup {None}
         /\ worker.msg.isn \in 0..Attempts /\ worker.msg.val = 1 /\ newest < MaxSockets
         /\ worker.sock = Listener /\ net \subseteq Msg
         /\ \A what \in {"accepted", "refused"}, v \in Sockets :
              Answer(worker.msg.from, worker.msg.isn, what, v) \in Msg
<1>1. worker.msg \in Msg
  BY DEF IInv, ThreadTypes
<1>2. worker.msg.from \in Clients \cup {None} /\ worker.msg.isn \in 0..Attempts
  BY <1>1 DEF Msg
<1>3. worker.msg.val = 1 /\ newest < MaxSockets /\ worker.sock = Listener
  BY DEF IInv, Born
<1>4. net \subseteq Msg
  BY DEF IInv, ClientTypes
<1> QED BY <1>1, <1>2, <1>3, <1>4, Messages

(* No connection answers the request: one will be made.                    *)
LEMMA NothingFoundStep ==
  ASSUME IInv, Running, worker.pc = "find", Found(worker.msg) = {},
         worker' = [pc |-> "make", msg |-> worker.msg, sock |-> Listener],
         UNCHANGED <<sock, queued, accepted, listening, newest, refs, tidy, app, gc, cl, net>>
  PROVE  IInv'
<1>1. worker'.pc = "make" /\ worker'.sock = Listener /\ worker'.msg = worker.msg
  OBVIOUS
<1>2. SocketTypes' /\ SetTypes' /\ RefCountIsSockets'
  BY DEF IInv, SocketTypes, SetTypes, RefCountIsSockets
<1>3. ThreadTypes' /\ ClientTypes'
  BY Records, RequestFacts DEF IInv, ThreadTypes, WorkerPcs, ClientTypes
<1>4. Born'
  BY <1>1, RequestFacts DEF IInv, Born
<1>5. EachSane' /\ ListenerSane'
  BY <1>1 DEF IInv, EachSane, Sane, Exists, Live, ListenerSane, Gone, Connecting
<1>6. Unique'
  <2>1. LiveAreTracked' /\ NoTwins'
    BY <1>1 DEF IInv, Unique, LiveAreTracked, NoTwins, Stands, Live, Tracked, InMaking
  <2>2. NoneAnswers'
    BY <1>1 DEF IInv, NoneAnswers, Found, SamePeerSameRequest
  <2> QED BY <2>1, <2>2 DEF Unique
<1>7. Followed'
  BY <1>1 DEF IInv, Followed, PublishesLoose, CleanupBegun, WorkerInside,
     ProgramInside, Live, Held, Serving, Running
<1> QED BY <1>2, <1>3, <1>4, <1>5, <1>6, <1>7 DEF IInv

(* A broken connection answers the request: it leaves the listener's sets, *)
(* and as no other answered it, none does now.                             *)
LEMMA BrokenFoundStep ==
  ASSUME IInv, Running, worker.pc = "find", NEW s \in Found(worker.msg), sock[s].broken,
         sock' = [sock EXCEPT ![s].status = "CLOSED", ![s].old = FALSE],
         queued' = queued \ {s}, accepted' = accepted \ {s},
         worker' = [pc |-> "make", msg |-> worker.msg, sock |-> Listener],
         UNCHANGED <<listening, newest, refs, tidy, app, gc, cl, net>>
  PROVE  IInv'
<1> DEFINE r == [sock[s] EXCEPT !.status = "CLOSED", !.old = FALSE]
<1>1. worker'.pc = "make" /\ worker'.sock = Listener /\ worker'.msg = worker.msg
  OBVIOUS
<1>2. s \in Made /\ s \in Sockets /\ sock[s] \in Socket /\ s \in queued \cup accepted
      /\ sock[s].where = "open" /\ SamePeerSameRequest(s, worker.msg)
  BY Records DEF Found, IInv, SetTypes, SocketTypes
<1>3. /\ r \in Socket
      /\ r.where = "open" /\ r.client = sock[s].client /\ r.isn = sock[s].isn
      /\ r.connected = sock[s].connected /\ r.broken = sock[s].broken
      /\ r.closing = sock[s].closing /\ r.listed = sock[s].listed
      /\ r.onList = sock[s].onList /\ ~r.old
  BY <1>2 DEF Socket
<1>4. sock' = [sock EXCEPT ![s] = r]
  BY <1>2 DEF IInv, SocketTypes
<1> HIDE DEF r
<1>5. SocketTypes' /\ sock'[s] = r /\ \A t \in Sockets : t # s => sock'[t] = sock[t]
  BY <1>2, <1>3, <1>4, OneSocket DEF IInv
<1>14. ASSUME NEW t \in Sockets
       PROVE  /\ sock'[t].where = sock[t].where /\ sock'[t].client = sock[t].client
              /\ sock'[t].isn = sock[t].isn /\ sock'[t].connected = sock[t].connected
              /\ sock'[t].broken = sock[t].broken /\ sock'[t].closing = sock[t].closing
              /\ sock'[t].listed = sock[t].listed /\ sock'[t].onList = sock[t].onList
              /\ (sock'[t].old => sock[t].old)
  <2>1. CASE t = s
    BY <1>2, <1>3, <1>5, <2>1
  <2>2. CASE t # s
    BY <1>5, <2>2
  <2> QED BY <2>1, <2>2
<1>15. \A t \in Sockets : Live(t)' <=> Live(t)
  BY <1>14 DEF Live
<1>6. SetTypes'
  BY DEF IInv, SetTypes
<1>7. ThreadTypes' /\ ClientTypes'
  BY Records, RequestFacts DEF IInv, ThreadTypes, WorkerPcs, ClientTypes
<1>8. RefCountIsSockets'
  BY <1>2, <1>3, <1>5, SameCount DEF IInv
<1>9. Born'
  <2>1. \A t \in Made : t \in Sockets /\ sock'[t].where = sock[t].where
    BY <1>14, Records
  <2> QED BY <1>1, <2>1, RequestFacts DEF IInv, Born
<1>10. EachSane'
  <2> SUFFICES ASSUME NEW t \in Sockets PROVE Sane(t)'
    BY DEF EachSane
  <2>1. Sane(t)
    BY DEF IInv, EachSane
  <2>2. sock[t].where # "loose"
    BY <2>1 DEF Sane
  <2>3. sock'[t].listed # "no" => sock'[t].onList /\ Exists(t)'
    BY <1>14, <2>1 DEF Sane, Exists
  <2>4. sock'[t].old => sock'[t].where = "closed"
    BY <1>14, <2>1 DEF Sane
  <2>5. sock'[t].where \notin {"loose", "open"} => ~Live(t)'
    BY <1>14, <1>15, <2>1 DEF Sane
  <2> QED BY <1>14, <2>2, <2>3, <2>4, <2>5 DEF Sane
<1>11. ListenerSane'
  BY <1>1, <1>2, <1>3, <1>5, Records DEF IInv, ListenerSane, Gone, Connecting
<1>12. Unique'
  <2>1. \A t \in Made : /\ t \in Sockets /\ sock'[t].where = sock[t].where
                        /\ sock'[t].client = sock[t].client /\ sock'[t].isn = sock[t].isn
                        /\ (Live(t)' <=> Live(t))
    BY <1>14, <1>15, Records
  <2>2. \A t \in Made : Stands(t)' => Stands(t) /\ t # s
    BY <1>1, <1>2, <2>1 DEF Stands, Tracked, InMaking
  <2>3. LiveAreTracked'
    <3>1. ~Live(s)
      BY DEF Live
    <3>2. \A t \in Made : t # s /\ Tracked(t) => Tracked(t)'
      BY <1>1 DEF Tracked, InMaking
    <3> QED BY <2>1, <3>1, <3>2 DEF IInv, Unique, LiveAreTracked
  <2>4. NoTwins'
    BY <2>1, <2>2 DEF IInv, Unique, NoTwins
  <2>5. NoneAnswers'
    <3> SUFFICES ASSUME NEW t \in queued' \cup accepted', sock'[t].where = "open",
                        SamePeerSameRequest(t, worker.msg)'
                 PROVE  FALSE
      BY DEF NoneAnswers
    <3>1. t \in Made /\ t \in queued \cup accepted /\ t # s
      BY DEF IInv, SetTypes
    <3>2. sock[t].client = sock[s].client /\ sock[t].isn = sock[s].isn /\ sock[t].where = "open"
      BY <1>1, <1>2, <2>1, <3>1 DEF SamePeerSameRequest
    <3>3. Stands(s) /\ Stands(t)
      BY <1>2, <3>1, <3>2 DEF Stands, Tracked
    <3> QED BY <1>2, <3>1, <3>2, <3>3 DEF IInv, Unique, NoTwins
  <2> QED BY <2>3, <2>4, <2>5 DEF Unique
<1>13. Followed'
  <2>1. PublishesLoose' /\ CleanupBegun'
    BY <1>1, <1>2, <1>3, <1>5, Records DEF IInv, Followed, PublishesLoose,
       CleanupBegun, Live, Serving, Running, Born
  <2>2. ASSUME Serving' PROVE Serving
    BY <2>2, <1>1, <1>2, <1>3, <1>5, Records DEF Serving, Running, Born
  <2>3. ASSUME Serving' PROVE WorkerInside'
    BY <2>2, <2>3, <1>1, <1>2, <1>3, <1>5, Records DEF IInv, Followed,
       WorkerInside, Live, Held, Born
  <2>4. ASSUME Serving' PROVE ProgramInside'
    <3>1. \A t \in Sockets : /\ sock'[t].where = sock[t].where
                             /\ (sock[t].closing => sock'[t].closing)
                             /\ (~sock[t].old => ~sock'[t].old)
      BY <1>14
    <3>2. \A t \in Sockets : Held(t) => Held(t)'
      BY <3>1 DEF Held
    <3>3. Listener \in Sockets /\ app.sock \in Sockets
      BY Records DEF IInv, ThreadTypes
    <3>4. ProgramInside
      BY <2>2, <2>4 DEF IInv, Followed
    <3> QED BY <3>1, <3>2, <3>3, <3>4 DEF ProgramInside
  <2> QED BY <2>1, <2>3, <2>4 DEF Followed
<1> QED BY <1>5, <1>6, <1>7, <1>8, <1>9, <1>10, <1>11, <1>12, <1>13 DEF IInv

LEMMA FindConnectionStep ==
  ASSUME IInv, FindConnection
  PROVE  IInv'
<1> DEFINE m == worker.msg
           a == Answer(m.from, m.isn, "refused", 0)
           A(s) == Answer(m.from, m.isn, "accepted", s)
<1>1. /\ Running /\ worker.pc = "find"
      /\ UNCHANGED <<listening, newest, refs, tidy, app, gc, cl>>
  BY DEF FindConnection
<1>2. \/ /\ net' = net \cup {a} /\ worker' = Idle /\ UNCHANGED <<sock, queued, accepted>>
      \/ /\ Found(m) = {} /\ worker' = [pc |-> "make", msg |-> m, sock |-> Listener]
         /\ UNCHANGED <<sock, queued, accepted, net>>
      \/ \E s \in Found(m) :
           \/ /\ net' = net \cup {A(s)} /\ worker' = Idle
              /\ UNCHANGED <<sock, queued, accepted>>
           \/ /\ sock[s].broken /\ worker' = [pc |-> "make", msg |-> m, sock |-> Listener]
              /\ sock' = [sock EXCEPT ![s].status = "CLOSED", ![s].old = FALSE]
              /\ queued' = queued \ {s} /\ accepted' = accepted \ {s} /\ UNCHANGED net
  BY DEF FindConnection, Works, Rests, Send
<1>3. net \subseteq Msg /\ a \in Msg /\ \A s \in Found(m) : A(s) \in Msg
  BY <1>1, RequestFacts, Records DEF Found, IInv, SetTypes, Listener
<1> HIDE DEF a, A
<1>4. CASE net' = net \cup {a} /\ worker' = Idle /\ UNCHANGED <<sock, queued, accepted>>
  BY <1>1, <1>3, <1>4, AnsweredStep
<1>5. CASE /\ Found(m) = {} /\ worker' = [pc |-> "make", msg |-> m, sock |-> Listener]
           /\ UNCHANGED <<sock, queued, accepted, net>>
  BY <1>1, <1>5, NothingFoundStep
<1>6. ASSUME NEW s \in Found(m), net' = net \cup {A(s)}, worker' = Idle,
             UNCHANGED <<sock, queued, accepted>>
      PROVE  IInv'
  BY <1>1, <1>3, <1>6, AnsweredStep
<1>7. ASSUME NEW s \in Found(m),
             sock[s].broken, worker' = [pc |-> "make", msg |-> m, sock |-> Listener],
             sock' = [sock EXCEPT ![s].status = "CLOSED", ![s].old = FALSE],
             queued' = queued \ {s}, accepted' = accepted \ {s}, UNCHANGED net
      PROVE  IInv'
  BY <1>1, <1>7, BrokenFoundStep
<1> QED BY <1>2, <1>4, <1>5, <1>6, <1>7

(* The new socket shares the multiplexer.                                  *)
LEMMA OneMore ==
  ASSUME RefCountIsSockets, NEW n \in Sockets, sock[n].where = "none", refs' = refs + 1,
         sock'[n].where = "loose", \A t \in Sockets : t # n => sock'[t] = sock[t]
  PROVE  RefCountIsSockets'
<1> DEFINE E == {s \in Sockets : sock[s].where \notin {"none", "gone"}}
           F == {s \in Sockets : sock'[s].where \notin {"none", "gone"}}
<1>1. F = E \cup {n} /\ n \notin E /\ E \in SUBSET Sockets
  OBVIOUS
<1>2. IsFiniteSet(E)
  BY <1>1, FiniteSockets, FS_Subset
<1>3. Cardinality(F) = Cardinality(E) + 1
  BY <1>1, <1>2, FS_AddElement
<1> QED BY <1>3 DEF RefCountIsSockets

LEMMA MakeConnectionStep ==
  ASSUME IInv, MakeConnection
  PROVE  IInv'
<1> DEFINE m == worker.msg
           n == newest + 1
           r == Answered(m)
<1>1. /\ Running /\ worker.pc = "make"
      /\ UNCHANGED <<queued, accepted, listening, tidy, app, gc, cl>>
  BY DEF MakeConnection
<1>2. CASE /\ net' = net \cup {Answer(m.from, m.isn, "refused", 0)} /\ worker' = Idle
           /\ UNCHANGED <<sock, newest, refs>>
  BY <1>1, <1>2, RequestFacts, AnsweredStep, Records DEF Listener
<1>3. CASE /\ newest' = n /\ refs' = refs + 1 /\ sock' = [sock EXCEPT ![n] = r]
           /\ worker' = [pc |-> "publish", msg |-> m, sock |-> n] /\ UNCHANGED net
  <2>1. /\ n \in Made /\ n \in Sockets /\ newest \in Int /\ n \in Int /\ newest <= n
        /\ n <= MaxSockets
        /\ n > newest /\ n # Listener /\ n \in 0..MaxSockets /\ ~(n <= newest)
    BY <1>1, RequestFacts, Records, ConnectAssumption DEF IInv, SetTypes,
       ConnectAssumption, Listener
  <2>2. sock[n].where = "none" /\ n \notin queued \cup accepted \cup {app.sock}
    BY <2>1 DEF IInv, Born
  <2>3. /\ r \in Socket /\ r.where = "loose" /\ r.client = m.from /\ r.isn = m.isn
        /\ r.connected /\ ~r.broken /\ ~r.closing /\ r.listed = "new" /\ r.onList /\ ~r.old
    BY <1>1, RequestFacts, Records DEF Answered, Open, Unmade, Socket
  <2>4. worker'.pc = "publish" /\ worker'.sock = n /\ worker'.msg = m
    BY <1>3
  <2>5. /\ newest' = n /\ refs' = refs + 1 /\ sock' = [sock EXCEPT ![n] = r]
        /\ worker' = [pc |-> "publish", msg |-> m, sock |-> n] /\ UNCHANGED net
    BY <1>3
  <2> HIDE DEF r, n
  <2>6. SocketTypes' /\ sock'[n] = r /\ \A t \in Sockets : t # n => sock'[t] = sock[t]
    BY <2>1, <2>3, <2>5, OneSocket DEF IInv
  <2>7. SetTypes'
    BY <1>1, <2>1, <2>5 DEF IInv, SetTypes
  <2>8. ThreadTypes' /\ ClientTypes'
    BY <1>1, <2>1, <2>5, RequestFacts DEF IInv, ThreadTypes, WorkerPcs, ClientTypes
  <2>9. RefCountIsSockets'
    BY <2>1, <2>2, <2>3, <2>5, <2>6, OneMore DEF IInv
  <2>10. Born'
    <3>1. \A s \in Made : s \in Int /\ (s > n <=> s > newest /\ s # n)
      BY <2>1, Records DEF n
    <3>2. \A s \in Made : sock'[s].where = "none" <=> s > newest'
      BY <1>1, <2>1, <2>2, <2>3, <2>5, <2>6, <3>1, Records DEF IInv, Born
    <3>3. \A s \in queued \cup accepted \cup {app.sock} : s <= newest'
      BY <2>1, <2>5, Records DEF IInv, Born, SetTypes, ThreadTypes
    <3> QED BY <1>1, <2>1, <2>2, <2>4, <2>5, <3>2, <3>3 DEF IInv, Born
  <2>11. EachSane'
    <3> SUFFICES ASSUME NEW s \in Sockets PROVE Sane(s)'
      BY DEF EachSane
    <3>1. Sane(s)
      BY DEF IInv, EachSane
    <3>2. CASE s = n
      BY <2>3, <2>4, <2>6, <3>2 DEF Sane, Exists
    <3>3. CASE s # n
      <4>1. sock'[s] = sock[s]
        BY <2>6, <3>3
      <4>2. sock[s].where # "loose"
        BY <1>1, <3>1 DEF Sane
      <4> QED BY <3>1, <4>1, <4>2 DEF Sane, Exists, Live
    <3> QED BY <3>2, <3>3
  <2>12. ListenerSane'
    BY <1>1, <2>1, <2>4, <2>6, Records DEF IInv, ListenerSane, Gone, Connecting
  <2>13. Unique'
    BY <1>1, <2>1, <2>2, <2>3, <2>4, <2>6, Records DEF IInv, Unique, LiveAreTracked,
       NoTwins, NoneAnswers, Stands, Live, Tracked, InMaking,
       SamePeerSameRequest, EachSane, Sane
  <2>14. Followed'
    <3>1. PublishesLoose' /\ CleanupBegun'
      BY <1>1, <2>1, <2>2, <2>3, <2>4, <2>6, Records DEF IInv, Followed,
         PublishesLoose, CleanupBegun, Live, Serving, Running, Born
    <3>2. ASSUME Serving' PROVE Serving
      BY <3>2, <1>1, <2>1, <2>2, <2>3, <2>4, <2>6, Records DEF Serving, Running,
         Born
    <3>3. ASSUME Serving' PROVE WorkerInside'
      BY <3>2, <3>3, <1>1, <2>1, <2>2, <2>3, <2>4, <2>6, Records DEF IInv,
         Followed, WorkerInside, Live, Held, Born
    <3>4. ASSUME Serving' PROVE ProgramInside'
      BY <3>2, <3>4, <1>1, <2>1, <2>2, <2>3, <2>4, <2>6, Records DEF IInv,
         Followed, ProgramInside, Held, Born
    <3> QED BY <3>1, <3>3, <3>4 DEF Followed
  <2> QED BY <2>6, <2>7, <2>8, <2>9, <2>10, <2>11, <2>12, <2>13, <2>14 DEF IInv
<1> QED BY <1>2, <1>3 DEF MakeConnection, CountOne, Works, Rests, Send

-----------------------------------------------------------------------------
(***************************************************************************)
(* Closing: the program, the collector.                                    *)
(***************************************************************************)

LEMMA GoodbyeIsMsg ==
  ASSUME IInv, NEW s \in Sockets
  PROVE  Goodbye(s) \subseteq Msg
<1>1. sock[s].client \in Clients \cup {None}
  BY DEF IInv, SocketTypes, Socket
<1> QED BY <1>1, Messages DEF Goodbye

LEMMA ProgramClosesStep ==
  ASSUME IInv, HandleCloses, Located(app.sock)
  PROVE  IInv'
<1>1. PICK s \in Sockets :
        /\ s = app.sock
        /\ app.pc = "up"
        /\ sock' = [sock EXCEPT ![s] = Closed(sock[s])]
        /\ UNCHANGED <<queued, accepted, listening, newest, refs, tidy, worker, gc, cl>>
        /\ app' = [pc |-> "bye", sock |-> app.sock]
        /\ net' = net \cup Goodbye(s)
  BY DEF HandleCloses, IInv, ThreadTypes, Goes, Send
<1> DEFINE r == Closed(sock[s])
<1>2. s \in Sockets /\ sock[s] \in Socket
  BY <1>1, Records DEF IInv, SocketTypes
<1>3. /\ r \in Socket
      /\ r.where = sock[s].where
      /\ r.client = sock[s].client
      /\ r.isn = sock[s].isn
      /\ r.broken = sock[s].broken
      /\ r.old = sock[s].old
      /\ r.onList = sock[s].onList
      /\ r.listed = sock[s].listed
      /\ r.closing
      /\ ~r.connected
  BY <1>2, ConnectAssumption DEF ConnectAssumption, Socket, Closed
<1>0. sock' = [sock EXCEPT ![s] = r]
  BY <1>1
<1> HIDE DEF r
<1>4. SocketTypes' /\ sock'[s] = r /\ \A t \in Sockets : t # s => sock'[t] = sock[t]
  BY <1>0, <1>2, <1>3, OneSocket DEF IInv
<1>w. /\ s \in Made /\ sock[s].where = "open" /\ ~sock[s].old /\ s # Listener
      /\ Goodbye(s) \subseteq Msg
  BY <1>1, <1>2, Records, GoodbyeIsMsg DEF Located, IInv, EachSane, Sane, Born
<1>5. SetTypes'
  BY <1>1 DEF IInv, SetTypes
<1>6. ThreadTypes'
  BY <1>1, <1>2, <1>3, <1>4, <1>w, Records DEF IInv, ThreadTypes, AppPcs
<1>7. ClientTypes'
  BY <1>1, <1>2, <1>3, <1>4, <1>w, Records DEF IInv, ClientTypes, Client
<1>8. Born'
  BY <1>1, <1>2, <1>3, <1>4, <1>w, Records DEF IInv, Born
<1>9. RefCountIsSockets'
  BY <1>1, <1>3, <1>4, <1>w, SameCount DEF IInv
<1>10. EachSane'
  BY <1>1, <1>2, <1>3, <1>4, <1>w, Records DEF IInv, EachSane, Sane, Exists,
     Live
<1>11. ListenerSane'
  BY <1>1, <1>2, <1>3, <1>4, <1>w, Records DEF IInv, ListenerSane, Gone,
     Connecting
<1>12. Unique'
  BY <1>1, <1>2, <1>3, <1>4, <1>w, Records DEF IInv, Unique, LiveAreTracked,
     NoTwins, NoneAnswers, Stands, Live, Tracked, InMaking,
     SamePeerSameRequest
<1>13. Followed'
  <2>1. PublishesLoose' /\ CleanupBegun'
    BY <1>1, <1>2, <1>3, <1>4, <1>w, Records DEF IInv, Followed,
       PublishesLoose, CleanupBegun, Live, Serving, Running, Born
  <2>2. ASSUME Serving' PROVE Serving
    BY <2>2, <1>1, <1>2, <1>3, <1>4, <1>w, Records DEF Serving, Running, Born
  <2>3. ASSUME Serving' PROVE WorkerInside'
    BY <2>2, <2>3, <1>1, <1>2, <1>3, <1>4, <1>w, Records DEF IInv, Followed,
       WorkerInside, Live, Held, Born
  <2>4. ASSUME Serving' PROVE ProgramInside'
    BY <2>2, <2>4, <1>1, <1>2, <1>3, <1>4, <1>w, Records DEF IInv, Followed,
       ProgramInside, Held, Born
  <2> QED BY <2>1, <2>3, <2>4 DEF Followed
<1> QED BY <1>4, <1>5, <1>6, <1>7, <1>8, <1>9, <1>10, <1>11, <1>12, <1>13 DEF IInv

LEMMA HandleClosesStep ==
  ASSUME IInv, HandleCloses
  PROVE  IInv'
<1>1. CASE Located(app.sock)
  BY <1>1, ProgramClosesStep
<1>2. CASE ~Located(app.sock)
  <2>1. /\ app.pc = "up" /\ app' = [pc |-> "cleanup", sock |-> app.sock]
        /\ UNCHANGED <<sock, queued, accepted, listening, newest,
                       refs, tidy, worker, gc, cl, net>>
    BY <1>2 DEF HandleCloses, Goes
  <2>2. SocketTypes' /\ SetTypes' /\ RefCountIsSockets' /\ ClientTypes'
    BY <2>1 DEF IInv, SocketTypes, SetTypes, RefCountIsSockets, ClientTypes
  <2>3. ThreadTypes' /\ Born'
    BY <2>1 DEF IInv, ThreadTypes, AppPcs, Born
  <2>4. EachSane' /\ ListenerSane' /\ Unique'
    BY <2>1 DEF IInv, EachSane, Sane, Exists, Live, ListenerSane, Gone, Connecting,
       Unique,
       LiveAreTracked, NoTwins, NoneAnswers, Stands, Tracked, InMaking, SamePeerSameRequest
  <2>5. Followed'
    BY <2>1 DEF IInv, Followed, PublishesLoose, CleanupBegun, WorkerInside, ProgramInside,
       Live, Held, Serving, Running
  <2> QED BY <2>2, <2>3, <2>4, <2>5 DEF IInv
<1> QED BY <1>1, <1>2

LEMMA CleanupClosesStep ==
  ASSUME IInv, CleanupCloses
  PROVE  IInv'
<1>1. PICK s \in Sockets :
        /\ gc = "close" /\ sock[s].where = "open"
        /\ s = Listener => sock[s].closing /\ ~Connecting
        /\ sock' = [sock EXCEPT ![s] = ToClosed(Closed(sock[s]))]
        /\ listening' = (listening /\ s # Listener)
        /\ queued' = queued \ {s} /\ accepted' = accepted \ {s}
        /\ net' = net \cup Goodbye(s)
        /\ UNCHANGED <<newest, refs, tidy, worker, app, gc, cl>>
  <2>1. In("open") \in SUBSET Sockets /\ In("open") # {}
    BY DEF CleanupCloses, In
  <2>2. Newest(In("open")) \in In("open")
    BY <2>1, NewestIsIn
  <2> QED BY <2>1, <2>2 DEF CleanupCloses, In, Send
<1> DEFINE r == ToClosed(Closed(sock[s]))
<1>2. s \in Sockets /\ sock[s] \in Socket
  BY DEF IInv, SocketTypes
<1>3. /\ r \in Socket /\ r.where = "closed" /\ ~r.old /\ ~r.connected /\ r.closing
      /\ r.client = sock[s].client /\ r.isn = sock[s].isn /\ r.broken = sock[s].broken
      /\ r.onList = sock[s].onList /\ r.listed = sock[s].listed
  BY <1>2 DEF Socket, ToClosed, Closed
<1>4. sock' = [sock EXCEPT ![s] = r]
  BY <1>1
<1> HIDE DEF r
<1>5. SocketTypes' /\ sock'[s] = r /\ \A t \in Sockets : t # s => sock'[t] = sock[t]
  BY <1>2, <1>3, <1>4, OneSocket DEF IInv
<1>6. ~Serving
  BY <1>1 DEF IInv, Followed, CleanupBegun
<1>7. SetTypes' /\ ThreadTypes'
  BY <1>1 DEF IInv, SetTypes, ThreadTypes
<1>8. ClientTypes'
  BY <1>1, GoodbyeIsMsg DEF IInv, ClientTypes
<1>9. RefCountIsSockets'
  BY <1>1, <1>3, <1>5, SameCount DEF IInv
<1>10. Born'
  <2>1. \A t \in Made : t \in Sockets /\ (sock'[t].where = "none" <=> sock[t].where = "none")
    BY <1>1, <1>3, <1>5, Records
  <2> QED BY <1>1, <2>1 DEF IInv, Born
<1>11. EachSane'
  BY <1>1, <1>3, <1>5 DEF IInv, EachSane, Sane, Exists, Live
<1>12. ListenerSane'
  BY <1>1, <1>3, <1>5, Records DEF IInv, ListenerSane, Gone, Connecting
<1>13. LiveAreTracked'
  BY <1>1, <1>3, <1>5, Records DEF IInv, Unique, LiveAreTracked, Live, Tracked, InMaking
<1>14. NoTwins'
  BY <1>1, <1>3, <1>5, Records DEF IInv, Unique, NoTwins, Stands, Tracked, InMaking
<1>15. NoneAnswers'
  BY <1>1, <1>3, <1>5, Records DEF IInv, Unique, NoneAnswers, SamePeerSameRequest,
     SetTypes
<1>16. Followed'
  <2>1. PublishesLoose'
    BY <1>1, <1>5 DEF IInv, Followed, PublishesLoose, Live, ThreadTypes
  <2>2. ~Serving'
    BY <1>1, <1>6 DEF Serving, Running
  <2> QED BY <2>1, <2>2 DEF Followed, CleanupBegun
<1> QED BY <1>5, <1>7, <1>8, <1>9, <1>10, <1>11, <1>12, <1>13, <1>14, <1>15, <1>16
   DEF IInv, Unique

LEMMA CleanupDrainsStep ==
  ASSUME IInv, CleanupDrains
  PROVE  IInv'
<1>1. /\ gc = "close" /\ gc' = "drain"
      /\ sock' = [s \in Sockets |-> IF sock[s].where = "closed"
                                    THEN [sock[s] EXCEPT !.old = TRUE] ELSE sock[s]]
      /\ UNCHANGED <<queued, accepted, listening, newest, refs, tidy, worker, app, cl, net>>
  BY DEF CleanupDrains
<1>2. ASSUME NEW s \in Sockets
      PROVE  /\ sock'[s] \in Socket /\ sock'[s].where = sock[s].where
             /\ sock'[s].client = sock[s].client /\ sock'[s].isn = sock[s].isn
             /\ sock'[s].connected = sock[s].connected /\ sock'[s].broken = sock[s].broken
             /\ sock'[s].closing = sock[s].closing /\ sock'[s].listed = sock[s].listed
             /\ sock'[s].onList = sock[s].onList
             /\ (sock'[s].old => sock[s].where = "closed")
  <2>1. sock[s] \in Socket /\ (sock[s].old => sock[s].where = "closed")
    BY DEF IInv, SocketTypes, EachSane, Sane
  <2>2. CASE sock[s].where = "closed"
    BY <1>1, <2>1, <2>2 DEF Socket
  <2>3. CASE sock[s].where # "closed"
    BY <1>1, <2>1, <2>3
  <2> QED BY <2>2, <2>3
<1>3. SocketTypes'
  <2>1. DOMAIN sock' = Sockets /\ sock' = [s \in Sockets |-> sock'[s]]
    BY <1>1
  <2> QED BY <1>2, <2>1 DEF SocketTypes
<1>4. SetTypes' /\ ThreadTypes' /\ ClientTypes'
  BY <1>1 DEF IInv, SetTypes, ThreadTypes, ClientTypes
<1>5. RefCountIsSockets'
  BY <1>1, <1>2, SameCount DEF IInv
<1>6. Born'
  BY <1>1, <1>2, Records DEF IInv, Born
<1>7. \A s \in Sockets : Live(s)' = Live(s)
  BY <1>2 DEF Live
<1>8. EachSane'
  BY <1>1, <1>2, <1>7 DEF IInv, EachSane, Sane, Exists
<1>9. ListenerSane'
  BY <1>1, <1>2, Records DEF IInv, ListenerSane, Gone, Connecting
<1>10. Unique'
  BY <1>1, <1>2, <1>7, Records DEF IInv, Unique, LiveAreTracked, NoTwins,
     NoneAnswers, Stands,
     Tracked, InMaking, SamePeerSameRequest, SetTypes
<1>11. Followed'
  <2>1. PublishesLoose'
    BY <1>1, <1>2, <1>7 DEF IInv, Followed, PublishesLoose, ThreadTypes
  <2>2. ~Serving'
    BY <1>1 DEF IInv, Followed, CleanupBegun, Serving, Running
  <2> QED BY <2>1, <2>2 DEF Followed, CleanupBegun
<1> QED BY <1>3, <1>4, <1>5, <1>6, <1>8, <1>9, <1>10, <1>11 DEF IInv

(* What a round of the collector does to each socket: it deletes it, closes *)
(* it, or leaves it but for the rounds that it still waits.                *)
Deleted(s) ==
    /\ sock[s].where = "closed" /\ sock[s].old /\ sock[s].listed = "no" /\ s \in ToBeRemoved
    /\ sock'[s].where = "gone" /\ ~sock'[s].old /\ sock'[s].listed = "no"
    /\ ~sock'[s].connected /\ ~sock'[s].broken
ClosedNow(s) ==
    /\ sock[s].where = "open" /\ s \notin ToBeRemoved /\ (sock[s].broken \/ s \in queued)
    /\ sock'[s].where = "closed" /\ ~sock'[s].old /\ ~Live(s)'
    /\ (sock[s].closing => sock'[s].closing)
    /\ sock'[s].listed = sock[s].listed /\ sock'[s].onList = sock[s].onList
    /\ sock'[s].client = sock[s].client /\ sock'[s].isn = sock[s].isn
Left(s) ==
    /\ s \notin ToBeRemoved /\ s \notin ToBeClosed
    /\ s \in Orphans => sock[s].where # "open"
    /\ sock'[s].where = sock[s].where /\ sock'[s].old = sock[s].old
    /\ sock'[s].connected = sock[s].connected /\ sock'[s].broken = sock[s].broken
    /\ sock'[s].closing = sock[s].closing
    /\ sock'[s].listed = sock[s].listed /\ sock'[s].onList = sock[s].onList
    /\ sock'[s].client = sock[s].client /\ sock'[s].isn = sock[s].isn

LEMMA RoundOfSocket ==
  ASSUME IInv, CheckBrokenSockets, NEW s \in Sockets
  PROVE  sock'[s] \in Socket /\ (Deleted(s) \/ ClosedNow(s) \/ Left(s))
<1> DEFINE del == [Unmade EXCEPT !.where = "gone", !.listed = sock[s].listed]
           off == ToClosed(sock[s])
           end == ToClosed(Closed(sock[s]))
           dec == [sock[s] EXCEPT !.rounds = @ - 1]
<1>1. sock'[s] = CASE s \in ToBeRemoved -> del
                   [] s \in ToBeClosed -> off
                   [] s \in Orphans /\ s \notin ToBeClosed /\ sock[s].where = "open" -> end
                   [] s \in Broken \ (ToBeClosed \cup Orphans) -> dec
                   [] OTHER -> sock[s]
  BY DEF CheckBrokenSockets
<1>2. /\ sock[s] \in Socket /\ (sock[s].listed # "no" => sock[s].onList)
      /\ (sock[s].old => sock[s].where = "closed")
      /\ (sock[s].where \notin {"loose", "open"} => ~Live(s))
  BY DEF IInv, SocketTypes, EachSane, Sane
<1>3. /\ s \in ToBeRemoved <=> sock[s].where = "closed" /\ sock[s].old /\ ~sock[s].onList
      /\ s \in ToBeClosed <=> sock[s].where = "open" /\ sock[s].broken /\ ~StaysOpen(s)
      /\ s \in Broken <=> sock[s].where = "open" /\ sock[s].broken
      /\ s \in Orphans => s \in queued
  BY DEF ToBeRemoved, Removable, ToBeClosed, Broken, In, Orphans, StillQueued
<1> HIDE DEF del, off, end, dec
<1>4. CASE s \in ToBeRemoved
  <2>1. sock'[s] = del
    BY <1>1, <1>3, <1>4
  <2>2. /\ del \in Socket /\ del.where = "gone" /\ ~del.old /\ del.listed = sock[s].listed
        /\ ~del.connected /\ ~del.broken
    <3>1. /\ del.where = "gone" /\ del.listed = sock[s].listed /\ del.old = FALSE
          /\ del.connected = FALSE /\ del.broken = FALSE
      BY DEF del, Unmade
    <3>2. sock[s].listed \in {"no", "new", "hash"}
      BY <1>2 DEF Socket
    <3>3. del \in Socket
      BY <3>2, Records DEF del, Socket
    <3> QED BY <3>1, <3>3
  <2> QED BY <1>2, <1>3, <1>4, <2>1, <2>2 DEF Deleted
<1>5. CASE s \in ToBeClosed
  <2>1. sock'[s] = off
    BY <1>1, <1>3, <1>5
  <2>2. /\ off \in Socket /\ off.where = "closed" /\ ~off.old /\ off.broken = sock[s].broken
        /\ off.closing = sock[s].closing /\ off.listed = sock[s].listed
        /\ off.onList = sock[s].onList /\ off.client = sock[s].client /\ off.isn = sock[s].isn
    BY <1>2 DEF off, Socket, ToClosed
  <2>3. sock'[s].broken
    BY <1>3, <1>5, <2>1, <2>2
  <2>4. sock[s].closing => sock'[s].closing
    BY <2>1, <2>2
  <2>5. ~Live(s)'
    BY <2>3 DEF Live
  <2> QED BY <1>3, <1>5, <2>1, <2>2, <2>4, <2>5 DEF ClosedNow
<1>6. CASE s \in Orphans /\ s \notin ToBeClosed /\ sock[s].where = "open"
  <2>1. sock'[s] = end
    BY <1>1, <1>3, <1>6
  <2>2. /\ end \in Socket /\ end.where = "closed" /\ ~end.old /\ end.closing
        /\ end.listed = sock[s].listed
        /\ end.onList = sock[s].onList /\ end.client = sock[s].client /\ end.isn = sock[s].isn
    BY <1>2 DEF end, Socket, ToClosed, Closed
  <2>3. ~Live(s)'
    BY <2>1, <2>2 DEF Live
  <2> QED BY <1>3, <1>6, <2>1, <2>2, <2>3 DEF ClosedNow
<1>7. CASE s \in Broken \ (ToBeClosed \cup Orphans)
  <2>1. sock'[s] = dec
    BY <1>1, <1>3, <1>7
  <2>2. sock[s].rounds - 1 \in 0..BrokenRounds
    BY <1>2, <1>3, <1>7, ConnectAssumption DEF StaysOpen, Socket, ConnectAssumption
  <2>3. /\ dec \in Socket /\ dec.where = sock[s].where /\ dec.old = sock[s].old
        /\ dec.connected = sock[s].connected /\ dec.broken = sock[s].broken
        /\ dec.closing = sock[s].closing /\ dec.listed = sock[s].listed
        /\ dec.onList = sock[s].onList /\ dec.client = sock[s].client /\ dec.isn = sock[s].isn
    BY <1>2, <2>2 DEF dec, Socket
  <2> QED BY <1>3, <1>7, <2>1, <2>3 DEF Left
<1>8. CASE /\ s \notin ToBeRemoved \cup ToBeClosed
           /\ ~(s \in Orphans /\ s \notin ToBeClosed /\ sock[s].where = "open")
           /\ s \notin Broken \ (ToBeClosed \cup Orphans)
  <2>1. sock'[s] = sock[s]
    BY <1>1, <1>8
  <2> QED BY <1>2, <1>8, <2>1 DEF Left
<1> QED BY <1>4, <1>5, <1>6, <1>7, <1>8

(* The deleted ones leave the count.                                       *)
LEMMA CountOfRound ==
  ASSUME IInv, CheckBrokenSockets
  PROVE  RefCountIsSockets'
<1> DEFINE E == {s \in Sockets : sock[s].where \notin {"none", "gone"}}
           F == {s \in Sockets : sock'[s].where \notin {"none", "gone"}}
<1>1. F = E \ ToBeRemoved
  BY RoundOfSocket DEF Deleted, ClosedNow, Left
<1>2. ToBeRemoved \subseteq E
  BY DEF ToBeRemoved, Removable
<1>3. IsFiniteSet(E)
  BY FiniteSockets, FS_Subset
<1>4. Cardinality(F) = Cardinality(E) - Cardinality(E \cap ToBeRemoved)
  BY <1>1, <1>3, FS_Difference
<1>5. E \cap ToBeRemoved = ToBeRemoved
  BY <1>2
<1>6. refs = Cardinality(E) /\ refs' = refs - Cardinality(ToBeRemoved)
  BY DEF IInv, RefCountIsSockets, CheckBrokenSockets
<1>7. RefCountIsSockets' <=> refs' = Cardinality(F)
  BY DEF RefCountIsSockets
<1> QED BY <1>4, <1>5, <1>6, <1>7

LEMMA CheckBrokenSocketsStep ==
  ASSUME IInv, CheckBrokenSockets
  PROVE  IInv'
<1>1. /\ gc \in {"run", "drain"} /\ Running
      /\ queued' \subseteq queued /\ accepted' \subseteq accepted
      /\ app' = app \/ app' = [app EXCEPT !.pc = "crash"]
      /\ net' = net \cup UNION {Goodbye(s) : s \in ToBeRemoved \cup Orphans}
      /\ refs' = refs - Cardinality(ToBeRemoved)
      /\ gc' \in {gc, "join"}
      /\ UNCHANGED <<listening, newest, tidy, worker, cl>>
  BY DEF CheckBrokenSockets, StillQueued
<1>2. /\ app'.sock = app.sock /\ app.sock \in Sockets /\ app'.pc \in {app.pc, "crash"}
      /\ app' \in [pc : AppPcs, sock : Sockets]
  BY <1>1 DEF IInv, ThreadTypes, AppPcs
<1>3. \A s \in Sockets : sock'[s] \in Socket /\ (Deleted(s) \/ ClosedNow(s) \/ Left(s))
  BY RoundOfSocket
<1>4. SocketTypes'
  <2> DEFINE f(s) ==
               CASE s \in ToBeRemoved ->
                        [Unmade EXCEPT !.where = "gone", !.listed = sock[s].listed]
                 [] s \in ToBeClosed -> ToClosed(sock[s])
                 [] s \in Orphans /\ s \notin ToBeClosed /\ sock[s].where = "open" ->
                      ToClosed(Closed(sock[s]))
                 [] s \in Broken \ (ToBeClosed \cup Orphans) -> [sock[s] EXCEPT !.rounds = @ - 1]
                 [] OTHER -> sock[s]
  <2>1. sock' = [s \in Sockets |-> f(s)]
    BY DEF CheckBrokenSockets
  <2> HIDE DEF f
  <2> QED BY <1>3, <2>1 DEF SocketTypes
<1>5. RefCountIsSockets'
  BY CountOfRound
<1>6. SetTypes'
  <2>1. Cardinality(ToBeRemoved) \in Int
    BY FiniteSockets, FS_Subset, FS_CardinalityType DEF ToBeRemoved
  <2> QED BY <1>1, <2>1 DEF IInv, SetTypes
<1>7. ThreadTypes'
  BY <1>1, <1>2 DEF IInv, ThreadTypes
<1>8. ClientTypes'
  <2>1. ToBeRemoved \cup Orphans \subseteq Sockets
    BY Records DEF ToBeRemoved, Orphans, StillQueued, IInv, SetTypes
  <2>2. net' \subseteq Msg
    BY <1>1, <2>1, GoodbyeIsMsg DEF IInv, ClientTypes
  <2> QED BY <1>1, <2>2 DEF IInv, ClientTypes
<1>9. Born'
  <2>1. \A s \in Made : s \in Sockets /\ (sock'[s].where = "none" <=> sock[s].where = "none")
    BY <1>3, Records DEF Deleted, ClosedNow, Left
  <2> QED BY <1>1, <1>2, <2>1 DEF IInv, Born
<1>10. \A s \in Sockets : (Live(s)' => Live(s)) /\ (Left(s) => Live(s)' = Live(s))
  BY <1>3 DEF Live, Deleted, ClosedNow, Left
<1>11. EachSane'
  <2> SUFFICES ASSUME NEW s \in Sockets PROVE Sane(s)'
    BY DEF EachSane
  <2>1. Sane(s)
    BY DEF IInv, EachSane
  <2>2. CASE Deleted(s)
    BY <2>2 DEF Deleted, Sane, Live
  <2>3. CASE ClosedNow(s)
    BY <2>1, <2>3 DEF ClosedNow, Sane, Exists
  <2>4. CASE Left(s)
    BY <1>1, <1>10, <2>1, <2>4 DEF Left, Sane, Exists
  <2> QED BY <1>3, <2>2, <2>3, <2>4
<1>12. Left(Listener) \/ (Deleted(Listener) /\ ~listening)
  <2>1. ~ClosedNow(Listener)
    BY Records DEF IInv, ListenerSane, SetTypes, ClosedNow
  <2>2. ~Deleted(Listener) \/ ~listening
    BY DEF IInv, ListenerSane, Deleted
  <2> QED BY <1>3, <2>1, <2>2, Records
<1>13. ListenerSane'
  <2>1. CASE Left(Listener)
    BY <1>1, <2>1 DEF IInv, ListenerSane, Gone, Connecting, Left
  <2>2. CASE Deleted(Listener) /\ ~listening
    BY <1>1, <2>2 DEF IInv, ListenerSane, Gone, Connecting, Deleted
  <2> QED BY <1>12, <2>1, <2>2
<1>14. \A s \in Made : Tracked(s)' => Tracked(s)
  BY <1>1 DEF Tracked, InMaking
<1>15. LiveAreTracked'
  <2> SUFFICES ASSUME NEW s \in Made, Live(s)' PROVE Tracked(s)'
    BY DEF LiveAreTracked
  <2>1. s \in Sockets /\ Live(s) /\ Left(s)
    BY <1>3, <1>10, Records DEF Deleted, ClosedNow, Live
  <2>2. Tracked(s) /\ sock[s].where \in {"loose", "open"}
    BY <2>1 DEF IInv, Unique, LiveAreTracked, EachSane, Sane
  <2>3. CASE InMaking(s)
    BY <1>1, <2>3 DEF Tracked, InMaking
  <2>4. CASE ~InMaking(s)
    <3>1. s \in queued \cup accepted
      BY <2>2, <2>4 DEF Tracked
    <3>2. sock[s].where = "open"
      BY <2>1, <2>2, <2>4 DEF IInv, EachSane, Sane, InMaking
    <3>3. s \notin ToBeClosed /\ s \notin Orphans
      BY <2>1, <3>2 DEF Left
    <3> QED BY <3>1, <3>3 DEF CheckBrokenSockets, StillQueued, Tracked
  <2> QED BY <2>3, <2>4
<1>16. NoTwins'
  <2>1. \A s \in Made : Stands(s)' => /\ Stands(s) /\ sock'[s].client = sock[s].client
                                      /\ sock'[s].isn = sock[s].isn
    BY <1>3, <1>14, Records DEF Stands, Deleted, ClosedNow, Left
  <2> QED BY <2>1 DEF IInv, Unique, NoTwins
<1>17. NoneAnswers'
  <2>1. \A s \in queued' \cup accepted' :
           /\ s \in queued \cup accepted
           /\ sock'[s].where = "open" => /\ sock[s].where = "open"
                                         /\ sock'[s].client = sock[s].client
                                         /\ sock'[s].isn = sock[s].isn
    BY <1>1, <1>3, Records DEF Deleted, ClosedNow, Left, IInv, SetTypes
  <2> QED BY <1>1, <2>1 DEF IInv, Unique, NoneAnswers, SamePeerSameRequest
<1>18. Followed'
  <2>1. PublishesLoose'
    <3>1. worker.pc = "publish" => worker.sock \in Sockets /\ sock[worker.sock].where = "loose"
                                   /\ Live(worker.sock)
      BY DEF IInv, Followed, PublishesLoose, ThreadTypes
    <3>2. worker.pc = "publish" => Left(worker.sock)
      BY <1>3, <3>1 DEF Deleted, ClosedNow
    <3> QED BY <1>1, <1>10, <3>1, <3>2 DEF PublishesLoose, Left
  <2>2. CleanupBegun'
    BY <1>1, <1>2 DEF IInv, Followed, CleanupBegun, Serving, Running
  <2>3. ASSUME Serving' PROVE WorkerInside /\ ProgramInside /\ app'.pc = app.pc
    BY <1>2, <2>3 DEF IInv, Followed, Serving, Running
  <2>4. \A s \in Sockets : Held(s) => Held(s)' /\ (sock[s].closing => sock'[s].closing)
    BY <1>3 DEF Held, Deleted, ClosedNow, Left
  <2>5. ASSUME Serving' PROVE WorkerInside'
    <3>1. worker.sock \in Sockets /\ Listener \in Sockets
      BY Records DEF IInv, ThreadTypes
    <3>2. worker.pc = "queue" => Left(worker.sock)
      <4>1. worker.pc = "queue" => /\ sock[worker.sock].where = "open" /\ Live(worker.sock)
                                   /\ worker.sock \notin queued
        BY <2>3, <2>5 DEF WorkerInside, IInv, Born
      <4> QED BY <1>3, <3>1, <4>1 DEF Deleted, ClosedNow, Live
    <3>3. worker.pc = "queue" => sock'[worker.sock].where = "open" /\ Live(worker.sock)'
      BY <1>1, <1>10, <2>3, <2>5, <3>1, <3>2 DEF WorkerInside, Left
    <3>4. worker.pc = "release" => Held(worker.sock)' /\ ~Live(worker.sock)'
      BY <1>1, <1>10, <2>3, <2>4, <2>5, <3>1 DEF WorkerInside
    <3>5. worker.pc = "listen" => Held(Listener)'
      BY <2>3, <2>4, <2>5, <3>1 DEF WorkerInside
    <3> QED BY <1>1, <3>3, <3>4, <3>5 DEF WorkerInside
  <2>6. ASSUME Serving' PROVE ProgramInside'
    <3>1. sock[Listener].where = "open" => sock'[Listener].where = "open"
      BY <1>12 DEF Left, Deleted
    <3>2. sock[Listener].where = "open" /\ sock[Listener].closing => sock'[Listener].closing
      BY <1>12 DEF Left, Deleted
    <3> QED BY <1>1, <1>2, <2>3, <2>4, <2>6, <3>1, <3>2 DEF ProgramInside
  <2> QED BY <2>1, <2>2, <2>5, <2>6 DEF Followed
<1> QED BY <1>4, <1>5, <1>6, <1>7, <1>8, <1>9, <1>11, <1>13, <1>15, <1>16, <1>17,
   <1>18 DEF IInv, Unique

-----------------------------------------------------------------------------
(***************************************************************************)
(* The theorems.                                                           *)
(***************************************************************************)

LEMMA InitIsFine ==
  ASSUME Init
  PROVE  IInv
<1>1. /\ sock = [s \in Sockets |-> IF s = Listener THEN Bound(Unmade) ELSE Unmade]
      /\ queued = {} /\ accepted = {} /\ listening = TRUE /\ newest = 0 /\ refs = 1
      /\ worker = Idle /\ app = [pc |-> "accept", sock |-> Listener] /\ gc = "run"
      /\ tidy \in Tidy /\ cl = [c \in Clients |-> NewSocket] /\ net = {}
  BY DEF Init, NewMux
<1> DEFINE r == Bound(Unmade)
<1>2. /\ r \in Socket /\ r.where = "open" /\ ~r.connected /\ ~r.broken
      /\ r.listed = "no" /\ ~r.old
  BY Records DEF Bound, Open, Unmade, Socket
<1>3. /\ Unmade \in Socket /\ Unmade.where = "none" /\ ~Unmade.connected /\ Unmade.listed = "no"
      /\ ~Unmade.old
  BY Records DEF Unmade
<1> HIDE DEF r
<1>4. sock[Listener] = r /\ \A s \in Made : s \in Sockets /\ s # Listener /\ sock[s] = Unmade
  BY <1>1, Records DEF r
<1>5. \A s \in Sockets : s = Listener \/ s \in Made
  BY DEF Sockets
<1>6. SocketTypes
  BY <1>1, <1>2, <1>3 DEF SocketTypes, r
<1>7. SetTypes /\ ThreadTypes
  BY <1>1, Records, ConnectAssumption DEF ConnectAssumption, SetTypes, ThreadTypes,
     WorkerPcs,
     AppPcs, Idle
<1>8. ClientTypes
  <2>1. NewSocket \in Client /\ Enlisted(NewSocket)
    BY Records, ConnectAssumption DEF ConnectAssumption, NewSocket, Client,
       Enlisted, Listener
  <2> QED BY <1>1, <2>1 DEF ClientTypes
<1>9. Born
  <2>1. worker.pc = "idle" /\ app.pc = "accept" /\ app.sock = Listener
    BY <1>1 DEF Idle
  <2>2. \A s \in Made : s > newest
    BY <1>1, Records
  <2>3. Listener <= newest
    BY <1>1 DEF Listener
  <2> QED BY <1>1, <1>3, <1>4, <2>1, <2>2, <2>3 DEF Born
<1>10. RefCountIsSockets
  <2>1. {s \in Sockets : sock[s].where \notin {"none", "gone"}} = {Listener}
    BY <1>2, <1>3, <1>4, <1>5, Records
  <2> QED BY <1>1, <2>1, FS_Singleton DEF RefCountIsSockets
<1>11. EachSane
  BY <1>2, <1>3, <1>4, <1>5 DEF EachSane, Sane, Exists, Live
<1>12. ListenerSane
  BY <1>1, <1>2, <1>4 DEF ListenerSane, Gone, Connecting, Idle
<1>13. Unique
  BY <1>1, <1>3, <1>4 DEF Unique, LiveAreTracked, NoTwins, NoneAnswers, Stands,
     Live, Tracked,
     InMaking, Idle
<1>14. Followed
  BY <1>1, <1>2, <1>4 DEF Followed, PublishesLoose, CleanupBegun, WorkerInside,
     ProgramInside,
     Idle
<1> QED BY <1>6, <1>7, <1>8, <1>9, <1>10, <1>11, <1>12, <1>13, <1>14 DEF IInv

LEMMA Stutters ==
  ASSUME IInv, UNCHANGED vars
  PROVE  IInv'
<1>1. UNCHANGED <<sock, queued, accepted, listening, newest, refs, tidy, worker, app, gc, cl,
                  net>>
  BY DEF vars, serverVars
<1>2. SocketTypes' /\ SetTypes' /\ ThreadTypes' /\ ClientTypes' /\ Born' /\ RefCountIsSockets'
  BY <1>1 DEF IInv, SocketTypes, SetTypes, ThreadTypes, ClientTypes, Born,
     RefCountIsSockets
<1>3. EachSane' /\ ListenerSane' /\ Unique'
  BY <1>1 DEF IInv, EachSane, Sane, Exists, Live, ListenerSane, Gone, Connecting, Unique,
     LiveAreTracked, NoTwins, NoneAnswers, Stands, Tracked, InMaking, SamePeerSameRequest
<1>4. Followed'
  BY <1>1 DEF IInv, Followed, PublishesLoose, CleanupBegun, WorkerInside,
     ProgramInside, Live,
     Held, Serving, Running
<1> QED BY <1>2, <1>3, <1>4 DEF IInv

LEMMA StepIsFine ==
  ASSUME IInv, [Next]_vars
  PROVE  IInv'
<1>1. CASE ClientNext
  BY <1>1, ConnectStep, ClientReceivesStep, ConnectTimesOutStep, ClientStoresStep,
     ClientHearsShutdownStep, ClientClosesStep DEF ClientNext
<1>2. CASE WorkerNext
  BY <1>2, TakeNewEntryStep, TakeRequestStep, ListenStep, ListenToDeletedStep,
     FindConnectionStep, MakeConnectionStep, PublishSocketStep, QueueSocketStep, TakeDataStep,
     TakeShutdownStep, ReleaseStep, DropFromListStep, PeerSilentStep DEF WorkerNext
<1>3. CASE ProgramNext
  BY <1>3, AcceptPopsStep, AcceptGivesUpStep, AcceptReturnsStep, ListenerStopsStep,
     ListenerUnsetStep, ListenerClosedStep, ReceiveStartsStep, ReceiveReturnsStep,
     HandleClosesStep, HandleClosedStep, CleansUpStep, CleanupReturnsStep DEF ProgramNext
<1>4. CASE CollectorNext
  BY <1>4, CheckBrokenSocketsStep, JoinWorkerStep, CleanupStartsStep,
     CleanupStopsListenerStep,
     CleanupClosesStep, CleanupDrainsStep, CollectorEndsStep DEF CollectorNext
<1>5. CASE \E s \in Sockets : SecondPasses(s)
  BY <1>5, SecondPassesStep
<1>6. CASE UNCHANGED vars
  BY <1>6, Stutters
<1> QED BY <1>1, <1>2, <1>3, <1>4, <1>5, <1>6 DEF Next

(* The inductive invariant of the server's sockets holds, whatever the     *)
(* clients, the network and the three threads do.                          *)
THEOREM Invariance == Spec => []IInv
<1>1. Init => IInv
  BY InitIsFine
<1>2. IInv /\ [Next]_vars => IInv'
  BY StepIsFine
<1> QED BY <1>1, <1>2, PTL DEF Spec

(* Every variable keeps its type; a multiplexer never counts more sockets  *)
(* than there are.                                                         *)
THEOREM TypeCorrect == Spec => []TypeOK
<1>1. IInv => TypeOK
  <2> SUFFICES ASSUME IInv PROVE TypeOK
    OBVIOUS
  <2>1. refs \in 0..MaxSockets + 1
    <3> DEFINE E == {s \in Sockets : sock[s].where \notin {"none", "gone"}}
    <3>1. IsFiniteSet(E) /\ Cardinality(E) <= Cardinality(Sockets)
      BY FiniteSockets, FS_Subset
    <3>2. Cardinality(E) \in Nat
      BY <3>1, FS_CardinalityType
    <3>3. refs = Cardinality(E)
      BY DEF IInv, RefCountIsSockets
    <3> HIDE DEF E
    <3> QED BY <3>1, <3>2, <3>3, FiniteSockets, ConnectAssumption DEF ConnectAssumption
  <2>2. /\ sock \in [Sockets -> Socket]
        /\ queued \subseteq Made /\ accepted \subseteq Made /\ listening \in BOOLEAN
        /\ newest \in 0..MaxSockets /\ tidy \in Tidy
    BY DEF IInv, SocketTypes, SetTypes
  <2>3. /\ worker.pc \in WorkerPcs /\ worker.sock \in Sockets /\ worker.msg \in Msg
        /\ app.pc \in AppPcs /\ app.sock \in Sockets
        /\ gc \in {"run", "close", "join", "drain", "done"}
    BY DEF IInv, ThreadTypes
  <2>4. ASSUME NEW c \in Clients
        PROVE  /\ cl[c].pc \in {"idle", "wait", "up", "failed", "gone"}
               /\ cl[c].isn \in 0..Attempts /\ cl[c].entries \in 0..Attempts
               /\ cl[c].buf \in Msg /\ cl[c].peer \in Sockets
    BY DEF IInv, ClientTypes, Client
  <2>5. net \subseteq Msg
    BY DEF IInv, ClientTypes
  <2> QED BY <2>1, <2>2, <2>3, <2>4, <2>5 DEF TypeOK, WorkerPcs, AppPcs
<1> QED BY <1>1, Invariance, PTL

(* m_iRefCount is the number of sockets that share the multiplexer, so     *)
(* removeSocket deletes it with the last of them and not before.           *)
THEOREM CountIsExact == Spec => []RefCountIsSockets
<1>1. IInv => RefCountIsSockets
  BY DEF IInv
<1> QED BY <1>1, Invariance, PTL

(* A request that comes again while its connection stands gets no other    *)
(* connection: newConnection finds the first.                              *)
THEOREM OneConnection == Spec => []OneSocketPerRequest
<1>1. IInv => OneSocketPerRequest
  BY DEF IInv, Unique, LiveAreTracked, NoTwins, Stands, OneSocketPerRequest
<1> QED BY <1>1, Invariance, PTL

(* While the program serves, the collector deletes no socket that a thread *)
(* is inside or that hash, list and new entries still name.                *)
THEOREM NothingIsDeletedInUse == Spec => []NoDangling
<1>1. IInv => NoDangling
  <2> SUFFICES ASSUME IInv, Serving PROVE NothingDangles
    BY DEF NoDangling, Serving
  <2>1. WorkerInside /\ ProgramInside /\ PublishesLoose
    BY DEF IInv, Followed
  <2>2. \A s \in Sockets : Held(s) => ~Gone(s)
    BY DEF Held, Gone
  <2>3. \A s \in Made : sock[s].listed # "no" => ~Gone(s)
    BY Records DEF IInv, EachSane, Sane, Exists, Gone
  <2>4. Connecting => ~Gone(Listener)
    BY DEF IInv, ListenerSane, Gone
  <2>5. worker.pc = "listen" => ~Gone(Listener)
    BY <2>1, <2>2, Records DEF WorkerInside
  <2>6. worker.pc \in {"listen", "find", "make"} => worker.sock = Listener
    BY DEF IInv, Born
  <2>7. worker.pc \in {"publish", "queue", "release"} => ~Gone(worker.sock)
    BY <2>1, <2>2 DEF PublishesLoose, WorkerInside, Gone, IInv, ThreadTypes
  <2>8. worker.pc # "idle" => ~Gone(worker.sock)
    BY <2>4, <2>5, <2>6, <2>7 DEF Connecting, IInv, ThreadTypes, WorkerPcs
  <2>9. app.pc \in {"recv", "bye"} => ~Gone(app.sock)
    BY <2>1, <2>2 DEF ProgramInside, IInv, ThreadTypes
  <2>10. app.pc \in {"close", "unlisten", "unmap"} => ~Gone(Listener)
    BY <2>1 DEF ProgramInside, Gone
  <2> QED BY <2>3, <2>4, <2>5, <2>8, <2>9, <2>10 DEF NothingDangles, Connecting
<1> QED BY <1>1, Invariance, PTL
=============================================================================
