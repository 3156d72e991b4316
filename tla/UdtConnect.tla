----------------------------- MODULE UdtConnect -----------------------------
(***************************************************************************)
(* How UDT connections are made and taken down: clients, a network that    *)
(* loses, repeats, delays and reorders, and a server process in which      *)
(* three threads share the sockets.                                        *)
(*                                                                         *)
(*   program   udtscp's listen, accept, receive, close, cleanup            *)
(*   worker    CRcvQueue::worker: handshakes for the listener, packets and *)
(*             timers of the connections                                   *)
(*   collector CUDTUnited::garbageCollect: closes broken sockets, deletes  *)
(*             closed ones after a second, ends the library in cleanup     *)
(*                                                                         *)
(* An action is what a thread does between two acquisitions of a lock it   *)
(* may have to wait for.  ControlLock is held over several actions only by *)
(* the collector in cleanup (gc = "close", "join"), the listener's         *)
(* ConnectionLock only by the worker in newConnection (Connecting).        *)
(*                                                                         *)
(* Abstractions.  A message once sent stays in net: it may be delivered    *)
(* any number of times, at any time, or never.  An initial sequence number *)
(* is the number of the attempt (the code draws it at random).  A cookie   *)
(* is good or, one or two minutes later, too old: the server may find it   *)
(* either.  The data of a connection is the fact that some is unread.  A   *)
(* client may stop at any step: nothing obliges it to act.  Its program is *)
(* one thread; its process has the server's library, which is not modelled *)
(* a second time.  The model ends with the server's process (Running).     *)
(***************************************************************************)
EXTENDS Integers, FiniteSets

CONSTANTS
    Clients,        \* peers, each with one socket and one address
    Attempts,       \* bound: calls of connect on one socket (1 in UDTScp)
    Backlog,        \* the listener's m_uiBackLog
    MaxSockets,     \* bound: sockets that the server makes for clients
    BrokenRounds,   \* collector's rounds that unread data delays a close (30, 60)
    Tidy,           \* what the program may be: tidy or not
    None

ASSUME ConnectAssumption ==
    /\ Attempts \in Nat /\ BrokenRounds \in Nat
    /\ MaxSockets \in Nat \ {0} /\ Backlog \in Nat \ {0}
    /\ Tidy \subseteq BOOLEAN
    /\ None \notin Clients

Listener == 0
Made == 1..MaxSockets       \* in the order they are made; UDT's numbers count down
Sockets == {Listener} \cup Made

VARIABLES
    \* the server
    sock,       \* CUDTSocket and CUDT of each socket
    queued, accepted,   \* the listener's m_pQueuedSockets, m_pAcceptSockets
    listening,  \* m_pListener of the receiving queue is set
    newest,     \* the last socket made
    refs,       \* m_iRefCount of the multiplexer
    tidy,       \* the program closes its listener after accept, as udtscp does
    worker, app, gc,    \* where each thread is
    \* the clients, the network
    cl, net

serverVars == <<sock, queued, accepted, listening, newest, refs, tidy>>
vars == <<serverVars, worker, app, gc, cl, net>>

(* where: not made, not in a map yet, in m_Sockets, in m_ClosedSockets,    *)
(* deleted.  listed: where the receiving queue has it (m_vNewEntry, or the *)
(* hash and the list).  old: a second has passed since m_TimeStamp.        *)
Socket == [where : {"none", "loose", "open", "closed", "gone"},
           client : Clients \cup {None}, isn : 0..Attempts,
           opened : BOOLEAN, connected : BOOLEAN, closing : BOOLEAN, broken : BOOLEAN,
           shutdown : BOOLEAN, status : {"live", "CLOSED"}, old : BOOLEAN,
           listed : {"no", "new", "hash"}, onList : BOOLEAN,
           unread : BOOLEAN, rounds : 0..BrokenRounds]

Unmade == [where |-> "none", client |-> None, isn |-> 0, opened |-> FALSE,
           connected |-> FALSE, closing |-> FALSE, broken |-> FALSE, shutdown |-> FALSE,
           status |-> "live", old |-> FALSE, listed |-> "no", onList |-> FALSE,
           unread |-> FALSE, rounds |-> 0]

(* Messages, each to a client or to a socket of the server (0: requests).  *)
Request(c, isn, cookie) == [to |-> 0, what |-> "request", from |-> c, isn |-> isn,
                            val |-> IF cookie THEN 1 ELSE 0]
Answer(c, isn, what, val) == [to |-> c, what |-> what, from |-> None, isn |-> isn,
                              val |-> val]
Shutdown(to) == [to |-> to, what |-> "shutdown", from |-> None, isn |-> 0, val |-> 0]

(* What CUDT::open leaves of a socket, new or copied from its listener.    *)
Open(r) == [r EXCEPT !.opened = TRUE, !.onList = FALSE]

(* The listener, as newSocket, bind and listen have made it.               *)
Bound(r) == [Open(r) EXCEPT !.where = "open"]
NewMux == 1                             \* m_iRefCount of a new multiplexer

(* Hash and list of the receiving queue.                                   *)
Lookup(s) == sock[s].listed = "hash"
IntoHash(r) == [r EXCEPT !.listed = "hash"]
OutOfHash(r) == [r EXCEPT !.listed = "no"]

NoMsg == [to |-> None, what |-> "none", from |-> None, isn |-> 0, val |-> 0]

Idle == [pc |-> "idle", msg |-> NoMsg, sock |-> Listener]

(* A client's socket, after newSocket.                                     *)
NewSocket == [pc |-> "idle", isn |-> 0, entries |-> 0, buf |-> NoMsg, peer |-> 0, err |-> "no"]

Init ==
    /\ sock = [s \in Sockets |-> IF s = Listener
                 THEN Bound(Unmade) ELSE Unmade]
    /\ queued = {} /\ accepted = {} /\ listening = TRUE /\ newest = 0 /\ refs = NewMux
    /\ worker = Idle /\ app = [pc |-> "accept", sock |-> Listener] /\ gc = "run"
    /\ tidy \in Tidy
    /\ cl = [c \in Clients |-> NewSocket]
    /\ net = {}

Running == app.pc \notin {"end", "exit", "crash"}
ControlFree == gc \notin {"close", "join"}
Connecting == worker.pc \in {"find", "make", "publish", "queue"}
InCall(s) == app.pc = "recv" /\ app.sock = s
Live(s) == sock[s].connected /\ ~sock[s].broken /\ ~sock[s].closing

-----------------------------------------------------------------------------
(***************************************************************************)
(* A client: UDTScp::connect, CUDT::connect.                               *)
(***************************************************************************)
Set(c, r) == cl' = [cl EXCEPT ![c] = r]
Send(M) == net' = net \cup M

(* The rendezvous queue's entries of the socket, one for each call of      *)
(* connect that has not succeeded.                                         *)
Enrolled(r) == [r EXCEPT !.entries = @ + 1]
Withdrawn(r) == [r EXCEPT !.entries = @ - 1]
IsEnrolled(r) == r.entries > 0

Connect(c) ==
    /\ Running /\ cl[c].pc = "idle" /\ cl[c].isn < Attempts
    /\ LET r == [Enrolled(cl[c]) EXCEPT !.pc = "wait", !.isn = @ + 1, !.err = "no"]
       IN Set(c, r) /\ Send({Request(c, r.isn, FALSE)})
    /\ UNCHANGED <<serverVars, worker, app, gc>>

(* recvfrom finds a stored packet.  A refusal, then an answer to another   *)
(* sequence number, end the call: its entry of the rendezvous queue stays. *)
Fails(r, why, more) == [r EXCEPT !.pc = IF more THEN "idle" ELSE "failed", !.err = why]

SecurityAlarm(r, m) == m.isn # r.isn

Established(r, m) == [Withdrawn(r) EXCEPT !.pc = "up", !.peer = m.val]

AfterAnswer(r, m) ==
    IF m.what = "refused" THEN Fails(r, "rejected", r.isn < Attempts)
    ELSE IF SecurityAlarm(r, m) THEN Fails(r, "security", r.isn < Attempts)
    ELSE Established(r, m)

Taken(r) == [r EXCEPT !.buf = NoMsg]

ClientReceives(c) ==
    /\ Running /\ cl[c].pc = "wait" /\ cl[c].buf # NoMsg
    /\ LET m == cl[c].buf
           r == Taken(cl[c])
       IN \/ /\ m.what = "cookie"
             /\ Set(c, r) /\ Send({Request(c, r.isn, TRUE)})
          \/ m.what \in {"accepted", "refused"} /\ Set(c, AfterAnswer(r, m)) /\ UNCHANGED net
          \/ m.what = "shutdown" /\ Set(c, r) /\ UNCHANGED net
    /\ UNCHANGED <<serverVars, worker, app, gc>>

ConnectTimesOut(c) ==
    /\ Running /\ cl[c].pc = "wait" /\ cl[c].buf = NoMsg
    /\ Set(c, Fails(cl[c], "timeout", cl[c].isn < Attempts))
    /\ UNCHANGED <<serverVars, worker, app, gc, net>>

(* The client's worker: a packet for a socket that is not connected goes   *)
(* to storePkt if the rendezvous queue has an entry; a newer one replaces  *)
(* an older.  On a connection only a shutdown matters here.                *)
ClientStores(c, m) ==
    /\ Running /\ m.to = c /\ cl[c].pc \in {"idle", "wait"} /\ IsEnrolled(cl[c])
    /\ Set(c, [cl[c] EXCEPT !.buf = m])
    /\ UNCHANGED <<serverVars, worker, app, gc, net>>

ClientHearsShutdown(c) ==
    /\ Running /\ Shutdown(c) \in net /\ cl[c].pc = "up"
    /\ Set(c, [cl[c] EXCEPT !.pc = "gone"])
    /\ UNCHANGED <<serverVars, worker, app, gc, net>>

ClientCloses(c) ==
    /\ Running /\ cl[c].pc = "up"
    /\ Set(c, [cl[c] EXCEPT !.pc = "gone"]) /\ Send({Shutdown(cl[c].peer)})
    /\ UNCHANGED <<serverVars, worker, app, gc>>

-----------------------------------------------------------------------------
(***************************************************************************)
(* The server's worker.                                                    *)
(***************************************************************************)
Works(pc, m, s) == worker' = [pc |-> pc, msg |-> m, sock |-> s]
Rests == worker' = Idle
NoNewEntry == \A s \in Made : sock[s].listed # "new"

(* The worker turns to the network only when it has taken the new entries. *)
Ready == Running /\ refs > 0 /\ worker.pc = "idle" /\ NoNewEntry

TakeNewEntry ==
    /\ Running /\ refs > 0 /\ worker.pc = "idle"
    /\ \E s \in Made : sock[s].listed = "new" /\ sock' = [sock EXCEPT ![s] = IntoHash(@)]
    /\ UNCHANGED <<queued, accepted, listening, newest, refs, tidy, worker, app, gc, cl,
                   net>>

(* m_pListener is read without its lock.  The bound on sockets is here.    *)
TakeRequest ==
    /\ Ready /\ listening
    /\ \E m \in net : /\ m.to = 0 /\ (m.val = 1 => newest < MaxSockets)
                      /\ Works("listen", m, Listener)
    /\ UNCHANGED <<serverVars, app, gc, cl, net>>

(* CUDT::listen under the listener's ConnectionLock.  Of a listener that   *)
(* was deleted it reads what is left: closing, or nothing it can live on.  *)
Gone(s) == sock[s].where = "gone"

ListenToDeleted ==
    /\ Running /\ worker.pc = "listen" /\ Gone(Listener) /\ Rests
    /\ app' = app \/ app' = [app EXCEPT !.pc = "crash"]
    /\ UNCHANGED <<serverVars, gc, cl, net>>

Listen ==
    /\ Running /\ worker.pc = "listen" /\ ~Gone(Listener)
    /\ LET m == worker.msg IN
       \/ Rests /\ UNCHANGED net           \* closing, or the cookie is too old
       \/ /\ ~sock[Listener].closing /\ m.val = 0
          /\ Rests /\ Send({Answer(m.from, m.isn, "cookie", 0)})
       \/ /\ ~sock[Listener].closing /\ m.val = 1
          /\ Works("find", m, Listener) /\ UNCHANGED net
    /\ UNCHANGED <<serverVars, app, gc, cl>>

(* newConnection, first part: locate the listener, then a socket for the   *)
(* same request among those queued and accepted.                           *)
SamePeerSameRequest(s, m) == sock[s].client = m.from /\ sock[s].isn = m.isn
FoundQueued(m) == {s \in queued : sock[s].where = "open" /\ SamePeerSameRequest(s, m)}
Found(m) == {s \in queued \cup accepted : sock[s].where = "open" /\ SamePeerSameRequest(s, m)}

FindConnection ==
    /\ Running /\ worker.pc = "find" /\ ControlFree
    /\ LET m == worker.msg
           old == Found(m)
       IN \/ /\ sock[Listener].where # "open" \/ sock[Listener].status = "CLOSED"
             /\ Send({Answer(m.from, m.isn, "refused", 0)}) /\ Rests
             /\ UNCHANGED <<sock, queued, accepted>>
          \/ /\ sock[Listener].where = "open" /\ sock[Listener].status = "live"
             /\ \/ /\ old = {} /\ Works("make", m, Listener)
                   /\ UNCHANGED <<sock, queued, accepted, net>>
                \/ \E s \in old :
                   \/ /\ ~sock[s].broken /\ Rests
                      /\ Send({Answer(m.from, m.isn, "accepted", s)})
                      /\ UNCHANGED <<sock, queued, accepted>>
                   \/ /\ sock[s].broken /\ Works("make", m, Listener)
                      /\ sock' = [sock EXCEPT ![s].status = "CLOSED", ![s].old = FALSE]
                      /\ queued' = queued \ {s} /\ accepted' = accepted \ {s}
                      /\ UNCHANGED net
    /\ UNCHANGED <<listening, newest, refs, tidy, app, gc, cl>>

(* newConnection, second part: the socket is made and shares the           *)
(* listener's multiplexer (updateMux), CUDT::connect(peer, hs) opens it.   *)
ForgetsCount(n) == n                    \* mutant: the multiplexer is not counted
CountOne(n) == n + 1

Answered(m) == [Open(Unmade) EXCEPT !.where = "loose", !.client = m.from, !.isn = m.isn,
                                    !.connected = TRUE, !.listed = "new", !.onList = TRUE]

MakeConnection ==
    /\ Running /\ worker.pc = "make"
    /\ \/ /\ Cardinality(queued) >= Backlog
          /\ Send({Answer(worker.msg.from, worker.msg.isn, "refused", 0)}) /\ Rests
          /\ UNCHANGED <<sock, newest, refs>>
       \/ /\ Cardinality(queued) < Backlog /\ ControlFree
          /\ newest' = newest + 1 /\ refs' = CountOne(refs)
          /\ sock' = [sock EXCEPT ![newest + 1] = Answered(worker.msg)]
          /\ Works("publish", worker.msg, newest + 1)
          /\ UNCHANGED net
    /\ UNCHANGED <<queued, accepted, listening, tidy, app, gc, cl>>

PublishSocket ==
    /\ Running /\ worker.pc = "publish" /\ ControlFree
    /\ sock' = [sock EXCEPT ![worker.sock].where = "open"]
    /\ worker' = [worker EXCEPT !.pc = "queue"]
    /\ UNCHANGED <<queued, accepted, listening, newest, refs, tidy, app, gc, cl, net>>

QueueSocket ==
    /\ Running /\ worker.pc = "queue"
    /\ queued' = queued \cup {worker.sock}
    /\ Send({Answer(worker.msg.from, worker.msg.isn, "accepted", worker.sock)}) /\ Rests
    /\ UNCHANGED <<sock, accepted, listening, newest, refs, tidy, app, gc, cl>>

(* Packets and timers of a connection.  A shutdown and a silence of ten    *)
(* seconds break it; releaseSynch then waits until no call is inside.      *)
TakeData ==
    /\ Ready
    /\ \E s \in Made : /\ Lookup(s) /\ Live(s)
                       /\ cl[sock[s].client].peer = s
                       /\ sock' = [sock EXCEPT ![s].unread = TRUE]
    /\ UNCHANGED <<queued, accepted, listening, newest, refs, tidy, worker, app, gc, cl,
                   net>>

Break(s, byPeer) ==
    /\ Lookup(s) /\ Live(s)
    /\ sock' = [sock EXCEPT ![s].broken = TRUE, ![s].closing = TRUE, ![s].shutdown = byPeer,
                           ![s].rounds = BrokenRounds]
    /\ Works("release", NoMsg, s)
    /\ UNCHANGED <<queued, accepted, listening, newest, refs, tidy, app, gc, cl, net>>

TakeShutdown == Ready /\ \E s \in Made : Shutdown(s) \in net /\ Break(s, TRUE)
PeerSilent(s) == Ready /\ Break(s, FALSE)

Release ==
    /\ Running /\ worker.pc = "release" /\ ~InCall(worker.sock) /\ Rests
    /\ UNCHANGED <<serverVars, app, gc, cl, net>>

(* The timer check drops a connection that is over from hash and list.     *)
StaysMarked(r) == OutOfHash(r)    \* mutant: m_bOnList is not reset
Unlisted(r) == [OutOfHash(r) EXCEPT !.onList = FALSE]

DropFromList ==
    /\ Ready
    /\ \E s \in Made : /\ Lookup(s) /\ ~Live(s)
                       /\ sock' = [sock EXCEPT ![s] = Unlisted(@)]
    /\ UNCHANGED <<queued, accepted, listening, newest, refs, tidy, worker, app, gc, cl,
                   net>>

-----------------------------------------------------------------------------
(***************************************************************************)
(* The program.                                                            *)
(***************************************************************************)
Goes(pc, s) == app' = [pc |-> pc, sock |-> s]
Newest(S) == CHOOSE s \in S : \A t \in S : s >= t      \* begin() of a set of sockets

AcceptPops ==
    /\ app.pc = "accept" /\ queued # {}
    /\ LET u == Newest(queued)
       IN queued' = queued \ {u} /\ accepted' = accepted \cup {u} /\ Goes("got", u)
    /\ UNCHANGED <<sock, listening, newest, refs, tidy, worker, gc, cl, net>>

(* No request for five seconds: the process exits, and cleans nothing up.  *)
AcceptGivesUp ==
    /\ app.pc = "accept" /\ queued = {} /\ tidy /\ Goes("exit", Listener)
    /\ UNCHANGED <<serverVars, worker, gc, cl, net>>

(* accept reads the address of what locate(u) returns, found or not.       *)
Located(u) == sock[u].where = "open" /\ sock[u].status # "CLOSED"

AcceptReturns ==
    /\ app.pc = "got" /\ ControlFree
    /\ IF Located(app.sock) THEN Goes(IF tidy THEN "close" ELSE "up", app.sock)
       ELSE Goes("crash", app.sock)
    /\ UNCHANGED <<serverVars, worker, gc, cl, net>>

(* CUDT::close of a listener: not connected, so closing is set before the  *)
(* lock that newConnection may hold.                                       *)
ListenerStops ==
    /\ app.pc = "close" /\ Goes("unlisten", app.sock)
    /\ sock' = [sock EXCEPT ![Listener].closing = TRUE]
    /\ UNCHANGED <<queued, accepted, listening, newest, refs, tidy, worker, gc, cl, net>>

ListenerUnset ==
    /\ app.pc = "unlisten" /\ ~Connecting /\ Goes("unmap", app.sock)
    /\ listening' = FALSE
    /\ sock' = [sock EXCEPT ![Listener].opened = FALSE]
    /\ UNCHANGED <<queued, accepted, newest, refs, tidy, worker, gc, cl, net>>

(* CUDTUnited::close, after CUDT::close: to m_ClosedSockets for a second.  *)
ToClosed(r) == [r EXCEPT !.where = "closed", !.status = "CLOSED", !.old = FALSE]

ListenerClosed ==
    /\ app.pc = "unmap" /\ ControlFree /\ Goes("up", app.sock)
    /\ sock' = [sock EXCEPT ![Listener] = ToClosed(@)]
    /\ UNCHANGED <<queued, accepted, listening, newest, refs, tidy, worker, gc, cl, net>>

(* UDT::recv.  One that fails leaves the program where it is.              *)
ReceiveStarts ==
    /\ app.pc = "up" /\ ControlFree /\ Located(app.sock)
    /\ sock[app.sock].connected
    /\ sock[app.sock].unread \/ Live(app.sock)
    /\ Goes("recv", app.sock)
    /\ UNCHANGED <<serverVars, worker, gc, cl, net>>

ReceiveReturns ==
    /\ app.pc = "recv"
    /\ sock[app.sock].unread \/ ~Live(app.sock)
    /\ sock' = [sock EXCEPT ![app.sock].unread = FALSE]
    /\ Goes("up", app.sock)
    /\ UNCHANGED <<queued, accepted, listening, newest, refs, tidy, worker, gc, cl, net>>

(* disconnect: CUDT::close of a connection says goodbye to a peer that did *)
(* not; then the socket goes to m_ClosedSockets; then cleanup.             *)
Closed(r) == [r EXCEPT !.closing = TRUE, !.connected = FALSE, !.opened = FALSE]
Goodbye(s) == IF sock[s].connected /\ ~sock[s].shutdown THEN {Shutdown(sock[s].client)}
              ELSE {}

HandleCloses ==
    /\ app.pc = "up" /\ ControlFree
    /\ IF Located(app.sock)
       THEN /\ sock' = [sock EXCEPT ![app.sock] = Closed(@)] /\ Send(Goodbye(app.sock))
            /\ Goes("bye", app.sock)
       ELSE Goes("cleanup", app.sock) /\ UNCHANGED <<sock, net>>
    /\ UNCHANGED <<queued, accepted, listening, newest, refs, tidy, worker, gc, cl>>

HandleClosed ==
    /\ app.pc = "bye" /\ ControlFree /\ Goes("cleanup", app.sock)
    /\ sock' = [sock EXCEPT ![app.sock] = ToClosed(@)]
    /\ UNCHANGED <<queued, accepted, listening, newest, refs, tidy, worker, gc, cl, net>>

(* A program that leaves the closing to cleanup.                           *)
CleansUp ==
    /\ ~tidy /\ app.pc \in {"accept", "up"} /\ Goes("cleanup", app.sock)
    /\ UNCHANGED <<serverVars, worker, gc, cl, net>>

CleanupReturns ==
    /\ app.pc = "cleanup" /\ gc = "done" /\ Goes("end", app.sock)
    /\ UNCHANGED <<serverVars, worker, gc, cl, net>>

-----------------------------------------------------------------------------
(***************************************************************************)
(* The collector.                                                          *)
(***************************************************************************)
In(where) == {s \in Sockets : sock[s].where = where}
StaysOpen(s) == sock[s].unread /\ sock[s].rounds > 0     \* data to read, wait longer
Broken == {s \in In("open") : sock[s].broken}
ToBeClosed == {s \in Broken : ~StaysOpen(s)}
ForgetsList(s) == sock[s].where = "closed" /\ sock[s].old     \* mutant: hash not awaited
Removable(s) == sock[s].where = "closed" /\ sock[s].old /\ ~sock[s].onList
ToBeRemoved == {s \in Sockets : Removable(s)}

(* Broken connections are closed, and leave the listener's sets as long as *)
(* there is a listener.                                                    *)
StillQueued(S) == IF sock[Listener].where = "gone" THEN queued ELSE queued \ S

(* removeSocket of the listener closes the sockets of its queue.           *)
Orphans == IF Listener \in ToBeRemoved THEN StillQueued(ToBeClosed) ELSE {}

CheckBrokenSockets ==
    /\ Running /\ gc \in {"run", "drain"} /\ (gc = "drain" \/ app.pc # "cleanup")
    /\ Broken \cup ToBeRemoved # {}
    /\ sock' = [s \in Sockets |->
          CASE s \in ToBeRemoved -> [Unmade EXCEPT !.where = "gone",
                                                        !.listed = sock[s].listed]
            [] s \in ToBeClosed -> ToClosed(sock[s])
            [] s \in Orphans /\ s \notin ToBeClosed /\ sock[s].where = "open" ->
                 ToClosed(Closed(sock[s]))
            [] s \in Broken \ (ToBeClosed \cup Orphans) -> [sock[s] EXCEPT !.rounds = @ - 1]
            [] OTHER -> sock[s]]
    /\ queued' = StillQueued(ToBeClosed) \ Orphans
    /\ accepted' = IF sock[Listener].where = "gone" THEN accepted ELSE accepted \ ToBeClosed
    /\ app' = IF \E s \in Orphans : sock[s].where # "open"   \* m_Sockets[*q] is NULL
              THEN [app EXCEPT !.pc = "crash"] ELSE app
    /\ net' = net \cup UNION {Goodbye(s) : s \in ToBeRemoved \cup Orphans}
    /\ refs' = refs - Cardinality(ToBeRemoved)
    /\ gc' = IF ToBeRemoved # {} /\ refs' = 0 THEN "join" ELSE gc
    /\ UNCHANGED <<listening, newest, tidy, worker, cl>>

(* The last socket takes the multiplexer with it: ~CRcvQueue waits for the *)
(* worker, with ControlLock held.                                          *)
JoinWorker ==
    /\ Running /\ gc = "join" /\ worker.pc = "idle"
    /\ gc' = IF app.pc = "cleanup" THEN "drain" ELSE "run"
    /\ UNCHANGED <<serverVars, worker, app, cl, net>>

(* Cleanup closes every socket, newest first, with ControlLock held, then  *)
(* makes the closed ones old.                                              *)
CleanupStarts ==
    /\ app.pc = "cleanup" /\ gc = "run" /\ gc' = "close"
    /\ UNCHANGED <<serverVars, worker, app, cl, net>>

CleanupStopsListener ==
    /\ gc = "close" /\ In("open") = {Listener} /\ ~sock[Listener].closing
    /\ sock' = [sock EXCEPT ![Listener].closing = TRUE]
    /\ UNCHANGED <<queued, accepted, listening, newest, refs, tidy, worker, app, gc, cl,
                   net>>

CleanupCloses ==
    /\ gc = "close" /\ In("open") # {}
    /\ LET s == Newest(In("open")) IN
       /\ s = Listener => sock[s].closing /\ ~Connecting
       /\ sock' = [sock EXCEPT ![s] = ToClosed(Closed(@))]
       /\ listening' = (listening /\ s # Listener)
       /\ queued' = queued \ {s} /\ accepted' = accepted \ {s}
       /\ Send(Goodbye(s))
    /\ UNCHANGED <<newest, refs, tidy, worker, app, gc, cl>>

CleanupDrains ==
    /\ gc = "close" /\ In("open") = {} /\ gc' = "drain"
    /\ sock' = [s \in Sockets |-> IF sock[s].where = "closed"
                                  THEN [sock[s] EXCEPT !.old = TRUE] ELSE sock[s]]
    /\ UNCHANGED <<queued, accepted, listening, newest, refs, tidy, worker, app, cl, net>>

CollectorEnds ==
    /\ gc = "drain" /\ In("closed") = {} /\ gc' = "done"
    /\ UNCHANGED <<serverVars, worker, app, cl, net>>

(* A second after it was closed.  The delay of removal trusts that no call *)
(* that can go on takes that long; one that waits for a lock may.          *)
Uses(s) ==
    \/ app.pc \in {"recv", "bye"} /\ app.sock = s /\ (app.pc = "bye" \/ ~Live(s))
    \/ app.pc \in {"close", "unlisten", "unmap"} /\ s = Listener
    \/ worker.pc \in {"listen", "find", "make"} /\ s = Listener
    \/ worker.pc = "release" /\ s = worker.sock /\ ~InCall(s)

SecondPasses(s) ==
    /\ Running /\ sock[s].where = "closed" /\ ~sock[s].old /\ ~Uses(s)
    /\ sock' = [sock EXCEPT ![s].old = TRUE]
    /\ UNCHANGED <<queued, accepted, listening, newest, refs, tidy, worker, app, gc, cl,
                   net>>

-----------------------------------------------------------------------------
ClientNext ==
    \E c \in Clients : \/ Connect(c) \/ ClientReceives(c) \/ ConnectTimesOut(c)
                       \/ \E m \in net : ClientStores(c, m)
                       \/ ClientHearsShutdown(c) \/ ClientCloses(c)

WorkerNext ==
    \/ TakeNewEntry \/ TakeRequest \/ Listen \/ ListenToDeleted \/ FindConnection \/ MakeConnection
    \/ PublishSocket \/ QueueSocket \/ TakeData \/ TakeShutdown \/ Release \/ DropFromList
    \/ \E s \in Made : PeerSilent(s)

ProgramNext ==
    \/ AcceptPops \/ AcceptGivesUp \/ AcceptReturns \/ ListenerStops \/ ListenerUnset
    \/ ListenerClosed \/ ReceiveStarts \/ ReceiveReturns \/ HandleCloses \/ HandleClosed
    \/ CleansUp \/ CleanupReturns

CollectorNext ==
    \/ CheckBrokenSockets \/ JoinWorker \/ CleanupStarts \/ CleanupStopsListener
    \/ CleanupCloses \/ CleanupDrains \/ CollectorEnds

Next == \/ ClientNext \/ WorkerNext \/ ProgramNext \/ CollectorNext
        \/ \E s \in Sockets : SecondPasses(s)

(* Threads run.  The worker looks at its timers after every packet and has *)
(* taken all new entries before one, so what it does for a socket it does  *)
(* though packets keep coming.                                             *)
Fairness ==
    /\ WF_vars(\/ TakeNewEntry \/ Listen \/ ListenToDeleted \/ FindConnection
               \/ MakeConnection \/ PublishSocket \/ QueueSocket \/ Release)
    /\ SF_vars(DropFromList)
    /\ WF_vars(\/ AcceptReturns \/ ListenerStops \/ ListenerUnset \/ ListenerClosed
               \/ ReceiveReturns \/ HandleClosed \/ CleanupReturns)
    /\ WF_vars(CollectorNext)
    /\ WF_vars(\E s \in Sockets : SecondPasses(s))

Spec == Init /\ [][Next]_vars /\ Fairness

-----------------------------------------------------------------------------
Msg == [to : Clients \cup Sockets \cup {None},
        what : {"none", "request", "cookie", "accepted", "refused", "shutdown"},
        from : Clients \cup {None}, isn : 0..Attempts, val : Sockets]

TypeOK ==
    /\ sock \in [Sockets -> Socket]
    /\ queued \subseteq Made /\ accepted \subseteq Made /\ listening \in BOOLEAN
    /\ newest \in 0..MaxSockets /\ refs \in 0..MaxSockets + 1 /\ tidy \in Tidy
    /\ worker.pc \in {"idle", "listen", "find", "make", "publish", "queue", "release"}
    /\ worker.sock \in Sockets /\ worker.msg \in Msg
    /\ app.pc \in {"accept", "got", "close", "unlisten", "unmap", "up", "recv", "bye",
                   "cleanup", "end", "exit", "crash"} /\ app.sock \in Sockets
    /\ gc \in {"run", "close", "join", "drain", "done"}
    /\ \A c \in Clients : /\ cl[c].pc \in {"idle", "wait", "up", "failed", "gone"}
                          /\ cl[c].isn \in 0..Attempts /\ cl[c].entries \in 0..Attempts
                          /\ cl[c].buf \in Msg /\ cl[c].peer \in Sockets
    /\ net \subseteq Msg

(* A request that is repeated, or delivered twice, does not get a second   *)
(* connection while the first stands (locate with peer, id and isn).       *)
OneSocketPerRequest ==
    \A s, t \in {u \in Made : sock[u].where \in {"loose", "open"} /\ Live(u)} :
        sock[s].client = sock[t].client /\ sock[s].isn = sock[t].isn => s = t

(* Nothing a thread still follows is deleted: the entries of hash and list *)
(* and new ones, the socket a thread is inside, the listener.  Cleanup of a*)
(* program that left its listener open does delete it under the worker     *)
(* (ListenToDeleted).                                                      *)
NothingDangles ==
    /\ \A s \in Made : sock[s].listed # "no" => ~Gone(s)
    /\ worker.pc # "idle" => ~Gone(worker.sock)
    /\ worker.pc \in {"listen", "find", "make", "publish", "queue"} => ~Gone(Listener)
    /\ app.pc \in {"recv", "bye"} => ~Gone(app.sock)
    /\ app.pc \in {"close", "unlisten", "unmap"} => ~Gone(Listener)

NoDangling == Running /\ app.pc # "cleanup" => NothingDangles

(* The multiplexer counts the sockets that share it: it goes with the last *)
(* one, neither sooner nor never.                                          *)
RefCountIsSockets ==
    refs = Cardinality({s \in Sockets : sock[s].where \notin {"none", "gone"}})

(* UDT::cleanup returns to a program that closed its listener first:       *)
(* garbageCollect closes and deletes all sockets and joins the worker.     *)
(* A crash also ends it.                                                   *)
CleanupEnds == (app.pc = "cleanup" /\ ~listening) ~> ~Running

(* A broken connection is given back, whatever the program does with it,   *)
(* unless it hangs in cleanup with its listener (CUDTUnited's collector).  *)
BrokenAreFreed ==
    \A s \in Made : sock[s].broken ~>
        (sock[s].where = "gone" \/ ~Running \/ (app.pc = "cleanup" /\ listening))
=============================================================================
