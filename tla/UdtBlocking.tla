----------------------------- MODULE UdtBlocking -----------------------------
(***************************************************************************)
(* Calls that block on a UDT socket, and how they are let go (core.cpp):   *)
(* a thread in send or sendfile that waits for room, one in recv or        *)
(* recvfile that waits for data, the receiving queue's thread that makes   *)
(* room and brings data or finds the connection broken, and threads that   *)
(* close the socket, which lingers, ends the calls and waits for them.     *)
(*                                                                         *)
(*   m_SendLock, m_RecvLock      held through a call; what close waits for *)
(*   m_SendBlockLock, m_RecvDataLock   of the two conditions; held from    *)
(*                               the last test before a wait until the     *)
(*                               wait (pc = "locked"), and by a signaller  *)
(*   m_ConnectionLock            held through close                        *)
(*                                                                         *)
(* send and recv move what they can and return, sendfile and recvfile hold *)
(* their lock until all is moved.                                          *)
(*                                                                         *)
(* Abstractions.  The buffers are counts of blocks, and a call moves one   *)
(* at a time.  Packets that come are acknowledgements of what is in the    *)
(* send buffer and data in order; the transport is in UdtTransfer.  The    *)
(* calls block without a time-out (m_bSynSending, m_iSndTimeOut < 0), as   *)
(* udtscp's do.                                                            *)
(***************************************************************************)
EXTENDS Integers

CONSTANTS
    Blocks,     \* what is to be sent
    SndBufSize, \* m_iSndBufSize
    Coming,     \* data that the peer sends
    Wanted,     \* data that the receiving call asks for
    Closers,    \* threads that close the socket
    None

ASSUME BlockingAssumption ==
    /\ {Blocks, SndBufSize, Coming, Wanted} \subseteq Nat /\ SndBufSize > 0
    /\ Closers \cap {"snd", "rcv", "wrk"} = {}
    /\ None \notin Closers \cup {"snd", "rcv", "wrk"}

Threads == {"snd", "rcv", "wrk"} \cup Closers

VARIABLES
    opened, connected, closing, broken, shutdown,   \* m_bOpened, ...
    used,       \* blocks in the send buffer
    data,       \* data in the receive buffer
    unsent, unread, coming,     \* what the calls and the peer have still to do
    pc,
    call,       \* which call the sending and the receiving thread are in
    sendLock, recvLock, connLock,   \* who holds them
    bye         \* history: for each close, blocks written before it and how it lingered

flags == <<opened, connected, closing, broken, shutdown>>
amounts == <<used, data, unsent, unread, coming>>
locks == <<sendLock, recvLock, connLock>>
vars == <<flags, amounts, pc, call, locks, bye>>

Init ==
    /\ opened = TRUE /\ connected = TRUE
    /\ closing = FALSE /\ broken = FALSE /\ shutdown = FALSE
    /\ used = 0 /\ data = 0 /\ unsent = Blocks /\ unread = Wanted /\ coming = Coming
    /\ pc = [t \in Threads |-> IF t = "wrk" THEN "idle" ELSE "out"]
    /\ call = [snd |-> None, rcv |-> None]
    /\ sendLock = None /\ recvLock = None /\ connLock = None
    /\ bye = [c \in Closers |-> [before |-> 0, patient |-> FALSE, said |-> FALSE]]

Returns(t) == pc' = [pc EXCEPT ![t] = "out"] /\ call' = [call EXCEPT ![t] = None]
Throws(t) == pc' = [pc EXCEPT ![t] = "ended"] /\ call' = [call EXCEPT ![t] = None]
Goes(t, to) == pc' = [pc EXCEPT ![t] = to]
AnyLock(l) == TRUE                              \* mutant
IsFree(l) == l = None
NoBlockLock(t) == TRUE                          \* mutant
BlockLockIsFree(t) == pc[t] # "locked"

(* pthread_cond_signal to whom it may wait.                                *)
Signalled(p, t) == IF p[t] = "waiting" THEN [p EXCEPT ![t] = "test"] ELSE p

-----------------------------------------------------------------------------
(* send, sendfile                                                          *)
(***************************************************************************)
DownNotClosing == broken \/ ~connected          \* mutant
Down == broken \/ closing \/ ~connected

SendCalls ==
    /\ pc["snd"] = "out"
    /\ IF unsent = 0 \/ Down
          THEN Goes("snd", "ended") /\ UNCHANGED call
          ELSE /\ Goes("snd", "lock")
               /\ \E how \in {"send", "sendfile"} : call' = [call EXCEPT !["snd"] = how]
    /\ UNCHANGED <<flags, amounts, locks, bye>>

SendLocks ==
    /\ pc["snd"] = "lock" /\ IsFree(sendLock)
    /\ sendLock' = "snd" /\ Goes("snd", IF call["snd"] = "send" THEN "look" ELSE "test")
    /\ UNCHANGED <<flags, amounts, recvLock, connLock, bye, call>>

(* send, and sendmsg, which find room go on without another look at the    *)
(* connection.                                                             *)
SendLooks ==
    /\ pc["snd"] = "look"
    /\ Goes("snd", IF SndBufSize <= used THEN "test" ELSE "move")
    /\ UNCHANGED <<flags, amounts, locks, bye, call>>

SendTests ==
    /\ pc["snd"] = "test"
    /\ Goes("snd", IF ~Down /\ SndBufSize <= used THEN "locked" ELSE "woken")
    /\ UNCHANGED <<flags, amounts, locks, bye, call>>

Waits(t) ==
    /\ pc[t] = "locked" /\ Goes(t, "waiting")
    /\ UNCHANGED <<flags, amounts, locks, bye, call>>

SendThrows ==
    /\ pc["snd"] = "woken" /\ Down
    /\ sendLock' = None /\ Throws("snd")
    /\ UNCHANGED <<flags, amounts, recvLock, connLock, bye>>

SendPasses ==
    /\ pc["snd"] = "woken" /\ ~Down /\ Goes("snd", "move")
    /\ UNCHANGED <<flags, amounts, locks, bye, call>>

SendAdds ==
    /\ pc["snd"] = "move"
    /\ used' = used + 1 /\ unsent' = unsent - 1
    /\ IF unsent = 1 \/ call["snd"] = "send"
          THEN sendLock' = None /\ Returns("snd")
          ELSE UNCHANGED <<sendLock, call>> /\ Goes("snd", "test")
    /\ UNCHANGED <<flags, data, unread, coming, recvLock, connLock, bye>>

-----------------------------------------------------------------------------
(* recv, recvfile: what has come is still given out when the connection is *)
(* broken.                                                                 *)
(***************************************************************************)
NothingLeft == ~connected \/ ((broken \/ closing) /\ data = 0)

RecvCalls ==
    /\ pc["rcv"] = "out"
    /\ IF unread = 0 \/ NothingLeft
          THEN Goes("rcv", "ended") /\ UNCHANGED call
          ELSE /\ Goes("rcv", "lock")
               /\ \E how \in {"recv", "recvfile"} : call' = [call EXCEPT !["rcv"] = how]
    /\ UNCHANGED <<flags, amounts, locks, bye>>

RecvLocks ==
    /\ pc["rcv"] = "lock" /\ IsFree(recvLock)
    /\ recvLock' = "rcv" /\ Goes("rcv", "test")
    /\ UNCHANGED <<flags, amounts, sendLock, connLock, bye, call>>

RecvTests ==
    /\ pc["rcv"] = "test"
    /\ Goes("rcv", IF ~Down /\ data = 0 THEN "locked" ELSE "woken")
    /\ UNCHANGED <<flags, amounts, locks, bye, call>>

RecvThrows ==
    /\ pc["rcv"] = "woken" /\ NothingLeft
    /\ recvLock' = None /\ Throws("rcv")
    /\ UNCHANGED <<flags, amounts, sendLock, connLock, bye>>

RecvPasses ==
    /\ pc["rcv"] = "woken" /\ ~NothingLeft /\ Goes("rcv", "move")
    /\ UNCHANGED <<flags, amounts, locks, bye, call>>

RecvReads ==
    /\ pc["rcv"] = "move"
    /\ data' = data - 1 /\ unread' = unread - 1
    /\ IF unread = 1 \/ call["rcv"] = "recv"
          THEN recvLock' = None /\ Returns("rcv")
          ELSE UNCHANGED <<recvLock, call>> /\ Goes("rcv", "test")
    /\ UNCHANGED <<flags, used, unsent, coming, sendLock, connLock, bye>>

-----------------------------------------------------------------------------
(* CRcvQueue::worker looks at the flags and then handles a packet or the   *)
(* timers; close may come in between.                                      *)
(***************************************************************************)
Takes(what) ==
    /\ pc["wrk"] = "idle" /\ ~Down
    /\ Goes("wrk", what)
    /\ UNCHANGED <<flags, amounts, locks, bye, call>>

TakesAck == used > 0 /\ Takes("ack")
TakesData == coming > 0 /\ Takes("data")
TakesShutdown == Takes("shutdown")
TakesTimer == Takes("timer")

FreesBlocks ==
    /\ pc["wrk"] = "ack"
    /\ \E n \in 1..used : used' = used - n
    /\ Goes("wrk", "signal snd")
    /\ UNCHANGED <<flags, data, unsent, unread, coming, locks, bye, call>>

StoresData ==
    /\ pc["wrk"] = "data"
    /\ data' = data + 1 /\ coming' = coming - 1
    /\ Goes("wrk", "signal rcv")
    /\ UNCHANGED <<flags, used, unsent, unread, locks, bye, call>>

SignalFor == [snd |-> "signal snd", rcv |-> "signal rcv"]
Signals(t) ==
    /\ pc["wrk"] = SignalFor[t] /\ BlockLockIsFree(t)
    /\ pc' = Signalled([pc EXCEPT !["wrk"] = "idle"], t)
    /\ UNCHANGED <<flags, amounts, locks, bye, call>>

(* A shutdown from the peer; ten seconds without a word from it.           *)
Breaks ==
    /\ pc["wrk"] \in {"shutdown", "timer"}
    /\ closing' = TRUE /\ broken' = TRUE
    /\ shutdown' = (shutdown \/ pc["wrk"] = "shutdown")
    /\ Goes("wrk", "release")
    /\ UNCHANGED <<opened, connected, amounts, locks, bye, call>>

-----------------------------------------------------------------------------
(* releaseSynch, called by worker and closers.                             *)
(***************************************************************************)
Step(t, from, to) == pc[t] = from /\ Goes(t, to) /\ UNCHANGED <<flags, amounts, locks, bye, call>>

WakesSender(t) ==
    /\ pc[t] = "release" /\ BlockLockIsFree("snd")
    /\ pc' = Signalled([pc EXCEPT ![t] = "released snd"], "snd")
    /\ UNCHANGED <<flags, amounts, locks, bye, call>>

PassesSendLock(t) == IsFree(sendLock) /\ Step(t, "released snd", "release rcv")

WakesReceiver(t) ==
    /\ pc[t] = "release rcv" /\ BlockLockIsFree("rcv")
    /\ pc' = Signalled([pc EXCEPT ![t] = "released rcv"], "rcv")
    /\ UNCHANGED <<flags, amounts, locks, bye, call>>

PassesRecvLock(t) ==
    IsFree(recvLock) /\ Step(t, "released rcv", IF t = "wrk" THEN "idle" ELSE "bye")

Releases(t) ==
    WakesSender(t) \/ PassesSendLock(t) \/ WakesReceiver(t) \/ PassesRecvLock(t)

-----------------------------------------------------------------------------
(* close                                                                   *)
(***************************************************************************)
CloseStarts(c) ==
    /\ pc[c] = "out"
    /\ Goes(c, IF opened THEN "linger" ELSE "ended")
    /\ closing' = (closing \/ (opened /\ ~connected))
    /\ bye' = [bye EXCEPT ![c].before = Blocks - unsent]
    /\ UNCHANGED <<opened, connected, broken, shutdown, amounts, locks, call>>

NoLinger == FALSE                               \* mutant
Lingering == ~broken /\ connected /\ used > 0

LingerEnds(c) ==
    /\ pc[c] = "linger" /\ ~Lingering
    /\ Goes(c, "conn") /\ bye' = [bye EXCEPT ![c].patient = ~broken /\ connected]
    /\ UNCHANGED <<flags, amounts, locks, call>>

(* After 180 seconds.                                                      *)
LingerTimesOut(c) ==
    /\ pc[c] = "linger" /\ Goes(c, "conn")
    /\ UNCHANGED <<flags, amounts, locks, bye, call>>

CloseLocks(c) ==
    /\ pc[c] = "conn" /\ IsFree(connLock)
    /\ connLock' = c /\ closing' = TRUE /\ Goes(c, "release")
    /\ UNCHANGED <<opened, connected, broken, shutdown, amounts, sendLock, recvLock, bye, call>>

SaysBye(c) ==
    /\ pc[c] = "bye" /\ Goes(c, "send lock")
    /\ connected' = FALSE
    /\ bye' = [bye EXCEPT ![c].said = connected /\ ~shutdown]
    /\ UNCHANGED <<opened, closing, broken, shutdown, amounts, locks, call>>

CloseTakesSendLock(c) ==
    /\ pc[c] = "send lock" /\ IsFree(sendLock)
    /\ sendLock' = c /\ Goes(c, "recv lock")
    /\ UNCHANGED <<flags, amounts, recvLock, connLock, bye, call>>

CloseEnds(c) ==
    /\ pc[c] = "recv lock" /\ IsFree(recvLock)
    /\ opened' = FALSE
    /\ sendLock' = None /\ connLock' = None /\ Goes(c, "ended")
    /\ UNCHANGED <<connected, closing, broken, shutdown, amounts, recvLock, bye, call>>

-----------------------------------------------------------------------------
SenderNext ==
    \/ SendCalls \/ SendLocks \/ SendLooks \/ SendTests \/ Waits("snd")
    \/ SendThrows \/ SendPasses \/ SendAdds
ReceiverNext == RecvCalls \/ RecvLocks \/ RecvTests \/ Waits("rcv") \/ RecvThrows \/ RecvPasses \/ RecvReads
WorkerHandles == FreesBlocks \/ StoresData \/ Signals("snd") \/ Signals("rcv") \/ Breaks \/ Releases("wrk")
CloserGoesOn(c) ==
    \/ LingerEnds(c) \/ LingerTimesOut(c) \/ CloseLocks(c) \/ Releases(c) \/ SaysBye(c)
    \/ CloseTakesSendLock(c) \/ CloseEnds(c)

Next ==
    \/ SenderNext \/ ReceiverNext \/ WorkerHandles
    \/ TakesAck \/ TakesData \/ TakesShutdown \/ TakesTimer
    \/ \E c \in Closers : CloseStarts(c) \/ CloserGoesOn(c)

(* Threads run, and what is sent is acknowledged while the connection      *)
(* stands.  Nobody has to close or break it.                               *)
Fairness ==
    /\ WF_vars(SenderNext) /\ WF_vars(ReceiverNext) /\ WF_vars(WorkerHandles)
    /\ WF_vars(TakesAck)
    /\ \A c \in Closers : WF_vars(CloserGoesOn(c))

Spec == Init /\ [][Next]_vars /\ Fairness

-----------------------------------------------------------------------------
CallPcs == {"out", "lock", "look", "test", "locked", "waiting", "woken", "move", "ended"}
ReleasePcs == {"release", "released snd", "release rcv", "released rcv"}
WorkerPcs == {"idle", "ack", "data", "shutdown", "timer", "signal snd", "signal rcv"}
             \cup ReleasePcs
ClosePcs == {"out", "linger", "conn", "bye", "send lock", "recv lock", "ended"}
            \cup ReleasePcs

(* The ranges of the variables: no more in the send buffer than it holds,  *)
(* no more read than came.                                                 *)
TypeOK ==
    /\ {opened, connected, closing, broken, shutdown} \subseteq BOOLEAN
    /\ used \in 0..SndBufSize /\ data \in 0..Coming
    /\ unsent \in 0..Blocks /\ unread \in 0..Wanted /\ coming \in 0..Coming
    /\ {sendLock, recvLock, connLock} \subseteq Threads \cup {None}
    /\ pc["snd"] \in CallPcs /\ pc["rcv"] \in CallPcs /\ pc["wrk"] \in WorkerPcs
    /\ pc \in [Threads -> CallPcs \cup WorkerPcs \cup ClosePcs]
    /\ \A c \in Closers : pc[c] \in ClosePcs
    /\ call \in [{"snd", "rcv"} -> {None, "send", "sendfile", "recv", "recvfile"}]
    /\ bye \in [Closers -> [before : 0..Blocks, patient : BOOLEAN, said : BOOLEAN]]

(* A thread that waits though it need not is about to be signalled: no     *)
(* acknowledgement, data, shutdown, time-out or close is slept through.    *)
NoSignalMissed ==
    /\ pc["snd"] = "waiting" /\ (used < SndBufSize \/ Down) =>
          pc["wrk"] = "signal snd" \/ \E t \in Threads : pc[t] = "release"
    /\ pc["rcv"] = "waiting" /\ (data > 0 \/ Down) =>
          \/ pc["wrk"] = "signal rcv"
          \/ \E t \in Threads : pc[t] \in {"release", "released snd", "release rcv"}

(* close waits "until all data in the sending buffer are sent out"         *)
(* (close.htm): when it says goodbye to the peer, and the connection did   *)
(* not break nor patience run out, all that was written before it has been *)
(* acknowledged.                                                           *)
LingerKeepsData ==
    \A c \in Closers : bye[c].said /\ bye[c].patient =>
        Blocks - unsent - used >= bye[c].before

(* Once a close has returned no call takes anything out of the buffers,    *)
(* which are deleted a second later, and none puts anything in, but for    *)
(* one: close is "waiting all send and recv calls to stop" (core.cpp:881), *)
(* yet a send that tested the connection before it waited for m_SendLock   *)
(* adds what it has room for.  It does so once, and no call after it.      *)
LateSend == call["snd"] = "send" /\ pc["snd"] \in {"lock", "look", "move"}
NothingAfterClose ==
    [][~opened => /\ UNCHANGED unread
                  /\ unsent' # unsent => LateSend /\ ~LateSend'
                  /\ LateSend' => LateSend]_vars

(* A sending call returns, as the peer acknowledges or the connection      *)
(* ends; a receiving one at the latest when the connection ends.           *)
CallsReturn ==
    /\ <>(pc["snd"] = "ended")
    /\ closing ~> pc["rcv"] = "ended"

(* close returns, and so does the worker, which waits in releaseSynch for  *)
(* calls to end although it serves other sockets too.                      *)
CloseReturns ==
    /\ \A c \in Closers : pc[c] # "out" ~> pc[c] = "ended"
    /\ pc["wrk"] # "idle" ~> pc["wrk"] = "idle"

=============================================================================
