----------------------------- MODULE UdtSendList -----------------------------
(***************************************************************************)
(* Which socket sends next: the heap of CSndUList over all sockets of a    *)
(* multiplexer (queue.cpp), the thread CSndQueue::worker that sleeps until *)
(* its first entry is due (CTimer, common.cpp), and the other threads that *)
(* put sockets on it, move them to its front, and take them off.           *)
(*                                                                         *)
(*   worker    getNextProcTime, sleepto, pop; waits when the list is empty *)
(*   others    update (data, an ACK: reschedule FALSE; a NAK, a time-out:  *)
(*             TRUE), remove (close), and at last ~CSndQueue               *)
(*                                                                         *)
(* All hold m_ListLock in the list; who inserts the first entry also takes *)
(* m_WindowLock, to signal the worker (inserter).                          *)
(*                                                                         *)
(* Abstractions.  Times are relative to the present: 0 and below is due.   *)
(* The time 1 that update gives comes before all times of the clock        *)
(* (AtOnce).  What packData finds is a choice: nothing to send, or a       *)
(* packet and a time for the next one (UdtTransfer has one socket's).  A   *)
(* socket that is not on the list has no time.                             *)
(***************************************************************************)
EXTENDS Integers, FiniteSets

CONSTANTS
    Sockets,    \* all on one multiplexer
    MaxDelay,   \* longest interval between two packets of a socket
    MaxLate,    \* bound: how late the worker may be
    MaxUpdates, \* bound: calls of update that change the list
    None

ASSUME SendListAssumption ==
    /\ IsFiniteSet(Sockets) /\ None \notin Sockets
    /\ {MaxDelay, MaxLate, MaxUpdates} \subseteq Nat

AtOnce == -MaxLate - 1

VARIABLES
    list,       \* m_pHeap, and of each node m_iHeapLoc and m_llTimeStamp
    life,       \* of each socket: in use, broken, being closed
    inserter,   \* who is in insert_ about to signal, with m_ListLock
    worker,     \* where the worker is, and what getNextProcTime returned it
    sched,      \* m_ullSchedTime of the timer
    closing,    \* m_bClosing of the queue, and whether that was signalled
    updates     \* calls of update left

vars == <<list, life, inserter, worker, sched, closing, updates>>

-----------------------------------------------------------------------------
(* The heap.                                                               *)
LastEntry(l) == Cardinality(DOMAIN l.heap) - 1
TimeAt(l, i) == l.time[l.heap[i]]
Later(a, b) == a > b

Swapped(l, p, q) == [l EXCEPT !.heap[p] = l.heap[q], !.heap[q] = l.heap[p]]
Placed(l, q) == [l EXCEPT !.loc[l.heap[q]] = q]
ForgetsChild(l, p, q) == Placed(Swapped(l, p, q), p)                \* mutant
Descends(l, p, q) == Placed(Placed(Swapped(l, p, q), p), q)

RECURSIVE Rise(_, _), Sink(_, _)
Rise(l, q) ==
    LET p == (q - 1) \div 2 IN
    IF q # 0 /\ Later(TimeAt(l, p), TimeAt(l, q))
    THEN Rise(Placed(Swapped(l, p, q), q), p)
    ELSE Placed(l, q)

Sink(l, q) ==
    LET left == 2 * q + 1
        p == IF left + 1 <= LastEntry(l) /\ Later(TimeAt(l, left), TimeAt(l, left + 1))
             THEN left + 1 ELSE left
    IN  IF left <= LastEntry(l) /\ Later(TimeAt(l, q), TimeAt(l, p))
        THEN Sink(Descends(l, p, q), p)
        ELSE l

(* insert_, but for its signal: the array is long enough.                  *)
Insert(l, s, t) ==
    LET n == LastEntry(l) + 1 IN
    IF l.loc[s] >= 0 THEN l
    ELSE Rise([heap |-> [i \in 0..n |-> IF i = n THEN s ELSE l.heap[i]],
               loc |-> l.loc, time |-> [l.time EXCEPT ![s] = t]], n)

(* remove_: the last entry takes the place of the one removed.             *)
Remove(l, s) ==
    LET i == l.loc[s]
        n == LastEntry(l)
        m == Placed([l EXCEPT !.heap[i] = l.heap[n]], i)
        shorter == [m EXCEPT !.heap = [j \in 0..(n - 1) |-> m.heap[j]]]
    IN  IF i < 0 THEN l
        ELSE [Sink(shorter, i) EXCEPT !.loc[s] = -1, !.time[s] = AtOnce]

Empty == [heap |-> [i \in {} |-> None], loc |-> [s \in Sockets |-> -1],
          time |-> [s \in Sockets |-> AtOnce]]
Listed(s) == list.loc[s] >= 0
IsEmpty == LastEntry(list) = -1

-----------------------------------------------------------------------------
Init ==
    /\ list = Empty /\ life = [s \in Sockets |-> "up"] /\ inserter = None
    /\ worker = [pc |-> "look", until |-> 0] /\ sched = 0
    /\ closing = "no" /\ updates = MaxUpdates

ListIsFree == inserter = None
NoWindowLock == TRUE                            \* mutant
WindowIsFree == worker.pc # "locked"

(* Threads that call update: as long as the socket is not closed.          *)
MayUpdate(s) == ListIsFree /\ life[s] \in {"up", "removed"} /\ updates > 0
Counted == updates' = updates - 1

(* insert_(1, u) as a caller of update sees it.                            *)
Enlists(l, s) ==
    /\ list' = Insert(l, s, AtOnce)
    /\ inserter' = IF LastEntry(l) = -1 THEN s ELSE None

(* update, of a socket that is not on the list.                            *)
Enlist(s) ==
    /\ MayUpdate(s) /\ ~Listed(s)
    /\ Enlists(list, s)
    /\ Counted /\ UNCHANGED <<life, worker, sched, closing>>

(* update with reschedule: the first entry becomes due, and CTimer's       *)
(* interrupt ends the worker's sleep; another is taken off and put on.     *)
Reschedules(s) ==
    IF list.loc[s] = 0
    THEN /\ list' = [list EXCEPT !.time[s] = AtOnce] /\ sched' = 0
         /\ UNCHANGED inserter
    ELSE Enlists(Remove(list, s), s) /\ UNCHANGED sched

Reschedule(s) ==
    /\ MayUpdate(s) /\ Listed(s)
    /\ Reschedules(s)
    /\ Counted /\ UNCHANGED <<life, worker, closing>>

(* checkTimers finds the peer dead: marks the socket, and then "update     *)
(* snd U list to remove this socket".                                      *)
Breaks(s) ==
    /\ life[s] = "up"
    /\ life' = [life EXCEPT ![s] = "breaking"]
    /\ UNCHANGED <<list, inserter, worker, sched, closing, updates>>

BreakUpdates(s) ==
    /\ ListIsFree /\ life[s] = "breaking"
    /\ Reschedules(s)
    /\ life' = [life EXCEPT ![s] = "broken"]
    /\ UNCHANGED <<worker, closing, updates>>

(* close takes the socket off the list, and only later says that it is not *)
(* connected: meanwhile it may be put on again, by checkTimers also.       *)
CloseRemoves(s) ==
    /\ ListIsFree /\ life[s] \in {"up", "breaking", "broken"}
    /\ list' = Remove(list, s)
    /\ life' = [life EXCEPT ![s] = "removed"]
    /\ UNCHANGED <<inserter, worker, sched, closing, updates>>

CloseEnds(s) ==
    /\ life[s] = "removed"
    /\ life' = [life EXCEPT ![s] = "down"]
    /\ UNCHANGED <<list, inserter, worker, sched, closing, updates>>

WorkerAt(pc) == [worker EXCEPT !.pc = pc]
Woken == IF worker.pc = "waiting" THEN WorkerAt("look") ELSE worker

(* The end of insert_ for a first entry.                                   *)
Signal ==
    /\ inserter # None /\ WindowIsFree
    /\ worker' = Woken
    /\ inserter' = None
    /\ UNCHANGED <<list, life, sched, closing, updates>>

(* ~CSndQueue, when the last socket of the multiplexer is gone.            *)
Destroy ==
    /\ closing = "no" /\ ListIsFree /\ \A s \in Sockets : life[s] = "down"
    /\ closing' = "set"
    /\ UNCHANGED <<list, life, inserter, worker, sched, updates>>

DestroySignals ==
    /\ closing = "set" /\ WindowIsFree
    /\ closing' = "signalled"
    /\ worker' = Woken
    /\ UNCHANGED <<list, life, inserter, sched, updates>>

-----------------------------------------------------------------------------
(* CSndQueue::worker                                                       *)
(***************************************************************************)
Works(pc) == worker' = WorkerAt(pc) /\ UNCHANGED <<list, life, inserter, closing, updates>>

Ends == worker.pc = "look" /\ closing # "no" /\ Works("gone") /\ UNCHANGED sched

(* getNextProcTime, and the question whether to sleep.                     *)
Looks ==
    /\ worker.pc = "look" /\ closing = "no" /\ ListIsFree
    /\ IF IsEmpty THEN Works("idle")
       ELSE /\ worker' = [worker EXCEPT !.pc = IF TimeAt(list, 0) > 0 THEN "sleep" ELSE "pop",
                                        !.until = IF TimeAt(list, 0) > 0
                                                  THEN TimeAt(list, 0) ELSE 0]
            /\ UNCHANGED <<list, life, inserter, closing, updates>>
    /\ UNCHANGED sched

(* sleepto sets the time to wait for, whatever interrupt set before.       *)
SleepStarts ==
    /\ worker.pc = "sleep" /\ sched' = worker.until
    /\ worker' = [worker EXCEPT !.pc = "sleeping", !.until = 0]
    /\ UNCHANGED <<list, life, inserter, closing, updates>>

Wakes == worker.pc = "sleeping" /\ sched <= 0 /\ Works("pop") /\ UNCHANGED sched

(* pop takes the first entry, which need not be the one the worker looked  *)
(* at, nor be due.                                                         *)
PopEmpty == worker.pc = "pop" /\ ListIsFree /\ IsEmpty /\ Works("look") /\ UNCHANGED sched

Pop ==
    /\ worker.pc = "pop" /\ ListIsFree /\ ~IsEmpty
    /\ LET s == list.heap[0]
           rest == Remove(list, s)
       IN  /\ \/ list' = rest           \* not connected, broken, or nothing to send
              \/ /\ life[s] \in {"up", "removed"}
                 /\ \E t \in 0..MaxDelay : list' = Insert(rest, s, t)
           /\ worker' = [worker EXCEPT !.pc = "look"]
    /\ UNCHANGED <<life, inserter, sched, closing, updates>>

(* No socket: the worker asks again with m_WindowLock and waits.           *)
LocksWindow ==
    /\ worker.pc = "idle"
    /\ Works(IF closing = "no" /\ IsEmpty THEN "locked" ELSE "look")
    /\ UNCHANGED sched

Waits == worker.pc = "locked" /\ Works("waiting") /\ UNCHANGED sched

WorkerNext ==
    \/ Ends \/ Looks \/ SleepStarts \/ Wakes \/ PopEmpty \/ Pop \/ LocksWindow \/ Waits

(* Time passes.                                                            *)
Before(t) == IF t > 0 THEN t - 1 ELSE t
Tick ==
    /\ \A s \in Sockets : Listed(s) => list.time[s] # -MaxLate
    /\ \/ \E s \in Sockets : Listed(s) /\ list.time[s] # AtOnce
       \/ sched > 0 \/ worker.until > 0
    /\ list' = [list EXCEPT !.time = [s \in Sockets |->
                   IF @[s] = AtOnce THEN AtOnce ELSE @[s] - 1]]
    /\ sched' = Before(sched) /\ worker' = [worker EXCEPT !.until = Before(@)]
    /\ UNCHANGED <<life, inserter, closing, updates>>

Next ==
    \/ \E s \in Sockets :
          Enlist(s) \/ Reschedule(s) \/ Breaks(s) \/ BreakUpdates(s) \/ CloseRemoves(s)
          \/ CloseEnds(s)
    \/ Signal \/ Destroy \/ DestroySignals \/ WorkerNext \/ Tick

Spec == Init /\ [][Next]_vars

-----------------------------------------------------------------------------
(* The ranges of the variables.                                            *)
TypeOK ==
    /\ list.heap \in [0..LastEntry(list) -> Sockets]
    /\ list.loc \in [Sockets -> -1..(Cardinality(Sockets) - 1)]
    /\ list.time \in [Sockets -> AtOnce..MaxDelay]
    /\ life \in [Sockets -> {"up", "breaking", "broken", "removed", "down"}]
    /\ inserter \in Sockets \cup {None} /\ sched \in 0..MaxDelay
    /\ worker.pc \in {"look", "sleep", "sleeping", "pop", "idle", "locked", "waiting", "gone"}
    /\ worker.until \in 0..MaxDelay
    /\ closing \in {"no", "set", "signalled"} /\ updates \in 0..MaxUpdates

(* Each node knows its place in the heap and is there once, whatever order *)
(* of removals and insertions moved it: update and remove go by            *)
(* m_iHeapLoc alone.                                                       *)
LocIsPlace ==
    /\ \A i \in DOMAIN list.heap : list.loc[list.heap[i]] = i
    /\ \A s \in Sockets : Listed(s) => list.loc[s] \in DOMAIN list.heap

(* The worker never waits for a signal that has been given: while there is *)
(* a socket on the list, someone is about to give it.                      *)
NoLostWakeup == worker.pc = "waiting" => IsEmpty \/ inserter # None

==============================================================================
