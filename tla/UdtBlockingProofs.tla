-------------------------- MODULE UdtBlockingProofs --------------------------
(***************************************************************************)
(* Proofs about the calls that block, for any amounts of data, any size of *)
(* the send buffer and any number of threads that close the socket.        *)
(***************************************************************************)
EXTENDS UdtBlocking, TLAPS

InCall == {"look", "test", "locked", "waiting", "woken", "move"}
Locked == ReleasePcs \cup {"bye", "send lock", "recv lock"}

(* TypeOK in its parts.                                                    *)
FlagsOK == {opened, connected, closing, broken, shutdown} \subseteq BOOLEAN
AmountsOK ==
    /\ used \in 0..SndBufSize /\ data \in 0..Coming
    /\ unsent \in 0..Blocks /\ unread \in 0..Wanted /\ coming \in 0..Coming
PlacesOK ==
    /\ {sendLock, recvLock, connLock} \subseteq Threads \cup {None}
    /\ pc["snd"] \in CallPcs /\ pc["rcv"] \in CallPcs /\ pc["wrk"] \in WorkerPcs
    /\ pc \in [Threads -> CallPcs \cup WorkerPcs \cup ClosePcs]
    /\ \A c \in Closers : pc[c] \in ClosePcs
ByesOK ==
    /\ call \in [{"snd", "rcv"} -> {None, "send", "sendfile", "recv", "recvfile"}]
    /\ bye \in [Closers -> [before : 0..Blocks, patient : BOOLEAN, said : BOOLEAN]]

(* Who is where in the code holds which lock.                              *)
LocksHeld ==
    /\ pc["snd"] \in InCall <=> sendLock = "snd"
    /\ pc["rcv"] \in InCall <=> recvLock = "rcv"
    /\ \A c \in Closers : /\ pc[c] \in Locked <=> connLock = c
                          /\ pc[c] = "recv lock" <=> sendLock = c
    /\ recvLock \in {"rcv", None} /\ sendLock # "rcv" /\ sendLock # "wrk"

(* What a call, or the worker, has tested still holds where it acts on it: *)
(* nobody else takes room, data or packets away, and Down is for good.     *)
Tested ==
    /\ pc["snd"] \in {"lock"} \cup InCall => unsent > 0
    /\ pc["rcv"] \in {"lock"} \cup InCall => unread > 0
    /\ pc["snd"] = "look" => call["snd"] = "send"
    /\ pc["snd"] = "woken" => Down \/ used < SndBufSize
    /\ pc["snd"] = "move" => used < SndBufSize
    /\ pc["rcv"] = "woken" => Down \/ data > 0
    /\ pc["rcv"] = "move" => data > 0
    /\ pc["wrk"] = "data" => coming > 0
    /\ data + coming <= Coming

(* NoSignalMissed, from the last test on.                                  *)
SignalComes ==
    /\ pc["snd"] \in {"locked", "waiting"} /\ (used < SndBufSize \/ Down) =>
          pc["wrk"] = "signal snd" \/ \E t \in Threads : pc[t] = "release"
    /\ pc["rcv"] \in {"locked", "waiting"} /\ (data > 0 \/ Down) =>
          \/ pc["wrk"] = "signal rcv"
          \/ \E t \in Threads : pc[t] \in {"release", "released snd", "release rcv"}

(* What a lingering close has waited for stays so.                         *)
LingerSaw ==
    \A c \in Closers :
        /\ pc[c] = "out" => ~bye[c].patient /\ ~bye[c].said
        /\ bye[c].before <= Blocks - unsent
        /\ bye[c].patient => Blocks - unsent - used >= bye[c].before

(* Once the socket is not open no call is past its tests, nor gets there,  *)
(* but for a send that found room without a test under the lock.           *)
Shut ==
    /\ \A c \in Closers :
          /\ pc[c] \in Locked => closing
          /\ pc[c] \in {"send lock", "recv lock"} => ~connected
    /\ ~opened => /\ closing /\ ~connected
                  /\ pc["snd"] = "move" => call["snd"] = "send"
                  /\ pc["rcv"] # "move"

Types == FlagsOK /\ AmountsOK /\ PlacesOK /\ ByesOK
IInv == Types /\ LocksHeld /\ Tested /\ SignalComes /\ LingerSaw /\ Shut

-----------------------------------------------------------------------------
LEMMA Sizes ==
    /\ Blocks \in Nat /\ SndBufSize \in Nat \ {0} /\ Coming \in Nat /\ Wanted \in Nat
  BY BlockingAssumption

(* The threads are different, and none of them is nobody.                  *)
LEMMA Names ==
    /\ \A c \in Closers : c \notin {"snd", "rcv", "wrk", None}
    /\ None \notin {"snd", "rcv", "wrk"}
  BY BlockingAssumption

LEMMA TypeParts == TypeOK <=> Types
  BY DEF TypeOK, Types, FlagsOK, AmountsOK, PlacesOK, ByesOK

-----------------------------------------------------------------------------
(* Each action preserves the invariant.  <1>0 makes the parts facts of     *)
(* their own, which a leaf can cite without opening them; a leaf opens the *)
(* part it is about and those whose facts that part needs.                 *)
(*                                                                         *)
(* The sending call                                                        *)
(***************************************************************************)
LEMMA SendCallsInv == ASSUME IInv, SendCalls PROVE IInv'
  <1> USE Sizes, Names DEF Threads, flags, amounts, locks, Goes, Returns, Throws, IsFree, BlockLockIsFree
  <1>0. FlagsOK /\ AmountsOK /\ PlacesOK /\ ByesOK /\ LocksHeld /\ Tested /\ SignalComes /\ LingerSaw /\ Shut
    BY DEF IInv, Types
  <1>1. Down' = Down /\ NothingLeft' = NothingLeft
    BY <1>0 DEF SendCalls, Down, NothingLeft
  <1>2. FlagsOK'
    BY <1>0, <1>1 DEF FlagsOK, SendCalls
  <1>3. AmountsOK'
    BY <1>0, <1>1 DEF AmountsOK, Tested, InCall, SendCalls
  <1>11. PICK to \in {"ended", "lock"} : pc' = [pc EXCEPT !["snd"] = to]
    BY DEF SendCalls
  <1>12. UNCHANGED <<sendLock, recvLock, connLock>> /\ pc["snd"] = "out"
    BY DEF SendCalls
  <1>4. PlacesOK'
    BY <1>0, <1>11, <1>12 DEF PlacesOK, CallPcs, WorkerPcs, ClosePcs, ReleasePcs
  <1>5. ByesOK'
    BY <1>0, <1>1 DEF FlagsOK, AmountsOK, ByesOK, SendCalls
  <1>6. LocksHeld'
    BY <1>0, <1>11, <1>12 DEF PlacesOK, LocksHeld, InCall, Locked, CallPcs, ClosePcs, ReleasePcs
  <1>7. Tested'
    BY <1>0, <1>1 DEF AmountsOK, PlacesOK, ByesOK, Tested, InCall, SendCalls
  <1>8. SignalComes'
    BY <1>0, <1>1
       DEF AmountsOK, PlacesOK, SignalComes, CallPcs, WorkerPcs, ClosePcs, ReleasePcs, SendCalls
  <1>9. LingerSaw'
    BY <1>0, <1>1 DEF AmountsOK, PlacesOK, ByesOK, LingerSaw, SendCalls
  <1>10. Shut'
    BY <1>0, <1>1 DEF PlacesOK, ByesOK, LocksHeld, Shut, InCall, Locked, ReleasePcs, SendCalls
  <1> QED
    BY <1>2, <1>3, <1>4, <1>5, <1>6, <1>7, <1>8, <1>9, <1>10 DEF IInv, Types

LEMMA SendLocksInv == ASSUME IInv, SendLocks PROVE IInv'
  <1> USE Sizes, Names DEF Threads, flags, amounts, locks, Goes, Returns, Throws, IsFree, BlockLockIsFree
  <1>0. FlagsOK /\ AmountsOK /\ PlacesOK /\ ByesOK /\ LocksHeld /\ Tested /\ SignalComes /\ LingerSaw /\ Shut
    BY DEF IInv, Types
  <1>1. Down' = Down /\ NothingLeft' = NothingLeft
    BY <1>0 DEF SendLocks, Down, NothingLeft
  <1>2. FlagsOK'
    BY <1>0, <1>1 DEF FlagsOK, SendLocks
  <1>3. AmountsOK'
    BY <1>0, <1>1 DEF AmountsOK, Tested, InCall, SendLocks
  <1>4. PlacesOK'
    BY <1>0, <1>1 DEF PlacesOK, CallPcs, WorkerPcs, ClosePcs, ReleasePcs, SendLocks
  <1>5. ByesOK'
    BY <1>0, <1>1 DEF FlagsOK, AmountsOK, ByesOK, SendLocks
  <1>6. LocksHeld'
    BY <1>0, <1>1
       DEF PlacesOK, LocksHeld, InCall, Locked, CallPcs, WorkerPcs, ClosePcs, ReleasePcs, SendLocks
  <1>7. Tested'
    BY <1>0, <1>1 DEF AmountsOK, PlacesOK, ByesOK, Tested, InCall, SendLocks
  <1>8. SignalComes'
    BY <1>0, <1>1
       DEF AmountsOK, PlacesOK, SignalComes, CallPcs, WorkerPcs, ClosePcs, ReleasePcs, SendLocks
  <1>9. LingerSaw'
    BY <1>0, <1>1 DEF AmountsOK, PlacesOK, ByesOK, LingerSaw, SendLocks
  <1>10. Shut'
    BY <1>0, <1>1 DEF PlacesOK, ByesOK, LocksHeld, Shut, InCall, Locked, ReleasePcs, SendLocks
  <1> QED
    BY <1>2, <1>3, <1>4, <1>5, <1>6, <1>7, <1>8, <1>9, <1>10 DEF IInv, Types

LEMMA SendLooksInv == ASSUME IInv, SendLooks PROVE IInv'
  <1> USE Sizes, Names DEF Threads, flags, amounts, locks, Goes, Returns, Throws, IsFree, BlockLockIsFree
  <1>0. FlagsOK /\ AmountsOK /\ PlacesOK /\ ByesOK /\ LocksHeld /\ Tested /\ SignalComes /\ LingerSaw /\ Shut
    BY DEF IInv, Types
  <1>1. Down' = Down /\ NothingLeft' = NothingLeft
    BY <1>0 DEF SendLooks, Down, NothingLeft
  <1>2. FlagsOK'
    BY <1>0, <1>1 DEF FlagsOK, SendLooks
  <1>3. AmountsOK'
    BY <1>0, <1>1 DEF AmountsOK, Tested, InCall, SendLooks
  <1>4. PlacesOK'
    BY <1>0, <1>1 DEF PlacesOK, CallPcs, WorkerPcs, ClosePcs, ReleasePcs, SendLooks
  <1>5. ByesOK'
    BY <1>0, <1>1 DEF FlagsOK, AmountsOK, ByesOK, SendLooks
  <1>6. LocksHeld'
    BY <1>0, <1>1
       DEF PlacesOK, LocksHeld, InCall, Locked, CallPcs, WorkerPcs, ClosePcs, ReleasePcs, SendLooks
  <1>7. Tested'
    BY <1>0, <1>1 DEF AmountsOK, PlacesOK, ByesOK, Tested, InCall, SendLooks
  <1>8. SignalComes'
    BY <1>0, <1>1
       DEF AmountsOK, PlacesOK, SignalComes, CallPcs, WorkerPcs, ClosePcs, ReleasePcs, SendLooks
  <1>9. LingerSaw'
    BY <1>0, <1>1 DEF AmountsOK, PlacesOK, ByesOK, LingerSaw, SendLooks
  <1>10. Shut'
    BY <1>0, <1>1 DEF PlacesOK, ByesOK, LocksHeld, Tested, Shut, InCall, Locked, ReleasePcs, SendLooks
  <1> QED
    BY <1>2, <1>3, <1>4, <1>5, <1>6, <1>7, <1>8, <1>9, <1>10 DEF IInv, Types

LEMMA SendTestsInv == ASSUME IInv, SendTests PROVE IInv'
  <1> USE Sizes, Names DEF Threads, flags, amounts, locks, Goes, Returns, Throws, IsFree, BlockLockIsFree
  <1>0. FlagsOK /\ AmountsOK /\ PlacesOK /\ ByesOK /\ LocksHeld /\ Tested /\ SignalComes /\ LingerSaw /\ Shut
    BY DEF IInv, Types
  <1>1. Down' = Down /\ NothingLeft' = NothingLeft
    BY <1>0 DEF SendTests, Down, NothingLeft
  <1>2. pc' = [pc EXCEPT !["snd"] = IF ~Down /\ SndBufSize <= used THEN "locked" ELSE "woken"]
    BY <1>0 DEF SendTests
  <1>3. ~Down /\ SndBufSize <= used => ~(used < SndBufSize \/ Down)
    BY <1>0 DEF AmountsOK
  <1>4. FlagsOK'
    BY <1>0, <1>1, <1>2, <1>3 DEF FlagsOK, SendTests
  <1>5. AmountsOK'
    BY <1>0, <1>1, <1>2, <1>3 DEF AmountsOK, Tested, InCall, SendTests
  <1>6. PlacesOK'
    <2>1. \E to \in {"locked", "woken"} : pc' = [pc EXCEPT !["snd"] = to]
      BY DEF SendTests
    <2>2. UNCHANGED <<sendLock, recvLock, connLock>>
      BY DEF SendTests
    <2> QED
      BY <1>0, <2>1, <2>2 DEF PlacesOK, CallPcs, WorkerPcs, ClosePcs, ReleasePcs
  <1>7. ByesOK'
    BY <1>0, <1>1, <1>2, <1>3 DEF FlagsOK, AmountsOK, ByesOK, SendTests
  <1>8. LocksHeld'
    BY <1>0, <1>1, <1>2, <1>3
       DEF PlacesOK, LocksHeld, InCall, Locked, CallPcs, WorkerPcs, ClosePcs, ReleasePcs, SendTests
  <1>9. Tested'
    BY <1>0, <1>1, <1>2, <1>3 DEF AmountsOK, PlacesOK, ByesOK, Tested, InCall, SendTests
  <1>10. SignalComes'
    BY <1>0, <1>1, <1>2, <1>3
       DEF AmountsOK, PlacesOK, SignalComes, CallPcs, WorkerPcs, ClosePcs, ReleasePcs, SendTests
  <1>11. LingerSaw'
    BY <1>0, <1>1, <1>2, <1>3 DEF AmountsOK, PlacesOK, ByesOK, LingerSaw, SendTests
  <1>12. Shut'
    BY <1>0, <1>1, <1>2, <1>3 DEF PlacesOK, ByesOK, LocksHeld, Shut, InCall, Locked, ReleasePcs, SendTests
  <1> QED
    BY <1>4, <1>5, <1>6, <1>7, <1>8, <1>9, <1>10, <1>11, <1>12 DEF IInv, Types

LEMMA SendWaitsInv == ASSUME IInv, Waits("snd") PROVE IInv'
  <1> USE Sizes, Names DEF Threads, flags, amounts, locks, Goes, Returns, Throws, IsFree, BlockLockIsFree
  <1>0. FlagsOK /\ AmountsOK /\ PlacesOK /\ ByesOK /\ LocksHeld /\ Tested /\ SignalComes /\ LingerSaw /\ Shut
    BY DEF IInv, Types
  <1>1. Down' = Down /\ NothingLeft' = NothingLeft
    BY <1>0 DEF Waits, Down, NothingLeft
  <1>2. FlagsOK'
    BY <1>0, <1>1 DEF FlagsOK, Waits
  <1>3. AmountsOK'
    BY <1>0, <1>1 DEF AmountsOK, Tested, InCall, Waits
  <1>4. PlacesOK'
    BY <1>0, <1>1 DEF PlacesOK, CallPcs, WorkerPcs, ClosePcs, ReleasePcs, Waits
  <1>5. ByesOK'
    BY <1>0, <1>1 DEF FlagsOK, AmountsOK, ByesOK, Waits
  <1>6. LocksHeld'
    BY <1>0, <1>1
       DEF PlacesOK, LocksHeld, InCall, Locked, CallPcs, WorkerPcs, ClosePcs, ReleasePcs, Waits
  <1>7. Tested'
    BY <1>0, <1>1 DEF AmountsOK, PlacesOK, Tested, InCall, Waits
  <1>8. SignalComes'
    BY <1>0, <1>1
       DEF AmountsOK, PlacesOK, SignalComes, CallPcs, WorkerPcs, ClosePcs, ReleasePcs, Waits
  <1>9. LingerSaw'
    BY <1>0, <1>1 DEF AmountsOK, PlacesOK, ByesOK, LingerSaw, Waits
  <1>10. Shut'
    BY <1>0, <1>1 DEF PlacesOK, LocksHeld, Shut, InCall, Locked, ReleasePcs, Waits
  <1> QED
    BY <1>2, <1>3, <1>4, <1>5, <1>6, <1>7, <1>8, <1>9, <1>10 DEF IInv, Types

LEMMA SendThrowsInv == ASSUME IInv, SendThrows PROVE IInv'
  <1> USE Sizes, Names DEF Threads, flags, amounts, locks, Goes, Returns, Throws, IsFree, BlockLockIsFree
  <1>0. FlagsOK /\ AmountsOK /\ PlacesOK /\ ByesOK /\ LocksHeld /\ Tested /\ SignalComes /\ LingerSaw /\ Shut
    BY DEF IInv, Types
  <1>1. Down' = Down /\ NothingLeft' = NothingLeft
    BY <1>0 DEF SendThrows, Down, NothingLeft
  <1>2. FlagsOK'
    BY <1>0, <1>1 DEF FlagsOK, SendThrows
  <1>3. AmountsOK'
    BY <1>0, <1>1 DEF AmountsOK, Tested, InCall, SendThrows
  <1>4. PlacesOK'
    BY <1>0, <1>1 DEF PlacesOK, CallPcs, WorkerPcs, ClosePcs, ReleasePcs, SendThrows
  <1>5. ByesOK'
    BY <1>0, <1>1 DEF FlagsOK, AmountsOK, ByesOK, SendThrows
  <1>6. LocksHeld'
    BY <1>0, <1>1
       DEF PlacesOK, LocksHeld, InCall, Locked, CallPcs, WorkerPcs, ClosePcs, ReleasePcs, SendThrows
  <1>7. Tested'
    BY <1>0, <1>1 DEF AmountsOK, PlacesOK, ByesOK, Tested, InCall, SendThrows
  <1>8. SignalComes'
    BY <1>0, <1>1
       DEF AmountsOK, PlacesOK, SignalComes, CallPcs, WorkerPcs, ClosePcs, ReleasePcs, SendThrows
  <1>9. LingerSaw'
    BY <1>0, <1>1 DEF AmountsOK, PlacesOK, ByesOK, LingerSaw, SendThrows
  <1>10. Shut'
    BY <1>0, <1>1 DEF PlacesOK, ByesOK, LocksHeld, Shut, InCall, Locked, ReleasePcs, SendThrows
  <1> QED
    BY <1>2, <1>3, <1>4, <1>5, <1>6, <1>7, <1>8, <1>9, <1>10 DEF IInv, Types

LEMMA SendPassesInv == ASSUME IInv, SendPasses PROVE IInv'
  <1> USE Sizes, Names DEF Threads, flags, amounts, locks, Goes, Returns, Throws, IsFree, BlockLockIsFree
  <1>0. FlagsOK /\ AmountsOK /\ PlacesOK /\ ByesOK /\ LocksHeld /\ Tested /\ SignalComes /\ LingerSaw /\ Shut
    BY DEF IInv, Types
  <1>1. Down' = Down /\ NothingLeft' = NothingLeft
    BY <1>0 DEF SendPasses, Down, NothingLeft
  <1>2. FlagsOK'
    BY <1>0, <1>1 DEF FlagsOK, SendPasses
  <1>3. AmountsOK'
    BY <1>0, <1>1 DEF AmountsOK, Tested, InCall, SendPasses
  <1>4. PlacesOK'
    BY <1>0, <1>1 DEF PlacesOK, CallPcs, WorkerPcs, ClosePcs, ReleasePcs, SendPasses
  <1>5. ByesOK'
    BY <1>0, <1>1 DEF FlagsOK, AmountsOK, ByesOK, SendPasses
  <1>6. LocksHeld'
    BY <1>0, <1>1
       DEF PlacesOK, LocksHeld, InCall, Locked, CallPcs, WorkerPcs, ClosePcs, ReleasePcs, SendPasses
  <1>7. Tested'
    BY <1>0, <1>1 DEF AmountsOK, PlacesOK, Tested, InCall, SendPasses
  <1>8. SignalComes'
    BY <1>0, <1>1
       DEF AmountsOK, PlacesOK, SignalComes, CallPcs, WorkerPcs, ClosePcs, ReleasePcs, SendPasses
  <1>9. LingerSaw'
    BY <1>0, <1>1 DEF AmountsOK, PlacesOK, ByesOK, LingerSaw, SendPasses
  <1>10. Shut'
    BY <1>0, <1>1 DEF PlacesOK, LocksHeld, Shut, Down, InCall, Locked, ReleasePcs, SendPasses
  <1> QED
    BY <1>2, <1>3, <1>4, <1>5, <1>6, <1>7, <1>8, <1>9, <1>10 DEF IInv, Types

LEMMA SendAddsInv == ASSUME IInv, SendAdds PROVE IInv'
  <1> USE Sizes, Names DEF Threads, flags, amounts, locks, Goes, Returns, Throws, IsFree, BlockLockIsFree
  <1>0. FlagsOK /\ AmountsOK /\ PlacesOK /\ ByesOK /\ LocksHeld /\ Tested /\ SignalComes /\ LingerSaw /\ Shut
    BY DEF IInv, Types
  <1>1. Down' = Down /\ NothingLeft' = NothingLeft
    BY <1>0 DEF SendAdds, Down, NothingLeft
  <1>2. LET last == unsent = 1 \/ call["snd"] = "send"
        IN  /\ pc' = [pc EXCEPT !["snd"] = IF last THEN "out" ELSE "test"]
            /\ sendLock' = IF last THEN None ELSE sendLock
            /\ call' = IF last THEN [call EXCEPT !["snd"] = None] ELSE call
    BY <1>0 DEF SendAdds
  <1>3. FlagsOK'
    BY <1>0, <1>1, <1>2 DEF FlagsOK, SendAdds
  <1>4. AmountsOK'
    BY <1>0, <1>1, <1>2 DEF AmountsOK, Tested, InCall, SendAdds
  <1>5. PlacesOK'
    BY <1>0, <1>1, <1>2 DEF PlacesOK, CallPcs, WorkerPcs, ClosePcs, ReleasePcs, SendAdds
  <1>6. ByesOK'
    BY <1>0, <1>1, <1>2 DEF FlagsOK, AmountsOK, ByesOK, SendAdds
  <1>7. LocksHeld'
    BY <1>0, <1>1, <1>2
       DEF PlacesOK, LocksHeld, InCall, Locked, CallPcs, WorkerPcs, ClosePcs, ReleasePcs, SendAdds
  <1>8. Tested'
    BY <1>0, <1>1, <1>2 DEF AmountsOK, PlacesOK, ByesOK, Tested, InCall, SendAdds
  <1>9. SignalComes'
    BY <1>0, <1>1, <1>2
       DEF AmountsOK, PlacesOK, SignalComes, CallPcs, WorkerPcs, ClosePcs, ReleasePcs, SendAdds
  <1>10. LingerSaw'
    BY <1>0, <1>1, <1>2 DEF AmountsOK, PlacesOK, ByesOK, LingerSaw, SendAdds
  <1>11. Shut'
    BY <1>0, <1>1, <1>2 DEF PlacesOK, ByesOK, LocksHeld, Shut, InCall, Locked, ReleasePcs, SendAdds
  <1> QED
    BY <1>3, <1>4, <1>5, <1>6, <1>7, <1>8, <1>9, <1>10, <1>11 DEF IInv, Types

-----------------------------------------------------------------------------
(* The receiving call                                                      *)
(***************************************************************************)
LEMMA RecvCallsInv == ASSUME IInv, RecvCalls PROVE IInv'
  <1> USE Sizes, Names DEF Threads, flags, amounts, locks, Goes, Returns, Throws, IsFree, BlockLockIsFree
  <1>0. FlagsOK /\ AmountsOK /\ PlacesOK /\ ByesOK /\ LocksHeld /\ Tested /\ SignalComes /\ LingerSaw /\ Shut
    BY DEF IInv, Types
  <1>1. Down' = Down /\ NothingLeft' = NothingLeft
    BY <1>0 DEF RecvCalls, Down, NothingLeft
  <1>2. FlagsOK'
    BY <1>0, <1>1 DEF FlagsOK, RecvCalls
  <1>3. AmountsOK'
    BY <1>0, <1>1 DEF AmountsOK, Tested, InCall, RecvCalls
  <1>11. PICK to \in {"ended", "lock"} : pc' = [pc EXCEPT !["rcv"] = to]
    BY DEF RecvCalls
  <1>12. UNCHANGED <<sendLock, recvLock, connLock>> /\ pc["rcv"] = "out"
    BY DEF RecvCalls
  <1>4. PlacesOK'
    BY <1>0, <1>11, <1>12 DEF PlacesOK, CallPcs, WorkerPcs, ClosePcs, ReleasePcs
  <1>5. ByesOK'
    BY <1>0, <1>1 DEF FlagsOK, AmountsOK, ByesOK, RecvCalls
  <1>6. LocksHeld'
    BY <1>0, <1>11, <1>12 DEF PlacesOK, LocksHeld, InCall, Locked, CallPcs, ClosePcs, ReleasePcs
  <1>7. Tested'
    BY <1>0, <1>1 DEF AmountsOK, PlacesOK, ByesOK, Tested, InCall, RecvCalls
  <1>8. SignalComes'
    BY <1>0, <1>1
       DEF AmountsOK, PlacesOK, SignalComes, CallPcs, WorkerPcs, ClosePcs, ReleasePcs, RecvCalls
  <1>9. LingerSaw'
    BY <1>0, <1>1 DEF AmountsOK, PlacesOK, ByesOK, LingerSaw, RecvCalls
  <1>10. Shut'
    BY <1>0, <1>1 DEF PlacesOK, ByesOK, LocksHeld, Shut, InCall, Locked, ReleasePcs, RecvCalls
  <1> QED
    BY <1>2, <1>3, <1>4, <1>5, <1>6, <1>7, <1>8, <1>9, <1>10 DEF IInv, Types

LEMMA RecvLocksInv == ASSUME IInv, RecvLocks PROVE IInv'
  <1> USE Sizes, Names DEF Threads, flags, amounts, locks, Goes, Returns, Throws, IsFree, BlockLockIsFree
  <1>0. FlagsOK /\ AmountsOK /\ PlacesOK /\ ByesOK /\ LocksHeld /\ Tested /\ SignalComes /\ LingerSaw /\ Shut
    BY DEF IInv, Types
  <1>1. Down' = Down /\ NothingLeft' = NothingLeft
    BY <1>0 DEF RecvLocks, Down, NothingLeft
  <1>2. FlagsOK'
    BY <1>0, <1>1 DEF FlagsOK, RecvLocks
  <1>3. AmountsOK'
    BY <1>0, <1>1 DEF AmountsOK, Tested, InCall, RecvLocks
  <1>4. PlacesOK'
    BY <1>0, <1>1 DEF PlacesOK, CallPcs, WorkerPcs, ClosePcs, ReleasePcs, RecvLocks
  <1>5. ByesOK'
    BY <1>0, <1>1 DEF FlagsOK, AmountsOK, ByesOK, RecvLocks
  <1>6. LocksHeld'
    BY <1>0, <1>1
       DEF PlacesOK, LocksHeld, InCall, Locked, CallPcs, WorkerPcs, ClosePcs, ReleasePcs, RecvLocks
  <1>7. Tested'
    BY <1>0, <1>1 DEF AmountsOK, PlacesOK, Tested, InCall, RecvLocks
  <1>8. SignalComes'
    BY <1>0, <1>1
       DEF AmountsOK, PlacesOK, SignalComes, CallPcs, WorkerPcs, ClosePcs, ReleasePcs, RecvLocks
  <1>9. LingerSaw'
    BY <1>0, <1>1 DEF AmountsOK, PlacesOK, ByesOK, LingerSaw, RecvLocks
  <1>10. Shut'
    BY <1>0, <1>1 DEF PlacesOK, LocksHeld, Shut, InCall, Locked, ReleasePcs, RecvLocks
  <1> QED
    BY <1>2, <1>3, <1>4, <1>5, <1>6, <1>7, <1>8, <1>9, <1>10 DEF IInv, Types

LEMMA RecvTestsInv == ASSUME IInv, RecvTests PROVE IInv'
  <1> USE Sizes, Names DEF Threads, flags, amounts, locks, Goes, Returns, Throws, IsFree, BlockLockIsFree
  <1>0. FlagsOK /\ AmountsOK /\ PlacesOK /\ ByesOK /\ LocksHeld /\ Tested /\ SignalComes /\ LingerSaw /\ Shut
    BY DEF IInv, Types
  <1>1. Down' = Down /\ NothingLeft' = NothingLeft
    BY <1>0 DEF RecvTests, Down, NothingLeft
  <1>2. pc' = [pc EXCEPT !["rcv"] = IF ~Down /\ data = 0 THEN "locked" ELSE "woken"]
    BY <1>0 DEF RecvTests
  <1>3. data \in Nat
    BY <1>0 DEF AmountsOK
  <1>4. FlagsOK'
    BY <1>0, <1>1, <1>2, <1>3 DEF FlagsOK, RecvTests
  <1>5. AmountsOK'
    BY <1>0, <1>1, <1>2, <1>3 DEF AmountsOK, Tested, InCall, RecvTests
  <1>6. PlacesOK'
    <2>1. \E to \in {"locked", "woken"} : pc' = [pc EXCEPT !["rcv"] = to]
      BY DEF RecvTests
    <2>2. UNCHANGED <<sendLock, recvLock, connLock>>
      BY DEF RecvTests
    <2> QED
      BY <1>0, <2>1, <2>2 DEF PlacesOK, CallPcs, WorkerPcs, ClosePcs, ReleasePcs
  <1>7. ByesOK'
    BY <1>0, <1>1, <1>2, <1>3 DEF FlagsOK, AmountsOK, ByesOK, RecvTests
  <1>8. LocksHeld'
    BY <1>0, <1>1, <1>2, <1>3
       DEF PlacesOK, LocksHeld, InCall, Locked, CallPcs, WorkerPcs, ClosePcs, ReleasePcs, RecvTests
  <1>9. Tested'
    BY <1>0, <1>1, <1>2, <1>3 DEF AmountsOK, PlacesOK, Tested, InCall, RecvTests
  <1>10. SignalComes'
    <2>1. pc["rcv"] = "test" /\ UNCHANGED <<flags, amounts, locks, bye>>
      BY DEF RecvTests
    <2>2. CASE ~Down /\ data = 0
      <3>1. pc' = [pc EXCEPT !["rcv"] = "locked"]
        BY <2>2 DEF RecvTests
      <3>2. ~(data > 0 \/ Down)'
        BY <1>1, <2>1, <2>2
      <3>3. \A t \in Threads : pc[t] \in {"release", "released snd",
      "release rcv"} => pc'[t] = pc[t]
        BY <1>0, <2>1, <3>1 DEF PlacesOK
      <3>4. pc'["snd"] = pc["snd"] /\ pc'["wrk"] = pc["wrk"]
        BY <1>0, <3>1 DEF PlacesOK
      <3> QED
        BY <1>0, <1>1, <2>1, <3>2, <3>3, <3>4 DEF SignalComes
    <2>3. CASE ~(~Down /\ data = 0)
      BY <1>0, <1>1, <1>2, <1>3, <2>3
         DEF AmountsOK, SignalComes, PlacesOK, CallPcs, WorkerPcs, ClosePcs, ReleasePcs, RecvTests
    <2> QED
      BY <2>2, <2>3
  <1>11. LingerSaw'
    BY <1>0, <1>1, <1>2, <1>3 DEF AmountsOK, PlacesOK, ByesOK, LingerSaw, RecvTests
  <1>12. Shut'
    BY <1>0, <1>1, <1>2, <1>3 DEF PlacesOK, LocksHeld, Shut, InCall, Locked, ReleasePcs, RecvTests
  <1> QED
    BY <1>4, <1>5, <1>6, <1>7, <1>8, <1>9, <1>10, <1>11, <1>12 DEF IInv, Types

LEMMA RecvWaitsInv == ASSUME IInv, Waits("rcv") PROVE IInv'
  <1> USE Sizes, Names DEF Threads, flags, amounts, locks, Goes, Returns, Throws, IsFree, BlockLockIsFree
  <1>0. FlagsOK /\ AmountsOK /\ PlacesOK /\ ByesOK /\ LocksHeld /\ Tested /\ SignalComes /\ LingerSaw /\ Shut
    BY DEF IInv, Types
  <1>1. Down' = Down /\ NothingLeft' = NothingLeft
    BY <1>0 DEF Waits, Down, NothingLeft
  <1>2. FlagsOK'
    BY <1>0, <1>1 DEF FlagsOK, Waits
  <1>3. AmountsOK'
    BY <1>0, <1>1 DEF AmountsOK, Tested, InCall, Waits
  <1>4. PlacesOK'
    BY <1>0, <1>1 DEF PlacesOK, CallPcs, WorkerPcs, ClosePcs, ReleasePcs, Waits
  <1>5. ByesOK'
    BY <1>0, <1>1 DEF FlagsOK, AmountsOK, ByesOK, Waits
  <1>6. LocksHeld'
    BY <1>0, <1>1
       DEF PlacesOK, LocksHeld, InCall, Locked, CallPcs, WorkerPcs, ClosePcs, ReleasePcs, Waits
  <1>7. Tested'
    BY <1>0, <1>1 DEF AmountsOK, PlacesOK, Tested, InCall, Waits
  <1>8. SignalComes'
    BY <1>0, <1>1
       DEF AmountsOK, PlacesOK, SignalComes, CallPcs, WorkerPcs, ClosePcs, ReleasePcs, Waits
  <1>9. LingerSaw'
    BY <1>0, <1>1 DEF AmountsOK, PlacesOK, ByesOK, LingerSaw, Waits
  <1>10. Shut'
    BY <1>0, <1>1 DEF PlacesOK, LocksHeld, Shut, InCall, Locked, ReleasePcs, Waits
  <1> QED
    BY <1>2, <1>3, <1>4, <1>5, <1>6, <1>7, <1>8, <1>9, <1>10 DEF IInv, Types

LEMMA RecvThrowsInv == ASSUME IInv, RecvThrows PROVE IInv'
  <1> USE Sizes, Names DEF Threads, flags, amounts, locks, Goes, Returns, Throws, IsFree, BlockLockIsFree
  <1>0. FlagsOK /\ AmountsOK /\ PlacesOK /\ ByesOK /\ LocksHeld /\ Tested /\ SignalComes /\ LingerSaw /\ Shut
    BY DEF IInv, Types
  <1>1. Down' = Down /\ NothingLeft' = NothingLeft
    BY <1>0 DEF RecvThrows, Down, NothingLeft
  <1>2. FlagsOK'
    BY <1>0, <1>1 DEF FlagsOK, RecvThrows
  <1>3. AmountsOK'
    BY <1>0, <1>1 DEF AmountsOK, Tested, InCall, RecvThrows
  <1>4. PlacesOK'
    BY <1>0, <1>1 DEF PlacesOK, CallPcs, WorkerPcs, ClosePcs, ReleasePcs, RecvThrows
  <1>5. ByesOK'
    BY <1>0, <1>1 DEF FlagsOK, AmountsOK, ByesOK, RecvThrows
  <1>6. LocksHeld'
    BY <1>0, <1>1
       DEF PlacesOK, LocksHeld, InCall, Locked, CallPcs, WorkerPcs, ClosePcs, ReleasePcs, RecvThrows
  <1>7. Tested'
    BY <1>0, <1>1 DEF AmountsOK, PlacesOK, ByesOK, Tested, InCall, RecvThrows
  <1>8. SignalComes'
    BY <1>0, <1>1
       DEF AmountsOK, PlacesOK, SignalComes, CallPcs, WorkerPcs, ClosePcs, ReleasePcs, RecvThrows
  <1>9. LingerSaw'
    BY <1>0, <1>1 DEF AmountsOK, PlacesOK, ByesOK, LingerSaw, RecvThrows
  <1>10. Shut'
    BY <1>0, <1>1 DEF PlacesOK, ByesOK, LocksHeld, Shut, InCall, Locked, ReleasePcs, RecvThrows
  <1> QED
    BY <1>2, <1>3, <1>4, <1>5, <1>6, <1>7, <1>8, <1>9, <1>10 DEF IInv, Types

LEMMA RecvPassesInv == ASSUME IInv, RecvPasses PROVE IInv'
  <1> USE Sizes, Names DEF Threads, flags, amounts, locks, Goes, Returns, Throws, IsFree, BlockLockIsFree
  <1>0. FlagsOK /\ AmountsOK /\ PlacesOK /\ ByesOK /\ LocksHeld /\ Tested /\ SignalComes /\ LingerSaw /\ Shut
    BY DEF IInv, Types
  <1>1. Down' = Down /\ NothingLeft' = NothingLeft
    BY <1>0 DEF RecvPasses, Down, NothingLeft
  <1>2. data > 0
    BY <1>0 DEF RecvPasses, Down, NothingLeft, AmountsOK, Tested
  <1>3. FlagsOK'
    BY <1>0, <1>1, <1>2 DEF FlagsOK, RecvPasses
  <1>4. AmountsOK'
    BY <1>0, <1>1, <1>2 DEF AmountsOK, Tested, InCall, RecvPasses
  <1>5. PlacesOK'
    BY <1>0, <1>1, <1>2 DEF PlacesOK, CallPcs, WorkerPcs, ClosePcs, ReleasePcs, RecvPasses
  <1>6. ByesOK'
    BY <1>0, <1>1, <1>2 DEF FlagsOK, AmountsOK, ByesOK, RecvPasses
  <1>7. LocksHeld'
    BY <1>0, <1>1, <1>2
       DEF PlacesOK, LocksHeld, InCall, Locked, CallPcs, WorkerPcs, ClosePcs, ReleasePcs, RecvPasses
  <1>8. Tested'
    BY <1>0, <1>1, <1>2 DEF AmountsOK, PlacesOK, Tested, InCall, RecvPasses
  <1>9. SignalComes'
    BY <1>0, <1>1, <1>2
       DEF AmountsOK, PlacesOK, SignalComes, CallPcs, WorkerPcs, ClosePcs, ReleasePcs, RecvPasses
  <1>10. LingerSaw'
    BY <1>0, <1>1, <1>2 DEF AmountsOK, PlacesOK, ByesOK, LingerSaw, RecvPasses
  <1>11. Shut'
    BY <1>0, <1>1, <1>2
       DEF PlacesOK, LocksHeld, Shut, NothingLeft, InCall, Locked, ReleasePcs, RecvPasses
  <1> QED
    BY <1>3, <1>4, <1>5, <1>6, <1>7, <1>8, <1>9, <1>10, <1>11 DEF IInv, Types

LEMMA RecvReadsInv == ASSUME IInv, RecvReads PROVE IInv'
  <1> USE Sizes, Names DEF Threads, flags, amounts, locks, Goes, Returns, Throws, IsFree, BlockLockIsFree
  <1>0. FlagsOK /\ AmountsOK /\ PlacesOK /\ ByesOK /\ LocksHeld /\ Tested /\ SignalComes /\ LingerSaw /\ Shut
    BY DEF IInv, Types
  <1>1. Down' = Down
    BY <1>0 DEF RecvReads, Down, NothingLeft
  <1>2. LET last == unread = 1 \/ call["rcv"] = "recv"
        IN  /\ pc' = [pc EXCEPT !["rcv"] = IF last THEN "out" ELSE "test"]
            /\ recvLock' = IF last THEN None ELSE recvLock
            /\ call' = IF last THEN [call EXCEPT !["rcv"] = None] ELSE call
    BY <1>0 DEF RecvReads
  <1>3. FlagsOK'
    BY <1>0, <1>1, <1>2 DEF FlagsOK, RecvReads
  <1>4. AmountsOK'
    BY <1>0, <1>1, <1>2 DEF AmountsOK, Tested, InCall, RecvReads
  <1>5. PlacesOK'
    BY <1>0, <1>1, <1>2 DEF PlacesOK, CallPcs, WorkerPcs, ClosePcs, ReleasePcs, RecvReads
  <1>6. ByesOK'
    BY <1>0, <1>1, <1>2 DEF FlagsOK, AmountsOK, ByesOK, RecvReads
  <1>7. LocksHeld'
    BY <1>0, <1>1, <1>2
       DEF PlacesOK, LocksHeld, InCall, Locked, CallPcs, WorkerPcs, ClosePcs, ReleasePcs, RecvReads
  <1>8. Tested'
    BY <1>0, <1>1, <1>2 DEF AmountsOK, PlacesOK, ByesOK, Tested, InCall, RecvReads
  <1>9. SignalComes'
    BY <1>0, <1>1, <1>2
       DEF AmountsOK, PlacesOK, SignalComes, CallPcs, WorkerPcs, ClosePcs, ReleasePcs, RecvReads
  <1>10. LingerSaw'
    BY <1>0, <1>1, <1>2 DEF AmountsOK, PlacesOK, ByesOK, LingerSaw, RecvReads
  <1>11. Shut'
    BY <1>0, <1>1, <1>2 DEF PlacesOK, ByesOK, LocksHeld, Shut, InCall, Locked, ReleasePcs, RecvReads
  <1> QED
    BY <1>3, <1>4, <1>5, <1>6, <1>7, <1>8, <1>9, <1>10, <1>11 DEF IInv, Types

-----------------------------------------------------------------------------
(* The worker                                                              *)
(***************************************************************************)
LEMMA TakesInv == ASSUME IInv, NEW w \in {"ack", "data", "shutdown", "timer"},
                         Takes(w), w = "data" => coming > 0
                  PROVE  IInv'
  <1> USE Sizes, Names DEF Threads, flags, amounts, locks, Goes, Returns, Throws, IsFree, BlockLockIsFree
  <1>0. FlagsOK /\ AmountsOK /\ PlacesOK /\ ByesOK /\ LocksHeld /\ Tested /\ SignalComes /\ LingerSaw /\ Shut
    BY DEF IInv, Types
  <1>1. Down' = Down /\ NothingLeft' = NothingLeft
    BY <1>0 DEF Takes, Down, NothingLeft
  <1>2. FlagsOK'
    BY <1>0, <1>1 DEF FlagsOK, Takes
  <1>3. AmountsOK'
    BY <1>0, <1>1 DEF AmountsOK, Tested, InCall, Takes
  <1>4. PlacesOK'
    BY <1>0, <1>1 DEF PlacesOK, CallPcs, WorkerPcs, ClosePcs, ReleasePcs, Takes
  <1>5. ByesOK'
    BY <1>0, <1>1 DEF FlagsOK, AmountsOK, ByesOK, Takes
  <1>6. LocksHeld'
    BY <1>0, <1>1
       DEF PlacesOK, LocksHeld, InCall, Locked, CallPcs, WorkerPcs, ClosePcs, ReleasePcs, Takes
  <1>7. Tested'
    BY <1>0, <1>1 DEF AmountsOK, PlacesOK, Tested, InCall, Takes
  <1>8. SignalComes'
    BY <1>0, <1>1
       DEF AmountsOK, PlacesOK, SignalComes, CallPcs, WorkerPcs, ClosePcs, ReleasePcs, Takes
  <1>9. LingerSaw'
    BY <1>0, <1>1 DEF AmountsOK, PlacesOK, ByesOK, LingerSaw, Takes
  <1>10. Shut'
    BY <1>0, <1>1 DEF PlacesOK, LocksHeld, Shut, InCall, Locked, ReleasePcs, Takes
  <1> QED
    BY <1>2, <1>3, <1>4, <1>5, <1>6, <1>7, <1>8, <1>9, <1>10 DEF IInv, Types

LEMMA FreesBlocksInv == ASSUME IInv, FreesBlocks PROVE IInv'
  <1> USE Sizes, Names DEF Threads, flags, amounts, locks, Goes, Returns, Throws, IsFree, BlockLockIsFree
  <1>0. FlagsOK /\ AmountsOK /\ PlacesOK /\ ByesOK /\ LocksHeld /\ Tested /\ SignalComes /\ LingerSaw /\ Shut
    BY DEF IInv, Types
  <1>1. Down' = Down /\ NothingLeft' = NothingLeft
    BY <1>0 DEF FreesBlocks, Down, NothingLeft
  <1>2. PICK n \in 1..used : used' = used - n
    BY DEF FreesBlocks
  <1>3. used \in Nat /\ used' \in 0..SndBufSize /\ used' < used
    BY <1>0, <1>2 DEF AmountsOK
  <1>4. FlagsOK'
    BY <1>0, <1>1, <1>2, <1>3 DEF FlagsOK, FreesBlocks
  <1>5. AmountsOK'
    BY <1>0, <1>3 DEF AmountsOK, FreesBlocks
  <1>6. PlacesOK'
    BY <1>0, <1>1, <1>2, <1>3 DEF PlacesOK, CallPcs, WorkerPcs, ClosePcs, ReleasePcs, FreesBlocks
  <1>7. ByesOK'
    BY <1>0, <1>1, <1>2, <1>3 DEF FlagsOK, AmountsOK, ByesOK, FreesBlocks
  <1>8. LocksHeld'
    BY <1>0, <1>1, <1>2, <1>3
       DEF PlacesOK, LocksHeld, InCall, Locked, CallPcs, WorkerPcs, ClosePcs, ReleasePcs,
           FreesBlocks
  <1>9. Tested'
    <2>1. pc' = [pc EXCEPT !["wrk"] = "signal snd"] /\ UNCHANGED <<data, unsent, unread, coming, call>>
      BY DEF FreesBlocks
    <2>2. used < SndBufSize => used' < SndBufSize
      BY <1>3
    <2> QED
      BY <1>0, <1>1, <2>1, <2>2 DEF Tested, PlacesOK, InCall
  <1>10. SignalComes'
    BY <1>0, <1>1, <1>2, <1>3
       DEF AmountsOK, PlacesOK, SignalComes, CallPcs, WorkerPcs, ClosePcs, ReleasePcs, FreesBlocks
  <1>11. LingerSaw'
    <2> SUFFICES ASSUME NEW c \in Closers
                 PROVE  /\ pc'[c] = "out" => ~bye'[c].patient /\ ~bye'[c].said
                        /\ bye'[c].before <= Blocks - unsent'
                        /\ bye'[c].patient => Blocks - unsent' - used' >= bye'[c].before
      BY DEF LingerSaw
    <2>1. UNCHANGED <<unsent, bye>> /\ pc' = [pc EXCEPT !["wrk"] = "signal snd"]
      BY DEF FreesBlocks
    <2>2. bye[c].before \in Nat /\ unsent \in Nat
      BY <1>0 DEF ByesOK, AmountsOK
    <2>3. Blocks - unsent - used >= bye[c].before => Blocks - unsent - used' >= bye[c].before
      BY <1>3, <2>2
    <2> QED
      BY <1>0, <2>1, <2>3 DEF LingerSaw, PlacesOK
  <1>12. Shut'
    BY <1>0, <1>1, <1>2, <1>3
       DEF PlacesOK, LocksHeld, Shut, InCall, Locked, ReleasePcs, FreesBlocks
  <1> QED
    BY <1>4, <1>5, <1>6, <1>7, <1>8, <1>9, <1>10, <1>11, <1>12 DEF IInv, Types

LEMMA StoresDataInv == ASSUME IInv, StoresData PROVE IInv'
  <1> USE Sizes, Names DEF Threads, flags, amounts, locks, Goes, Returns, Throws, IsFree, BlockLockIsFree
  <1>0. FlagsOK /\ AmountsOK /\ PlacesOK /\ ByesOK /\ LocksHeld /\ Tested /\ SignalComes /\ LingerSaw /\ Shut
    BY DEF IInv, Types
  <1>1. Down' = Down
    BY <1>0 DEF StoresData, Down, NothingLeft
  <1>2. data \in Nat /\ coming \in Nat /\ coming > 0 /\ data + coming <= Coming
    <2>1. data \in Nat /\ coming \in Nat
      BY <1>0 DEF AmountsOK
    <2>2. coming > 0
      BY <1>0 DEF Tested, StoresData
    <2>3. data + coming <= Coming
      BY <1>0 DEF Tested
    <2> QED
      BY <2>1, <2>2, <2>3
  <1>3. data' = data + 1 /\ coming' = coming - 1
    BY <1>0 DEF StoresData
  <1>4. FlagsOK'
    BY <1>0, <1>1, <1>2, <1>3 DEF FlagsOK, StoresData
  <1>5. AmountsOK'
    <2>1. data' \in 0..Coming /\ coming' \in 0..Coming
      BY <1>2, <1>3
    <2> QED
      BY <1>0, <2>1 DEF AmountsOK, StoresData
  <1>6. PlacesOK'
    BY <1>0, <1>1, <1>2, <1>3 DEF PlacesOK, CallPcs, WorkerPcs, ClosePcs, ReleasePcs, StoresData
  <1>7. ByesOK'
    BY <1>0, <1>1, <1>2, <1>3 DEF FlagsOK, AmountsOK, ByesOK, StoresData
  <1>8. LocksHeld'
    BY <1>0, <1>1, <1>2, <1>3
       DEF PlacesOK, LocksHeld, InCall, Locked, CallPcs, WorkerPcs, ClosePcs, ReleasePcs, StoresData
  <1>9. Tested'
    <2>1. data' > 0 /\ data' + coming' = data + coming
      BY <1>2, <1>3
    <2>2. (data + coming <= Coming)'
      BY <1>2, <2>1
    <2>3. UNCHANGED <<used, unsent, unread, call>> /\ pc' = [pc EXCEPT !["wrk"] = "signal rcv"]
      BY DEF StoresData
    <2> QED
      BY <1>0, <1>1, <2>1, <2>2, <2>3 DEF Tested, InCall, PlacesOK
  <1>10. SignalComes'
    BY <1>0, <1>1, <1>2, <1>3
       DEF AmountsOK, PlacesOK, SignalComes, CallPcs, WorkerPcs, ClosePcs, ReleasePcs, StoresData
  <1>11. LingerSaw'
    BY <1>0, <1>1, <1>2, <1>3 DEF AmountsOK, PlacesOK, ByesOK, LingerSaw, StoresData
  <1>12. Shut'
    BY <1>0, <1>1, <1>2, <1>3
       DEF PlacesOK, LocksHeld, Shut, InCall, Locked, ReleasePcs, StoresData
  <1> QED
    BY <1>4, <1>5, <1>6, <1>7, <1>8, <1>9, <1>10, <1>11, <1>12 DEF IInv, Types

LEMMA SignalsSndInv == ASSUME IInv, Signals("snd") PROVE IInv'
  <1> USE Sizes, Names DEF Threads, flags, amounts, locks, Goes, Returns, Throws, IsFree, BlockLockIsFree
  <1>0. FlagsOK /\ AmountsOK /\ PlacesOK /\ ByesOK /\ LocksHeld /\ Tested /\ SignalComes /\ LingerSaw /\ Shut
    BY DEF IInv, Types
  <1>1. Down' = Down /\ NothingLeft' = NothingLeft
    BY <1>0 DEF Signals, SignalFor, Down, NothingLeft
  <1>2. pc' = [pc EXCEPT !["wrk"] = "idle", !["snd"] = IF pc["snd"] = "waiting" THEN "test" ELSE @]
    BY <1>0 DEF Signals, Signalled, PlacesOK
  <1>3. FlagsOK'
    BY <1>0, <1>1, <1>2 DEF FlagsOK, Signals, SignalFor
  <1>4. AmountsOK'
    BY <1>0, <1>1, <1>2 DEF AmountsOK, Tested, InCall, Signals, SignalFor
  <1>5. PlacesOK'
    <2>1. UNCHANGED <<sendLock, recvLock, connLock>>
      BY DEF Signals
    <2> QED
      BY <1>0, <1>2, <2>1 DEF PlacesOK, CallPcs, WorkerPcs, ClosePcs, ReleasePcs
  <1>6. ByesOK'
    BY <1>0, <1>1, <1>2 DEF FlagsOK, AmountsOK, ByesOK, Signals, SignalFor
  <1>7. LocksHeld'
    BY <1>0, <1>1, <1>2
       DEF PlacesOK, LocksHeld, InCall, Locked, CallPcs, WorkerPcs, ClosePcs, ReleasePcs,
           Signals, SignalFor
  <1>8. Tested'
    BY <1>0, <1>1, <1>2 DEF AmountsOK, PlacesOK, Tested, InCall, Signals, SignalFor
  <1>9. SignalComes'
    BY <1>0, <1>1, <1>2
       DEF AmountsOK, PlacesOK, SignalComes, CallPcs, WorkerPcs, ClosePcs, ReleasePcs, Signals,
           SignalFor
  <1>10. LingerSaw'
    BY <1>0, <1>1, <1>2 DEF AmountsOK, PlacesOK, ByesOK, LingerSaw, Signals, SignalFor
  <1>11. Shut'
    BY <1>0, <1>1, <1>2
       DEF PlacesOK, LocksHeld, Shut, InCall, Locked, ReleasePcs, Signals, SignalFor
  <1> QED
    BY <1>3, <1>4, <1>5, <1>6, <1>7, <1>8, <1>9, <1>10, <1>11 DEF IInv, Types

LEMMA SignalsRcvInv == ASSUME IInv, Signals("rcv") PROVE IInv'
  <1> USE Sizes, Names DEF Threads, flags, amounts, locks, Goes, Returns, Throws, IsFree, BlockLockIsFree
  <1>0. FlagsOK /\ AmountsOK /\ PlacesOK /\ ByesOK /\ LocksHeld /\ Tested /\ SignalComes /\ LingerSaw /\ Shut
    BY DEF IInv, Types
  <1>1. Down' = Down /\ NothingLeft' = NothingLeft
    BY <1>0 DEF Signals, SignalFor, Down, NothingLeft
  <1>2. pc' = [pc EXCEPT !["wrk"] = "idle", !["rcv"] = IF pc["rcv"] = "waiting" THEN "test" ELSE @]
    BY <1>0 DEF Signals, Signalled, PlacesOK
  <1>3. FlagsOK'
    BY <1>0, <1>1, <1>2 DEF FlagsOK, Signals, SignalFor
  <1>4. AmountsOK'
    BY <1>0, <1>1, <1>2 DEF AmountsOK, Tested, InCall, Signals, SignalFor
  <1>5. PlacesOK'
    <2>1. UNCHANGED <<sendLock, recvLock, connLock>>
      BY DEF Signals
    <2> QED
      BY <1>0, <1>2, <2>1 DEF PlacesOK, CallPcs, WorkerPcs, ClosePcs, ReleasePcs
  <1>6. ByesOK'
    BY <1>0, <1>1, <1>2 DEF FlagsOK, AmountsOK, ByesOK, Signals, SignalFor
  <1>7. LocksHeld'
    BY <1>0, <1>1, <1>2
       DEF PlacesOK, LocksHeld, InCall, Locked, CallPcs, WorkerPcs, ClosePcs, ReleasePcs,
           Signals, SignalFor
  <1>8. Tested'
    BY <1>0, <1>1, <1>2 DEF AmountsOK, PlacesOK, Tested, InCall, Signals, SignalFor
  <1>9. SignalComes'
    BY <1>0, <1>1, <1>2
       DEF AmountsOK, PlacesOK, SignalComes, CallPcs, WorkerPcs, ClosePcs, ReleasePcs, Signals,
           SignalFor
  <1>10. LingerSaw'
    BY <1>0, <1>1, <1>2 DEF AmountsOK, PlacesOK, ByesOK, LingerSaw, Signals, SignalFor
  <1>11. Shut'
    BY <1>0, <1>1, <1>2
       DEF PlacesOK, LocksHeld, Shut, InCall, Locked, ReleasePcs, Signals, SignalFor
  <1> QED
    BY <1>3, <1>4, <1>5, <1>6, <1>7, <1>8, <1>9, <1>10, <1>11 DEF IInv, Types

LEMMA BreaksInv == ASSUME IInv, Breaks PROVE IInv'
  <1> USE Sizes, Names DEF Threads, flags, amounts, locks, Goes, Returns, Throws, IsFree, BlockLockIsFree
  <1>0. FlagsOK /\ AmountsOK /\ PlacesOK /\ ByesOK /\ LocksHeld /\ Tested /\ SignalComes /\ LingerSaw /\ Shut
    BY DEF IInv, Types
  <1>1. FlagsOK'
    BY <1>0 DEF FlagsOK, Breaks, Down, NothingLeft
  <1>2. AmountsOK'
    BY <1>0 DEF AmountsOK, Tested, InCall, Breaks, Down, NothingLeft
  <1>3. PlacesOK'
    BY <1>0 DEF PlacesOK, CallPcs, WorkerPcs, ClosePcs, ReleasePcs, Breaks, Down, NothingLeft
  <1>4. ByesOK'
    BY <1>0 DEF FlagsOK, AmountsOK, ByesOK, Breaks, Down, NothingLeft
  <1>5. LocksHeld'
    BY <1>0
       DEF PlacesOK, LocksHeld, InCall, Locked, CallPcs, WorkerPcs, ClosePcs, ReleasePcs,
           Breaks, Down, NothingLeft
  <1>6. Tested'
    BY <1>0 DEF AmountsOK, PlacesOK, Tested, InCall, Breaks, Down, NothingLeft
  <1>7. SignalComes'
    BY <1>0
       DEF AmountsOK, PlacesOK, SignalComes, CallPcs, WorkerPcs, ClosePcs, ReleasePcs, Breaks,
           Down, NothingLeft
  <1>8. LingerSaw'
    BY <1>0 DEF AmountsOK, PlacesOK, ByesOK, LingerSaw, Breaks, Down, NothingLeft
  <1>9. Shut'
    BY <1>0 DEF PlacesOK, LocksHeld, Shut, InCall, Locked, ReleasePcs, Breaks, Down, NothingLeft
  <1> QED
    BY <1>1, <1>2, <1>3, <1>4, <1>5, <1>6, <1>7, <1>8, <1>9 DEF IInv, Types

-----------------------------------------------------------------------------
(* releaseSynch, of the worker or of a closer                              *)
(***************************************************************************)
LEMMA WakesSenderInv == ASSUME IInv, NEW t \in {"wrk"} \cup Closers, WakesSender(t) PROVE IInv'
  <1> USE Sizes, Names DEF Threads, flags, amounts, locks, Goes, Returns, Throws, IsFree, BlockLockIsFree
  <1>0. FlagsOK /\ AmountsOK /\ PlacesOK /\ ByesOK /\ LocksHeld /\ Tested /\ SignalComes /\ LingerSaw /\ Shut
    BY DEF IInv, Types
  <1>1. Down' = Down /\ NothingLeft' = NothingLeft
    BY <1>0 DEF WakesSender, Down, NothingLeft
  <1>2. pc' = [pc EXCEPT ![t] = "released snd",
  !["snd"] = IF pc["snd"] = "waiting" THEN "test" ELSE @]
    BY <1>0 DEF WakesSender, Signalled, PlacesOK
  <1>3. FlagsOK'
    BY <1>0, <1>1, <1>2 DEF FlagsOK, WakesSender
  <1>4. AmountsOK'
    BY <1>0, <1>1, <1>2 DEF AmountsOK, Tested, InCall, WakesSender
  <1>5. PlacesOK'
    BY <1>0, <1>1, <1>2 DEF PlacesOK, CallPcs, WorkerPcs, ClosePcs, ReleasePcs, WakesSender
  <1>6. ByesOK'
    BY <1>0, <1>1, <1>2 DEF FlagsOK, AmountsOK, ByesOK, WakesSender
  <1>7. LocksHeld'
    BY <1>0, <1>1, <1>2
       DEF PlacesOK, LocksHeld, InCall, Locked, CallPcs, WorkerPcs, ClosePcs, ReleasePcs,
           WakesSender
  <1>8. Tested'
    BY <1>0, <1>1, <1>2 DEF AmountsOK, PlacesOK, Tested, InCall, WakesSender
  <1>9. SignalComes'
    BY <1>0, <1>1, <1>2
       DEF AmountsOK, PlacesOK, SignalComes, CallPcs, WorkerPcs, ClosePcs, ReleasePcs, WakesSender
  <1>10. LingerSaw'
    BY <1>0, <1>1, <1>2 DEF AmountsOK, PlacesOK, ByesOK, LingerSaw, WakesSender
  <1>11. Shut'
    BY <1>0, <1>1, <1>2 DEF PlacesOK, LocksHeld, Shut, InCall, Locked, ReleasePcs, WakesSender
  <1> QED
    BY <1>3, <1>4, <1>5, <1>6, <1>7, <1>8, <1>9, <1>10, <1>11 DEF IInv, Types

LEMMA PassesSendLockInv == ASSUME IInv, NEW t \in {"wrk"} \cup Closers,
PassesSendLock(t) PROVE IInv'
  <1> USE Sizes, Names DEF Threads, flags, amounts, locks, Goes, Returns, Throws, IsFree, BlockLockIsFree
  <1>0. FlagsOK /\ AmountsOK /\ PlacesOK /\ ByesOK /\ LocksHeld /\ Tested /\ SignalComes /\ LingerSaw /\ Shut
    BY DEF IInv, Types
  <1>1. Down' = Down /\ NothingLeft' = NothingLeft
    BY <1>0 DEF PassesSendLock, Step, Down, NothingLeft
  <1>2. FlagsOK'
    BY <1>0, <1>1 DEF FlagsOK, PassesSendLock, Step
  <1>3. AmountsOK'
    BY <1>0, <1>1 DEF AmountsOK, Tested, InCall, PassesSendLock, Step
  <1>4. PlacesOK'
    BY <1>0, <1>1 DEF PlacesOK, CallPcs, WorkerPcs, ClosePcs, ReleasePcs, PassesSendLock, Step
  <1>5. ByesOK'
    BY <1>0, <1>1 DEF FlagsOK, AmountsOK, ByesOK, PassesSendLock, Step
  <1>6. LocksHeld'
    BY <1>0, <1>1
       DEF PlacesOK, LocksHeld, InCall, Locked, CallPcs, WorkerPcs, ClosePcs, ReleasePcs,
           PassesSendLock, Step
  <1>7. Tested'
    BY <1>0, <1>1 DEF AmountsOK, PlacesOK, Tested, InCall, PassesSendLock, Step
  <1>8. SignalComes'
    BY <1>0, <1>1
       DEF AmountsOK, PlacesOK, SignalComes, CallPcs, WorkerPcs, ClosePcs, ReleasePcs,
           PassesSendLock, Step
  <1>9. LingerSaw'
    BY <1>0, <1>1 DEF AmountsOK, PlacesOK, ByesOK, LingerSaw, PassesSendLock, Step
  <1>10. Shut'
    BY <1>0, <1>1 DEF PlacesOK, LocksHeld, Shut, InCall, Locked, ReleasePcs, PassesSendLock, Step
  <1> QED
    BY <1>2, <1>3, <1>4, <1>5, <1>6, <1>7, <1>8, <1>9, <1>10 DEF IInv, Types

LEMMA WakesReceiverInv == ASSUME IInv, NEW t \in {"wrk"} \cup Closers, WakesReceiver(t) PROVE IInv'
  <1> USE Sizes, Names DEF Threads, flags, amounts, locks, Goes, Returns, Throws, IsFree, BlockLockIsFree
  <1>0. FlagsOK /\ AmountsOK /\ PlacesOK /\ ByesOK /\ LocksHeld /\ Tested /\ SignalComes /\ LingerSaw /\ Shut
    BY DEF IInv, Types
  <1>1. Down' = Down /\ NothingLeft' = NothingLeft
    BY <1>0 DEF WakesReceiver, Down, NothingLeft
  <1>2. pc' = [pc EXCEPT ![t] = "released rcv",
  !["rcv"] = IF pc["rcv"] = "waiting" THEN "test" ELSE @]
    BY <1>0 DEF WakesReceiver, Signalled, PlacesOK
  <1>3. FlagsOK'
    BY <1>0, <1>1, <1>2 DEF FlagsOK, WakesReceiver
  <1>4. AmountsOK'
    BY <1>0, <1>1, <1>2 DEF AmountsOK, Tested, InCall, WakesReceiver
  <1>5. PlacesOK'
    BY <1>0, <1>1, <1>2 DEF PlacesOK, CallPcs, WorkerPcs, ClosePcs, ReleasePcs, WakesReceiver
  <1>6. ByesOK'
    BY <1>0, <1>1, <1>2 DEF FlagsOK, AmountsOK, ByesOK, WakesReceiver
  <1>7. LocksHeld'
    BY <1>0, <1>1, <1>2
       DEF PlacesOK, LocksHeld, InCall, Locked, CallPcs, WorkerPcs, ClosePcs, ReleasePcs,
           WakesReceiver
  <1>8. Tested'
    BY <1>0, <1>1, <1>2 DEF AmountsOK, PlacesOK, Tested, InCall, WakesReceiver
  <1>9. SignalComes'
    BY <1>0, <1>1, <1>2
       DEF AmountsOK, PlacesOK, SignalComes, CallPcs, WorkerPcs, ClosePcs, ReleasePcs, WakesReceiver
  <1>10. LingerSaw'
    BY <1>0, <1>1, <1>2 DEF AmountsOK, PlacesOK, ByesOK, LingerSaw, WakesReceiver
  <1>11. Shut'
    BY <1>0, <1>1, <1>2 DEF PlacesOK, LocksHeld, Shut, InCall, Locked, ReleasePcs, WakesReceiver
  <1> QED
    BY <1>3, <1>4, <1>5, <1>6, <1>7, <1>8, <1>9, <1>10, <1>11 DEF IInv, Types

LEMMA PassesRecvLockInv == ASSUME IInv, NEW t \in {"wrk"} \cup Closers,
PassesRecvLock(t) PROVE IInv'
  <1> USE Sizes, Names DEF Threads, flags, amounts, locks, Goes, Returns, Throws, IsFree, BlockLockIsFree
  <1>0. FlagsOK /\ AmountsOK /\ PlacesOK /\ ByesOK /\ LocksHeld /\ Tested /\ SignalComes /\ LingerSaw /\ Shut
    BY DEF IInv, Types
  <1>1. Down' = Down /\ NothingLeft' = NothingLeft
    BY <1>0 DEF PassesRecvLock, Step, Down, NothingLeft
  <1>2. pc[t] = "released rcv" /\ pc' = [pc EXCEPT ![t] = IF t = "wrk" THEN "idle" ELSE "bye"]
    BY <1>0 DEF PassesRecvLock, Step
  <1>3. FlagsOK'
    BY <1>0, <1>1, <1>2 DEF FlagsOK, PassesRecvLock, Step
  <1>4. AmountsOK'
    BY <1>0, <1>1, <1>2 DEF AmountsOK, Tested, InCall, PassesRecvLock, Step
  <1>5. PlacesOK'
    <2>1. UNCHANGED <<sendLock, recvLock, connLock>>
      BY DEF PassesRecvLock, Step
    <2>2. CASE t = "wrk"
      <3>1. pc' = [pc EXCEPT !["wrk"] = "idle"]
        BY <2>2 DEF PassesRecvLock, Step
      <3> QED
        BY <1>0, <3>1, <2>1 DEF PlacesOK, CallPcs, WorkerPcs, ClosePcs, ReleasePcs
    <2>3. CASE t # "wrk"
      <3>1. pc' = [pc EXCEPT ![t] = "bye"]
        BY <2>3 DEF PassesRecvLock, Step
      <3> QED
        BY <1>0, <2>3, <3>1, <2>1 DEF PlacesOK, CallPcs, WorkerPcs, ClosePcs, ReleasePcs
    <2> QED
      BY <2>2, <2>3
  <1>6. ByesOK'
    BY <1>0, <1>1, <1>2 DEF FlagsOK, AmountsOK, ByesOK, PassesRecvLock, Step
  <1>7. LocksHeld'
    BY <1>0, <1>1, <1>2
       DEF PlacesOK, LocksHeld, InCall, Locked, CallPcs, WorkerPcs, ClosePcs, ReleasePcs,
           PassesRecvLock, Step
  <1>8. Tested'
    BY <1>0, <1>1, <1>2 DEF AmountsOK, PlacesOK, Tested, InCall, PassesRecvLock, Step
  <1>9. SignalComes'
    BY <1>0, <1>1, <1>2
       DEF AmountsOK, PlacesOK, SignalComes, CallPcs, WorkerPcs, ClosePcs, ReleasePcs,
           PassesRecvLock, Step
  <1>10. LingerSaw'
    BY <1>0, <1>1, <1>2 DEF AmountsOK, PlacesOK, ByesOK, LingerSaw, PassesRecvLock, Step
  <1>11. Shut'
    BY <1>0, <1>1, <1>2
       DEF PlacesOK, LocksHeld, Shut, InCall, Locked, ReleasePcs, PassesRecvLock, Step
  <1> QED
    BY <1>3, <1>4, <1>5, <1>6, <1>7, <1>8, <1>9, <1>10, <1>11 DEF IInv, Types

-----------------------------------------------------------------------------
(* close                                                                   *)
(***************************************************************************)
LEMMA CloseStartsInv == ASSUME IInv, NEW c \in Closers, CloseStarts(c) PROVE IInv'
  <1> USE Sizes, Names DEF Threads, flags, amounts, locks, Goes, Returns, Throws, IsFree, BlockLockIsFree
  <1>0. FlagsOK /\ AmountsOK /\ PlacesOK /\ ByesOK /\ LocksHeld /\ Tested /\ SignalComes /\ LingerSaw /\ Shut
    BY DEF IInv, Types
  <1>1. Down' = Down /\ NothingLeft' = NothingLeft
    BY <1>0 DEF CloseStarts, Down, NothingLeft
  <1>2. pc' = [pc EXCEPT ![c] = IF opened THEN "linger" ELSE "ended"]
    BY <1>0 DEF CloseStarts
  <1>3. FlagsOK'
    BY <1>0, <1>1, <1>2 DEF FlagsOK, CloseStarts
  <1>4. AmountsOK'
    BY <1>0, <1>1, <1>2 DEF AmountsOK, Tested, InCall, CloseStarts
  <1>5. PlacesOK'
    <2>1. \E to \in {"linger", "ended"} : pc' = [pc EXCEPT ![c] = to]
      BY DEF CloseStarts
    <2>2. UNCHANGED <<sendLock, recvLock, connLock>>
      BY DEF CloseStarts
    <2> QED
      BY <1>0, <2>1, <2>2 DEF PlacesOK, CallPcs, WorkerPcs, ClosePcs, ReleasePcs
  <1>6. ByesOK'
    BY <1>0, <1>1, <1>2 DEF FlagsOK, AmountsOK, ByesOK, CloseStarts
  <1>7. LocksHeld'
    BY <1>0, <1>1, <1>2
       DEF PlacesOK, LocksHeld, InCall, Locked, CallPcs, WorkerPcs, ClosePcs, ReleasePcs,
           CloseStarts
  <1>8. Tested'
    BY <1>0, <1>1, <1>2 DEF AmountsOK, PlacesOK, Tested, InCall, CloseStarts
  <1>9. SignalComes'
    BY <1>0, <1>1, <1>2
       DEF AmountsOK, PlacesOK, SignalComes, CallPcs, WorkerPcs, ClosePcs, ReleasePcs, CloseStarts
  <1>10. LingerSaw'
    BY <1>0, <1>1, <1>2 DEF AmountsOK, PlacesOK, ByesOK, LingerSaw, CloseStarts
  <1>11. Shut'
    BY <1>0, <1>1, <1>2 DEF PlacesOK, LocksHeld, Shut, InCall, Locked, ReleasePcs, CloseStarts
  <1> QED
    BY <1>3, <1>4, <1>5, <1>6, <1>7, <1>8, <1>9, <1>10, <1>11 DEF IInv, Types

LEMMA LingerEndsInv == ASSUME IInv, NEW c \in Closers, LingerEnds(c) PROVE IInv'
  <1> USE Sizes, Names DEF Threads, flags, amounts, locks, Goes, Returns, Throws, IsFree, BlockLockIsFree
  <1>0. FlagsOK /\ AmountsOK /\ PlacesOK /\ ByesOK /\ LocksHeld /\ Tested /\ SignalComes /\ LingerSaw /\ Shut
    BY DEF IInv, Types
  <1>1. Down' = Down /\ NothingLeft' = NothingLeft
    BY <1>0 DEF LingerEnds, Lingering, Down, NothingLeft
  <1>2. FlagsOK'
    BY <1>0, <1>1 DEF FlagsOK, LingerEnds, Lingering
  <1>3. AmountsOK'
    BY <1>0, <1>1 DEF AmountsOK, Tested, InCall, LingerEnds, Lingering
  <1>4. PlacesOK'
    BY <1>0, <1>1 DEF PlacesOK, CallPcs, WorkerPcs, ClosePcs, ReleasePcs, LingerEnds, Lingering
  <1>5. ByesOK'
    BY <1>0, <1>1 DEF FlagsOK, AmountsOK, ByesOK, LingerEnds, Lingering
  <1>6. LocksHeld'
    BY <1>0, <1>1
       DEF PlacesOK, LocksHeld, InCall, Locked, CallPcs, WorkerPcs, ClosePcs, ReleasePcs,
           LingerEnds, Lingering
  <1>7. Tested'
    BY <1>0, <1>1 DEF AmountsOK, PlacesOK, Tested, InCall, LingerEnds, Lingering
  <1>8. SignalComes'
    BY <1>0, <1>1
       DEF AmountsOK, PlacesOK, SignalComes, CallPcs, WorkerPcs, ClosePcs, ReleasePcs,
           LingerEnds, Lingering
  <1>9. LingerSaw'
    BY <1>0, <1>1 DEF AmountsOK, PlacesOK, ByesOK, LingerSaw, LingerEnds, Lingering
  <1>10. Shut'
    BY <1>0, <1>1 DEF PlacesOK, LocksHeld, Shut, InCall, Locked, ReleasePcs, LingerEnds, Lingering
  <1> QED
    BY <1>2, <1>3, <1>4, <1>5, <1>6, <1>7, <1>8, <1>9, <1>10 DEF IInv, Types

LEMMA LingerTimesOutInv == ASSUME IInv, NEW c \in Closers, LingerTimesOut(c) PROVE IInv'
  <1> USE Sizes, Names DEF Threads, flags, amounts, locks, Goes, Returns, Throws, IsFree, BlockLockIsFree
  <1>0. FlagsOK /\ AmountsOK /\ PlacesOK /\ ByesOK /\ LocksHeld /\ Tested /\ SignalComes /\ LingerSaw /\ Shut
    BY DEF IInv, Types
  <1>1. Down' = Down /\ NothingLeft' = NothingLeft
    BY <1>0 DEF LingerTimesOut, Down, NothingLeft
  <1>2. FlagsOK'
    BY <1>0, <1>1 DEF FlagsOK, LingerTimesOut
  <1>3. AmountsOK'
    BY <1>0, <1>1 DEF AmountsOK, Tested, InCall, LingerTimesOut
  <1>4. PlacesOK'
    BY <1>0, <1>1 DEF PlacesOK, CallPcs, WorkerPcs, ClosePcs, ReleasePcs, LingerTimesOut
  <1>5. ByesOK'
    BY <1>0, <1>1 DEF FlagsOK, AmountsOK, ByesOK, LingerTimesOut
  <1>6. LocksHeld'
    BY <1>0, <1>1
       DEF PlacesOK, LocksHeld, InCall, Locked, CallPcs, WorkerPcs, ClosePcs, ReleasePcs,
           LingerTimesOut
  <1>7. Tested'
    BY <1>0, <1>1 DEF AmountsOK, PlacesOK, Tested, InCall, LingerTimesOut
  <1>8. SignalComes'
    BY <1>0, <1>1
       DEF AmountsOK, PlacesOK, SignalComes, CallPcs, WorkerPcs, ClosePcs, ReleasePcs,
           LingerTimesOut
  <1>9. LingerSaw'
    BY <1>0, <1>1 DEF AmountsOK, PlacesOK, ByesOK, LingerSaw, LingerTimesOut
  <1>10. Shut'
    BY <1>0, <1>1 DEF PlacesOK, LocksHeld, Shut, InCall, Locked, ReleasePcs, LingerTimesOut
  <1> QED
    BY <1>2, <1>3, <1>4, <1>5, <1>6, <1>7, <1>8, <1>9, <1>10 DEF IInv, Types

LEMMA CloseLocksInv == ASSUME IInv, NEW c \in Closers, CloseLocks(c) PROVE IInv'
  <1> USE Sizes, Names DEF Threads, flags, amounts, locks, Goes, Returns, Throws, IsFree, BlockLockIsFree
  <1>0. FlagsOK /\ AmountsOK /\ PlacesOK /\ ByesOK /\ LocksHeld /\ Tested /\ SignalComes /\ LingerSaw /\ Shut
    BY DEF IInv, Types
  <1>1. FlagsOK'
    BY <1>0 DEF FlagsOK, CloseLocks, Down, NothingLeft
  <1>2. AmountsOK'
    BY <1>0 DEF AmountsOK, Tested, InCall, CloseLocks, Down, NothingLeft
  <1>3. PlacesOK'
    BY <1>0 DEF PlacesOK, CallPcs, WorkerPcs, ClosePcs, ReleasePcs, CloseLocks, Down, NothingLeft
  <1>4. ByesOK'
    BY <1>0 DEF FlagsOK, AmountsOK, ByesOK, CloseLocks, Down, NothingLeft
  <1>5. LocksHeld'
    BY <1>0
       DEF PlacesOK, LocksHeld, InCall, Locked, CallPcs, WorkerPcs, ClosePcs, ReleasePcs,
           CloseLocks, Down, NothingLeft
  <1>6. Tested'
    BY <1>0
       DEF AmountsOK, PlacesOK, Tested, LocksHeld, Shut, Locked, InCall, CloseLocks, Down,
           NothingLeft
  <1>7. SignalComes'
    BY <1>0
       DEF AmountsOK, PlacesOK, SignalComes, LocksHeld, Shut, Locked, CallPcs, WorkerPcs,
           ClosePcs, ReleasePcs, CloseLocks, Down, NothingLeft
  <1>8. LingerSaw'
    BY <1>0 DEF AmountsOK, PlacesOK, ByesOK, LingerSaw, CloseLocks, Down, NothingLeft
  <1>9. Shut'
    BY <1>0
       DEF PlacesOK, LocksHeld, Shut, InCall, Locked, ReleasePcs, CloseLocks, Down, NothingLeft
  <1> QED
    BY <1>1, <1>2, <1>3, <1>4, <1>5, <1>6, <1>7, <1>8, <1>9 DEF IInv, Types

LEMMA SaysByeInv == ASSUME IInv, NEW c \in Closers, SaysBye(c) PROVE IInv'
  <1> USE Sizes, Names DEF Threads, flags, amounts, locks, Goes, Returns, Throws, IsFree, BlockLockIsFree
  <1>0. FlagsOK /\ AmountsOK /\ PlacesOK /\ ByesOK /\ LocksHeld /\ Tested /\ SignalComes /\ LingerSaw /\ Shut
    BY DEF IInv, Types
  <1>1. FlagsOK'
    BY <1>0 DEF FlagsOK, SaysBye, Down, NothingLeft
  <1>2. AmountsOK'
    BY <1>0 DEF AmountsOK, Tested, InCall, SaysBye, Down, NothingLeft
  <1>3. PlacesOK'
    BY <1>0 DEF PlacesOK, CallPcs, WorkerPcs, ClosePcs, ReleasePcs, SaysBye, Down, NothingLeft
  <1>4. ByesOK'
    BY <1>0 DEF FlagsOK, AmountsOK, ByesOK, SaysBye, Down, NothingLeft
  <1>5. LocksHeld'
    BY <1>0
       DEF PlacesOK, LocksHeld, InCall, Locked, CallPcs, WorkerPcs, ClosePcs, ReleasePcs,
           SaysBye, Down, NothingLeft
  <1>6. Tested'
    BY <1>0
       DEF AmountsOK, PlacesOK, Tested, LocksHeld, Shut, Locked, InCall, SaysBye, Down, NothingLeft
  <1>7. SignalComes'
    BY <1>0
       DEF AmountsOK, PlacesOK, SignalComes, LocksHeld, Shut, Locked, CallPcs, WorkerPcs,
           ClosePcs, ReleasePcs, SaysBye, Down, NothingLeft
  <1>8. LingerSaw'
    <2>1. UNCHANGED <<unsent, used>> /\ pc' = [pc EXCEPT ![c] = "send lock"]
      BY DEF SaysBye
    <2>2. bye' = [bye EXCEPT ![c].said = connected /\ ~shutdown]
      BY DEF SaysBye
    <2> SUFFICES ASSUME NEW d \in Closers
                 PROVE  /\ pc'[d] = "out" => ~bye'[d].patient /\ ~bye'[d].said
                        /\ bye'[d].before <= Blocks - unsent'
                        /\ bye'[d].patient => Blocks - unsent' - used' >= bye'[d].before
      BY DEF LingerSaw
    <2>3. CASE d = c
      <3>1. pc'[d] = "send lock"
        BY <1>0, <2>1, <2>3 DEF PlacesOK
      <3>2. bye'[d].before = bye[d].before /\ bye'[d].patient = bye[d].patient
        BY <1>0, <2>2, <2>3 DEF ByesOK
      <3> QED
        BY <1>0, <2>1, <3>1, <3>2 DEF LingerSaw
    <2>4. CASE d # c
      <3>1. bye'[d] = bye[d] /\ pc'[d] = pc[d]
        BY <1>0, <2>1, <2>2, <2>4 DEF PlacesOK, ByesOK
      <3> QED
        BY <1>0, <2>1, <3>1 DEF LingerSaw
    <2> QED
      BY <2>3, <2>4
  <1>9. Shut'
    BY <1>0 DEF PlacesOK, LocksHeld, Shut, InCall, Locked, ReleasePcs, SaysBye, Down, NothingLeft
  <1> QED
    BY <1>1, <1>2, <1>3, <1>4, <1>5, <1>6, <1>7, <1>8, <1>9 DEF IInv, Types

LEMMA CloseTakesSendLockInv == ASSUME IInv, NEW c \in Closers, CloseTakesSendLock(c) PROVE IInv'
  <1> USE Sizes, Names DEF Threads, flags, amounts, locks, Goes, Returns, Throws, IsFree, BlockLockIsFree
  <1>0. FlagsOK /\ AmountsOK /\ PlacesOK /\ ByesOK /\ LocksHeld /\ Tested /\ SignalComes /\ LingerSaw /\ Shut
    BY DEF IInv, Types
  <1>1. Down' = Down /\ NothingLeft' = NothingLeft
    BY <1>0 DEF CloseTakesSendLock, Down, NothingLeft
  <1>2. FlagsOK'
    BY <1>0, <1>1 DEF FlagsOK, CloseTakesSendLock
  <1>3. AmountsOK'
    BY <1>0, <1>1 DEF AmountsOK, Tested, InCall, CloseTakesSendLock
  <1>4. PlacesOK'
    BY <1>0, <1>1 DEF PlacesOK, CallPcs, WorkerPcs, ClosePcs, ReleasePcs, CloseTakesSendLock
  <1>5. ByesOK'
    BY <1>0, <1>1 DEF FlagsOK, AmountsOK, ByesOK, CloseTakesSendLock
  <1>6. LocksHeld'
    BY <1>0, <1>1
       DEF PlacesOK, LocksHeld, InCall, Locked, CallPcs, WorkerPcs, ClosePcs, ReleasePcs,
           CloseTakesSendLock
  <1>7. Tested'
    BY <1>0, <1>1 DEF AmountsOK, PlacesOK, Tested, InCall, CloseTakesSendLock
  <1>8. SignalComes'
    BY <1>0, <1>1
       DEF AmountsOK, PlacesOK, SignalComes, CallPcs, WorkerPcs, ClosePcs, ReleasePcs,
           CloseTakesSendLock
  <1>9. LingerSaw'
    BY <1>0, <1>1 DEF AmountsOK, PlacesOK, ByesOK, LingerSaw, CloseTakesSendLock
  <1>10. Shut'
    BY <1>0, <1>1 DEF PlacesOK, LocksHeld, Shut, InCall, Locked, ReleasePcs, CloseTakesSendLock
  <1> QED
    BY <1>2, <1>3, <1>4, <1>5, <1>6, <1>7, <1>8, <1>9, <1>10 DEF IInv, Types

LEMMA CloseEndsInv == ASSUME IInv, NEW c \in Closers, CloseEnds(c) PROVE IInv'
  <1> USE Sizes, Names DEF Threads, flags, amounts, locks, Goes, Returns, Throws, IsFree, BlockLockIsFree
  <1>0. FlagsOK /\ AmountsOK /\ PlacesOK /\ ByesOK /\ LocksHeld /\ Tested /\ SignalComes /\ LingerSaw /\ Shut
    BY DEF IInv, Types
  <1>1. Down' = Down /\ NothingLeft' = NothingLeft
    BY <1>0 DEF CloseEnds, Down, NothingLeft
  <1>2. FlagsOK'
    BY <1>0, <1>1 DEF FlagsOK, CloseEnds
  <1>3. AmountsOK'
    BY <1>0, <1>1 DEF AmountsOK, Tested, InCall, CloseEnds
  <1>4. PlacesOK'
    BY <1>0, <1>1 DEF PlacesOK, CallPcs, WorkerPcs, ClosePcs, ReleasePcs, CloseEnds
  <1>5. ByesOK'
    BY <1>0, <1>1 DEF FlagsOK, AmountsOK, ByesOK, CloseEnds
  <1>6. LocksHeld'
    BY <1>0, <1>1
       DEF PlacesOK, LocksHeld, InCall, Locked, CallPcs, WorkerPcs, ClosePcs, ReleasePcs, CloseEnds
  <1>7. Tested'
    BY <1>0, <1>1 DEF AmountsOK, PlacesOK, Tested, InCall, CloseEnds
  <1>8. SignalComes'
    BY <1>0, <1>1
       DEF AmountsOK, PlacesOK, SignalComes, CallPcs, WorkerPcs, ClosePcs, ReleasePcs, CloseEnds
  <1>9. LingerSaw'
    BY <1>0, <1>1 DEF AmountsOK, PlacesOK, ByesOK, LingerSaw, CloseEnds
  <1>10. Shut'
    BY <1>0, <1>1 DEF PlacesOK, LocksHeld, Shut, InCall, Locked, ReleasePcs, CloseEnds
  <1> QED
    BY <1>2, <1>3, <1>4, <1>5, <1>6, <1>7, <1>8, <1>9, <1>10 DEF IInv, Types

-----------------------------------------------------------------------------
LEMMA InitInv == Init => IInv
  <1> SUFFICES ASSUME Init PROVE IInv
    OBVIOUS
  <1> USE Sizes, Names DEF Init
  <1>1. pc["snd"] = "out" /\ pc["rcv"] = "out" /\ pc["wrk"] = "idle" /\ \A c \in Closers : pc[c] = "out"
    BY DEF Threads
  <1>2. Types
    <2>1. FlagsOK
      BY DEF FlagsOK
    <2>5. AmountsOK
      <3>1. used = 0 /\ data = 0 /\ unsent = Blocks /\ unread = Wanted /\ coming = Coming
        OBVIOUS
      <3> QED
        BY <3>1 DEF AmountsOK
    <2>4. ByesOK
      BY DEF ByesOK
    <2>2. pc \in [Threads -> {"idle", "out"}]
      OBVIOUS
    <2>3. PlacesOK
      BY <1>1, <2>2 DEF PlacesOK, Threads, CallPcs, WorkerPcs, ClosePcs
    <2> QED
      BY <2>1, <2>3, <2>4, <2>5 DEF Types
  <1>3. LocksHeld
    BY <1>1 DEF LocksHeld, InCall, Locked, ReleasePcs
  <1>4. Tested
    BY <1>1 DEF Tested, InCall
  <1>5. SignalComes
    BY <1>1 DEF SignalComes
  <1>6. LingerSaw
    BY <1>1 DEF LingerSaw
  <1>7. Shut
    BY <1>1 DEF Shut, Locked, ReleasePcs
  <1> QED
    BY <1>2, <1>3, <1>4, <1>5, <1>6, <1>7 DEF IInv

LEMMA ReleasesInv == ASSUME IInv, NEW t \in {"wrk"} \cup Closers, Releases(t) PROVE IInv'
  BY WakesSenderInv, PassesSendLockInv, WakesReceiverInv, PassesRecvLockInv DEF Releases

LEMMA NextInv == IInv /\ [Next]_vars => IInv'
  <1> SUFFICES ASSUME IInv, [Next]_vars PROVE IInv'
    OBVIOUS
  <1>1. CASE SenderNext
    BY <1>1, SendCallsInv, SendLocksInv, SendLooksInv, SendTestsInv, SendWaitsInv, SendThrowsInv,
       SendPassesInv, SendAddsInv DEF SenderNext
  <1>2. CASE ReceiverNext
    BY <1>2, RecvCallsInv, RecvLocksInv, RecvTestsInv, RecvWaitsInv, RecvThrowsInv,
       RecvPassesInv, RecvReadsInv DEF ReceiverNext
  <1>3. CASE WorkerHandles
    BY <1>3, FreesBlocksInv, StoresDataInv, SignalsSndInv, SignalsRcvInv, BreaksInv,
       ReleasesInv DEF WorkerHandles
  <1>4. CASE TakesAck \/ TakesData \/ TakesShutdown \/ TakesTimer
    BY <1>4, TakesInv DEF TakesAck, TakesData, TakesShutdown, TakesTimer
  <1>5. CASE \E c \in Closers : CloseStarts(c) \/ CloserGoesOn(c)
    BY <1>5, CloseStartsInv, LingerEndsInv, LingerTimesOutInv, CloseLocksInv, ReleasesInv,
       SaysByeInv, CloseTakesSendLockInv, CloseEndsInv DEF CloserGoesOn
  <1>6. CASE UNCHANGED vars
    <2> USE <1>6 DEF vars, flags, amounts, locks, IInv, Types
    <2>1. FlagsOK' /\ AmountsOK'
      BY DEF FlagsOK, AmountsOK
    <2>2. PlacesOK' /\ ByesOK'
      BY DEF PlacesOK, ByesOK
    <2>3. LocksHeld'
      BY DEF LocksHeld
    <2>4. Tested'
      BY DEF Tested, Down
    <2>5. SignalComes'
      BY DEF SignalComes, Down
    <2>6. LingerSaw' /\ Shut'
      BY DEF LingerSaw, Shut
    <2> QED
      BY <2>1, <2>2, <2>3, <2>4, <2>5, <2>6
  <1> QED
    BY <1>1, <1>2, <1>3, <1>4, <1>5, <1>6 DEF Next

(* The inductive invariant holds in every reachable state.                 *)
THEOREM Invariance == Spec => []IInv
  BY InitInv, NextInv, PTL DEF Spec

(* Every variable keeps to its range: in particular no call writes more    *)
(* into the send buffer than it holds or reads more than has come.         *)
THEOREM TypeCorrect == Spec => []TypeOK
  <1>1. IInv => TypeOK
    BY TypeParts DEF IInv
  <1> QED
    BY <1>1, Invariance, PTL

(* No thread in send or recv waits for what has already happened: the one  *)
(* that made room, brought data or ended the connection has its signal     *)
(* still to give.                                                          *)
THEOREM NoCallSleepsThrough == Spec => []NoSignalMissed
  <1>1. IInv => NoSignalMissed
    BY DEF IInv, SignalComes, NoSignalMissed
  <1> QED
    BY <1>1, Invariance, PTL

(* A close that ended its linger in patience says goodbye only when all    *)
(* that was written before it has been acknowledged.                       *)
THEOREM LingerLosesNothing == Spec => []LingerKeepsData
  <1>1. IInv => LingerKeepsData
    BY DEF IInv, LingerSaw, LingerKeepsData
  <1> QED
    BY <1>1, Invariance, PTL

(* Once a close has returned no call touches the buffers any more, but for *)
(* one send that had tested the connection before.                         *)
THEOREM ClosedIsQuiet == Spec => NothingAfterClose
  <1> DEFINE Quiet == /\ UNCHANGED unread
                      /\ unsent' # unsent => LateSend /\ ~LateSend'
                      /\ LateSend' => LateSend
  <1>1. ASSUME IInv, [Next]_vars, ~opened PROVE Quiet
    <2>1. /\ Down /\ NothingLeft
          /\ pc["snd"] = "move" => call["snd"] = "send"
          /\ pc["rcv"] # "move"
      BY <1>1 DEF IInv, Shut, Down, NothingLeft
    <2>2. PlacesOK /\ ByesOK
      BY <1>1 DEF IInv, Types
    <2> USE DEF flags, amounts, locks, LateSend, Goes
    <2>3. CASE SendAdds
      BY <2>1, <2>2, <2>3 DEF SendAdds, Returns, PlacesOK, ByesOK, Threads
    <2>4. CASE SendCalls \/ SendLocks \/ SendLooks \/ SendTests \/ Waits("snd") \/ SendThrows \/ SendPasses
      BY <2>1, <2>2, <2>4
         DEF SendCalls, SendLocks, SendLooks, SendTests, Waits, SendThrows, SendPasses, Throws,
             PlacesOK, ByesOK, Threads
    <2>5. CASE ReceiverNext
      <3>1. ~RecvReads
        BY <2>1 DEF RecvReads
      <3>2. pc'["snd"] = pc["snd"] /\ call'["snd"] = call["snd"]
        BY <2>2, <2>5, <3>1
           DEF ReceiverNext, RecvCalls, RecvLocks, RecvTests, Waits, RecvThrows, RecvPasses, Throws,
               PlacesOK, ByesOK, Threads
      <3>3. UNCHANGED <<unsent, unread>>
        BY <2>5, <3>1
           DEF ReceiverNext, RecvCalls, RecvLocks, RecvTests, Waits, RecvThrows, RecvPasses
      <3> QED
        BY <3>2, <3>3
    <2>6. CASE WorkerHandles \/ TakesAck \/ TakesData \/ TakesShutdown \/ TakesTimer
      <3>1. UNCHANGED <<unsent, unread, call>>
        BY <2>6
           DEF WorkerHandles, FreesBlocks, StoresData, Signals, Breaks, Releases, WakesSender,
               PassesSendLock, WakesReceiver, PassesRecvLock, Step, TakesAck, TakesData,
               TakesShutdown, TakesTimer, Takes
      <3>2. pc'["snd"] \in {pc["snd"], "test"}
        BY <2>2, <2>6
           DEF WorkerHandles, FreesBlocks, StoresData, Signals, Signalled, Breaks, Releases,
               WakesSender, PassesSendLock, WakesReceiver, PassesRecvLock, Step, TakesAck,
               TakesData, TakesShutdown, TakesTimer, Takes, PlacesOK, Threads
      <3> QED
        BY <3>1, <3>2
    <2>7. CASE \E c \in Closers : CloseStarts(c) \/ CloserGoesOn(c)
      <3>1. PICK c \in Closers : CloseStarts(c) \/ CloserGoesOn(c)
        BY <2>7
      <3>2. UNCHANGED <<unsent, unread, call>>
        BY <3>1
           DEF CloserGoesOn, CloseStarts, LingerEnds, LingerTimesOut, CloseLocks, SaysBye,
               CloseTakesSendLock, CloseEnds, Releases, WakesSender, PassesSendLock,
               WakesReceiver, PassesRecvLock, Step
      <3>3. pc'["snd"] \in {pc["snd"], "test"}
        BY <2>2, <3>1, Names
           DEF CloserGoesOn, CloseStarts, LingerEnds, LingerTimesOut, CloseLocks, SaysBye,
               CloseTakesSendLock, CloseEnds, Releases, WakesSender, PassesSendLock,
               WakesReceiver, PassesRecvLock, Step, Signalled, PlacesOK, Threads
      <3> QED
        BY <3>2, <3>3
    <2>8. CASE UNCHANGED vars
      BY <2>8 DEF vars
    <2> QED
      BY <1>1, <2>3, <2>4, <2>5, <2>6, <2>7, <2>8 DEF Next, SenderNext
  <1>2. IInv /\ [Next]_vars => [~opened => Quiet]_vars
    BY <1>1
  <1> QED
    BY <1>2, Invariance, PTL DEF Spec, NothingAfterClose

=============================================================================
