------------------------- MODULE UdtReceiverProofs -------------------------
(***************************************************************************)
(* Proofs about UdtReceiver, for every circle of numbers, ring, list and   *)
(* packet size, in whatever order packets arrive and however the reader    *)
(* and the thread that fills the ring take turns.                          *)
(*                                                                         *)
(* 1. Distances on the circle, from here to the chain.                     *)
(* 2. IsChain: the linked list by distances alone, without the circle, and *)
(*    what each way to change it does (ChainUnlink ... ChainMove).         *)
(* 3. IsList: the same of the list as it is stored; insert is a union,     *)
(*    remove a difference, getFirstLostSeq the least number.               *)
(* 4. The inductive invariant IInv, a lemma for each action, the theorems. *)
(***************************************************************************)
EXTENDS UdtReceiver, FiniteSetTheorems, TLAPS

-----------------------------------------------------------------------------
(* Remainders, where the code's arguments lie.                             *)
LEMMA Remainder ==
    ASSUME NEW K \in Nat, K > 0, NEW x \in Int, -K <= x, x < 2 * K
    PROVE  /\ x % K = IF x < 0 THEN x + K ELSE IF x < K THEN x ELSE x - K
           /\ x % K \in 0..(K - 1)
  OBVIOUS

(* A number on the line, put back on the circle.                            *)
Wrapped(x) == IF x > MaxSeqNo THEN x - MaxSeqNo - 1
              ELSE IF x < 0 THEN x + MaxSeqNo + 1 ELSE x

LEMMA ShiftIs ==
    ASSUME NEW s \in SeqNos, NEW d \in Int, -(MaxSeqNo + 1) <= d, d <= MaxSeqNo + 1
    PROVE  Shift(s, d) = Wrapped(s + d) /\ Shift(s, d) \in SeqNos
  <1>. DEFINE K == MaxSeqNo + 1
  <1>1. K \in Nat /\ K > 0 /\ s \in Int /\ 0 <= s /\ s < K /\ MaxSeqNo = K - 1
    BY SeqNoAssumption DEF SeqNos
  <1>2. s + d \in Int /\ -K <= s + d
    BY <1>1
  <1>3. CASE s + d < 2 * K
    <2>1. (s + d) % K = IF s + d < 0 THEN s + d + K ELSE IF s + d < K THEN s + d
                        ELSE s + d - K
      BY <1>1, <1>2, <1>3, Remainder
    <2>2. Shift(s, d) = (s + d) % K
      BY DEF Shift
    <2>. QED  BY <1>1, <2>1, <2>2, SeqNoAssumption DEF SeqNos, Wrapped
  <1>4. s + d < 2 * K
    BY <1>1
  <1>. QED  BY <1>3, <1>4

LEMMA ShiftShift ==
    ASSUME NEW s \in SeqNos, NEW d \in Int, NEW e \in Int,
           -SeqNoTH <= d, d <= SeqNoTH, -SeqNoTH <= e, e <= SeqNoTH
    PROVE  Shift(Shift(s, d), e) = Shift(s, d + e)
  <1>. DEFINE t == Shift(s, d)
  <1>1. /\ -(MaxSeqNo + 1) <= d /\ d <= MaxSeqNo + 1
        /\ -(MaxSeqNo + 1) <= e /\ e <= MaxSeqNo + 1
        /\ -(MaxSeqNo + 1) <= d + e /\ d + e <= MaxSeqNo + 1 /\ d + e \in Int
    BY SeqNoAssumption
  <1>2. t \in SeqNos /\ t = Wrapped(s + d)
    BY <1>1, ShiftIs
  <1>3. Shift(s, d + e) = Wrapped(s + (d + e))
    BY <1>1, ShiftIs
  <1>4. Shift(t, e) = Wrapped(t + e)
    BY <1>1, <1>2, ShiftIs
  <1>. HIDE DEF t
  <1>5. Shift(t, e) = Shift(s, d + e)
    BY <1>1, <1>2, <1>3, <1>4, SeqNoAssumption DEF SeqNos, Wrapped
  <1>. QED  BY <1>5 DEF t

(* seqoff, seqcmp and seqlen of two numbers less than half of the circle   *)
(* apart are those of their distances; incseq and decseq add and take one. *)
LEMMA OffShift ==
    ASSUME NEW s \in SeqNos, NEW d \in Int, NEW e \in Int,
           -SeqNoTH <= d, d <= SeqNoTH, -SeqNoTH <= e, e <= SeqNoTH,
           -SeqNoTH < e - d, e - d < SeqNoTH
    PROVE  /\ SeqOff(Shift(s, d), Shift(s, e)) = e - d
           /\ SeqCmp(Shift(s, d), Shift(s, e)) > 0 <=> d > e
           /\ d <= e => SeqLen(Shift(s, d), Shift(s, e)) = e - d + 1
           /\ Shift(s, d) = Shift(s, e) <=> d = e
  <1>. DEFINE x == Shift(s, d)
              y == Shift(s, e)
  <1>1. /\ -(MaxSeqNo + 1) <= d /\ d <= MaxSeqNo + 1
        /\ -(MaxSeqNo + 1) <= e /\ e <= MaxSeqNo + 1
    BY SeqNoAssumption
  <1>2. x = Wrapped(s + d) /\ y = Wrapped(s + e) /\ x \in SeqNos /\ y \in SeqNos
    BY <1>1, ShiftIs
  <1>. HIDE DEF x, y
  <1>3. SeqOff(x, y) = e - d
    BY <1>1, <1>2, SeqNoAssumption DEF SeqNos, SeqOff, Abs, Wrapped
  <1>4. SeqCmp(x, y) > 0 <=> d > e
    BY <1>1, <1>2, SeqNoAssumption DEF SeqNos, SeqCmp, Abs, Wrapped
  <1>5. d <= e => SeqLen(x, y) = e - d + 1
    BY <1>1, <1>2, SeqNoAssumption DEF SeqNos, SeqLen, Wrapped
  <1>6. x = y <=> d = e
    BY <1>1, <1>2, SeqNoAssumption DEF SeqNos, Wrapped
  <1>. QED  BY <1>3, <1>4, <1>5, <1>6 DEF x, y

LEMMA NextShift ==
    ASSUME NEW s \in SeqNos, NEW d \in Int, -SeqNoTH <= d, d <= SeqNoTH
    PROVE  /\ IncSeq(Shift(s, d)) = Shift(s, d + 1)
           /\ DecSeq(Shift(s, d)) = Shift(s, d - 1)
  <1>1. /\ -(MaxSeqNo + 1) <= d - 1 /\ d + 1 <= MaxSeqNo + 1
        /\ -(MaxSeqNo + 1) <= d /\ d <= MaxSeqNo + 1 /\ d - 1 \in Int /\ d + 1 \in Int
        /\ -(MaxSeqNo + 1) <= d + 1 /\ d - 1 <= MaxSeqNo + 1
    BY SeqNoAssumption
  <1>2. Shift(s, d) = Wrapped(s + d) /\ Shift(s, d) \in SeqNos
    BY <1>1, ShiftIs
  <1>3. Shift(s, d + 1) = Wrapped(s + (d + 1)) /\ Shift(s, d - 1) = Wrapped(s + (d - 1))
    BY <1>1, ShiftIs
  <1>. QED  BY <1>1, <1>2, <1>3, SeqNoAssumption DEF SeqNos, IncSeq, DecSeq, Wrapped

(* A number is where its distance says.                                    *)
LEMMA ShiftOff ==
    ASSUME NEW s \in SeqNos, NEW t \in SeqNos
    PROVE  SeqOff(s, t) \in Int /\ Shift(s, SeqOff(s, t)) = t
  <1>1. /\ SeqOff(s, t) \in Int
        /\ -(MaxSeqNo + 1) <= SeqOff(s, t) /\ SeqOff(s, t) <= MaxSeqNo + 1
    BY SeqNoAssumption DEF SeqNos, SeqOff, Abs
  <1>2. Shift(s, SeqOff(s, t)) = Wrapped(s + SeqOff(s, t))
    BY <1>1, ShiftIs
  <1>. QED  BY <1>1, <1>2, SeqNoAssumption DEF SeqNos, SeqOff, Abs, Wrapped

-----------------------------------------------------------------------------
(***************************************************************************)
(* The loss list.  Distances are counted from a number c: First and Last   *)
(* are where a node starts and ends, H is the set of the missing numbers.  *)
(***************************************************************************)
In(L) == {i \in Nodes : L.data1[i] # -1}
First(L, c, i) == SeqOff(c, L.data1[i])
Last(L, c, i) == SeqOff(c, IF L.data2[i] = -1 THEN L.data1[i] ELSE L.data2[i])

(* Node i is d places after node j on the ring of nodes.                   *)
Apart(i, j, d) == i - j - d \in {-LossListSize, 0, LossListSize}

(* Every node is a longest run of missing numbers, and every missing       *)
(* number is in one: insert never has two runs to join.                    *)
AreRuns(L, c, H) ==
    /\ H \subseteq 0..(LossListSize - 2)
    /\ \A i \in In(L) :
        /\ First(L, c, i) \in Int /\ Last(L, c, i) \in Int
        /\ First(L, c, i) <= Last(L, c, i)
        /\ First(L, c, i) - 1 \notin H /\ Last(L, c, i) + 1 \notin H
        /\ \A k \in Int : First(L, c, i) <= k /\ k <= Last(L, c, i) => k \in H
    /\ \A k \in H : \E i \in In(L) : First(L, c, i) <= k /\ k <= Last(L, c, i)

AreInPlace(L, c) ==
    \A i, j \in In(L) : Apart(i, j, First(L, c, i) - First(L, c, j))

EndsOK(L, H) ==
    /\ H # {} => L.head \in In(L) /\ L.tail \in In(L)
    /\ \A i \in In(L) : L.next[i] = -1 <=> i = L.tail
    /\ \A i \in In(L) : L.prior[i] = -1 <=> i = L.head

NextOK(L, c, H) ==
    \A i \in In(L) :
        IF L.next[i] = -1 THEN \A k \in H : k <= Last(L, c, i)
        ELSE /\ L.next[i] \in In(L) /\ Last(L, c, i) < First(L, c, L.next[i])
             /\ \A k \in H : k <= Last(L, c, i) \/ First(L, c, L.next[i]) <= k

PriorOK(L, c, H) ==
    \A i \in In(L) :
        IF L.prior[i] = -1 THEN \A k \in H : First(L, c, i) <= k
        ELSE L.prior[i] \in In(L) /\ L.next[L.prior[i]] = i

IsChain(L, c, H) ==
    /\ AreRuns(L, c, H) /\ AreInPlace(L, c)
    /\ EndsOK(L, H) /\ NextOK(L, c, H) /\ PriorOK(L, c, H)

-----------------------------------------------------------------------------
LEMMA ListConstants ==
    /\ LossListSize \in Nat /\ LossListSize >= 2 /\ RcvBufSize \in Nat
    /\ Nodes = 0..(LossListSize - 1) /\ -1 \notin Nodes /\ \A L : In(L) \subseteq Nodes
    /\ RcvBufSize >= 2 /\ RcvBufSize <= LossListSize /\ RcvBufSize <= SeqNoTH
    /\ SeqNoTH \in Nat /\ MaxSeqNo \in Nat /\ 0 \in SeqNos /\ -1 \notin SeqNos
  BY SeqNoAssumption, ReceiverAssumption DEF Nodes, In, SeqNos

(* Places on the ring of nodes.                                            *)
LEMMA ApartAdd ==
    ASSUME NEW i \in Nodes, NEW j \in Nodes, NEW m \in Nodes, NEW d \in Int, NEW e \in Int,
           Apart(i, j, d), Apart(j, m, e),
           -LossListSize < d + e, d + e < LossListSize
    PROVE  Apart(i, m, d + e)
  BY ListConstants DEF Apart

LEMMA ApartNone ==
    ASSUME NEW i \in Nodes, NEW j \in Nodes, Apart(i, j, 0)
    PROVE  i = j
  BY ListConstants DEF Apart

LEMMA ApartBack ==
    ASSUME NEW i \in Nodes, NEW j \in Nodes, NEW d \in Int, Apart(i, j, d)
    PROVE  Apart(j, i, -d)
  BY ListConstants DEF Apart

LEMMA ApartPlace ==
    ASSUME NEW i \in Nodes, NEW d \in Int, -LossListSize < d, d < LossListSize
    PROVE  (i + d) % LossListSize \in Nodes /\ Apart((i + d) % LossListSize, i, d)
  <1>1. i + d \in Int /\ -LossListSize <= i + d /\ i + d < 2 * LossListSize
    BY ListConstants
  <1>. DEFINE j == (i + d) % LossListSize
  <1>2. /\ j = IF i + d < 0 THEN i + d + LossListSize
               ELSE IF i + d < LossListSize THEN i + d ELSE i + d - LossListSize
        /\ j \in 0..(LossListSize - 1)
    BY <1>1, ListConstants, Remainder
  <1>. HIDE DEF j
  <1>3. j \in Nodes /\ Apart(j, i, d)
    BY <1>2, ListConstants DEF Apart
  <1>. QED  BY <1>3 DEF j

(* The ends of a node and its links, one at a time.                        *)
LEMMA NodeFacts ==
    ASSUME NEW L, NEW c, NEW H, IsChain(L, c, H), NEW i \in In(L)
    PROVE  /\ First(L, c, i) \in H /\ Last(L, c, i) \in H
           /\ First(L, c, i) \in 0..(LossListSize - 2) /\ Last(L, c, i) \in 0..(LossListSize - 2)
           /\ First(L, c, i) <= Last(L, c, i)
           /\ First(L, c, i) - 1 \notin H /\ Last(L, c, i) + 1 \notin H
           /\ \A k \in Int : First(L, c, i) <= k /\ k <= Last(L, c, i) => k \in H
  BY DEF IsChain, AreRuns

LEMMA NextFacts ==
    ASSUME NEW L, NEW c, NEW H, IsChain(L, c, H), NEW i \in In(L), L.next[i] # -1
    PROVE  /\ L.next[i] \in In(L) /\ Last(L, c, i) < First(L, c, L.next[i])
           /\ \A k \in H : k <= Last(L, c, i) \/ First(L, c, L.next[i]) <= k
           /\ L.next[i] # i
  BY NodeFacts DEF IsChain, NextOK

(* Nodes do not overlap.                                                   *)
LEMMA NodesDisjoint ==
    ASSUME NEW L, NEW c, NEW H, IsChain(L, c, H), NEW i \in In(L), NEW j \in In(L),
           NEW k \in Int, First(L, c, i) <= k, k <= Last(L, c, i),
           First(L, c, j) <= k, k <= Last(L, c, j)
    PROVE  i = j
  <1>1. First(L, c, i) = First(L, c, j)
    BY DEF IsChain, AreRuns
  <1>2. Apart(i, j, 0)
    BY <1>1 DEF IsChain, AreRuns, AreInPlace
  <1>. QED  BY <1>2, ApartNone, ListConstants

(* A node that is where a number would be starts there, or is not in use.  *)
LEMMA PlaceIsFree ==
    ASSUME NEW L, NEW c, NEW H, IsChain(L, c, H), NEW i \in In(L),
           NEW o \in 0..(LossListSize - 2), NEW m \in In(L), Apart(m, i, o - First(L, c, i))
    PROVE  First(L, c, m) = o
  <1>1. /\ First(L, c, i) \in 0..(LossListSize - 2) /\ First(L, c, m) \in 0..(LossListSize - 2)
    BY DEF IsChain, AreRuns
  <1>2. Apart(m, i, First(L, c, m) - First(L, c, i))
    BY DEF IsChain, AreInPlace
  <1>3. i \in Int /\ m \in Int
    BY ListConstants DEF In
  <1>4. ASSUME NEW x \in 0..(LossListSize - 2), NEW y \in 0..(LossListSize - 2),
               Apart(m, i, x - y), Apart(m, i, o - y)
        PROVE  x = o
    BY <1>3, <1>4, ListConstants DEF Apart
  <1>. QED  BY <1>1, <1>2, <1>4

(* The links back are those forth.                                         *)
LEMMA NextThenPrior ==
    ASSUME NEW L, NEW c, NEW H, IsChain(L, c, H), NEW i \in In(L), L.next[i] # -1
    PROVE  L.prior[L.next[i]] = i
  <1>1. PICK m : m = L.next[i]
    OBVIOUS
  <1>2. /\ m \in In(L) /\ Last(L, c, i) < First(L, c, m)
        /\ \A k \in H : k <= Last(L, c, i) \/ First(L, c, m) <= k
    BY <1>1, NextFacts
  <1>3. L.prior[m] # -1
    BY <1>2, NodeFacts DEF IsChain, PriorOK
  <1>4. PICK q \in In(L) : q = L.prior[m] /\ L.next[q] = m
    BY <1>2, <1>3 DEF IsChain, PriorOK
  <1>5. m # -1
    BY <1>2, ListConstants
  <1>6. /\ Last(L, c, q) < First(L, c, m)
        /\ \A k \in H : k <= Last(L, c, q) \/ First(L, c, m) <= k
    BY <1>4, <1>5, NextFacts
  <1>7. Last(L, c, q) = Last(L, c, i)
    BY <1>2, <1>4, <1>6, NodeFacts
  <1>8. q = i
    BY <1>4, <1>7, NodesDisjoint, NodeFacts
  <1>. QED  BY <1>1, <1>4, <1>8

-----------------------------------------------------------------------------
(* A node with one number is taken out.                                    *)
LEMMA ChainUnlink ==
    ASSUME NEW L, NEW M, NEW c, NEW H, IsChain(L, c, H), NEW i \in In(L),
           First(L, c, i) = Last(L, c, i),
           In(M) = In(L) \ {i},
           \A j \in In(M) : /\ First(M, c, j) = First(L, c, j) /\ Last(M, c, j) = Last(L, c, j)
                            /\ M.next[j] = IF j = L.prior[i] THEN L.next[i] ELSE L.next[j]
                            /\ M.prior[j] = IF j = L.next[i] THEN L.prior[i] ELSE L.prior[j],
           M.head = IF L.head = i THEN L.next[i] ELSE L.head,
           M.tail = IF L.next[i] = -1 /\ L.head # i THEN L.prior[i] ELSE L.tail
    PROVE  IsChain(M, c, H \ {First(L, c, i)})
  <1>1. PICK o \in Int : o = First(L, c, i) /\ o = Last(L, c, i)
    BY NodeFacts
  <1>. DEFINE G == H \ {o}
  <1>2. AreRuns(M, c, G)
    <2>1. G \subseteq 0..(LossListSize - 2)
      BY DEF IsChain, AreRuns
    <2>2. ASSUME NEW j \in In(M)
          PROVE  /\ First(M, c, j) \in Int /\ Last(M, c, j) \in Int
                 /\ First(M, c, j) <= Last(M, c, j)
                 /\ First(M, c, j) - 1 \notin G /\ Last(M, c, j) + 1 \notin G
                 /\ \A k \in Int : First(M, c, j) <= k /\ k <= Last(M, c, j) => k \in G
      <3>1. ~(First(L, c, j) <= o /\ o <= Last(L, c, j))
        BY <1>1, NodesDisjoint
      <3>. QED  BY <3>1, NodeFacts
    <2>3. ASSUME NEW k \in G
          PROVE  \E j \in In(M) : First(M, c, j) <= k /\ k <= Last(M, c, j)
      <3>1. PICK j \in In(L) : First(L, c, j) <= k /\ k <= Last(L, c, j)
        BY DEF IsChain, AreRuns
      <3>2. j # i
        BY <1>1, <2>1, <3>1
      <3>. QED  BY <3>1, <3>2
    <2>. QED  BY <2>1, <2>2, <2>3 DEF AreRuns
  <1>3. AreInPlace(M, c)
    BY DEF IsChain, AreInPlace
  <1>4. \A j \in In(L) : L.next[j] = i => L.prior[i] = j
    BY NextThenPrior, ListConstants
  <1>5. \A j \in In(L) : L.prior[j] = i => L.next[i] = j
    BY ListConstants DEF IsChain, PriorOK
  <1>6. EndsOK(M, G)
    <2>1. G # {} => M.head \in In(M)
      <3>1. CASE L.head = i
        <4>1. L.next[i] = -1 => \A k \in H : k = o
          BY <1>1, <3>1 DEF IsChain, AreRuns, EndsOK, NextOK, PriorOK
        <4>. QED  BY <3>1, <4>1, NextFacts
      <3>2. CASE L.head # i
        BY <3>2 DEF IsChain, EndsOK
      <3>. QED  BY <3>1, <3>2
    <2>2. G # {} => M.tail \in In(M)
      <3>1. CASE L.next[i] = -1 /\ L.head # i
        <4>1. L.prior[i] \in In(L) /\ L.prior[i] # i
          BY <3>1, ListConstants DEF IsChain, EndsOK, PriorOK
        <4>. QED  BY <3>1, <4>1
      <3>2. CASE L.next[i] = -1 /\ L.head = i
        <4>1. \A k \in H : k = o
          BY <1>1, <3>2 DEF IsChain, AreRuns, EndsOK, NextOK, PriorOK
        <4>. QED  BY <4>1
      <3>3. CASE L.next[i] # -1
        BY <3>3 DEF IsChain, EndsOK
      <3>. QED  BY <3>1, <3>2, <3>3
    <2>3. \A j \in In(M) : M.next[j] = -1 <=> j = M.tail
      BY <1>4, ListConstants DEF IsChain, EndsOK, PriorOK
    <2>4. \A j \in In(M) : M.prior[j] = -1 <=> j = M.head
      <3>1. \A j \in In(M) : j = L.next[i] => L.prior[j] = i
        BY NextThenPrior, ListConstants
      <3>2. i # -1
        BY ListConstants
      <3>. QED  BY <3>1, <3>2 DEF IsChain, EndsOK
    <2>. QED  BY <2>1, <2>2, <2>3, <2>4 DEF EndsOK
  <1>7. NextOK(M, c, G)
    <2>. SUFFICES ASSUME NEW j \in In(M)
         PROVE IF M.next[j] = -1 THEN \A k \in G : k <= Last(M, c, j)
               ELSE /\ M.next[j] \in In(M) /\ Last(M, c, j) < First(M, c, M.next[j])
                    /\ \A k \in G : k <= Last(M, c, j) \/ First(M, c, M.next[j]) <= k
      BY DEF NextOK
    <2>1. CASE j = L.prior[i]
      <3>1. L.next[j] = i /\ i # -1
        BY <2>1, ListConstants DEF IsChain, PriorOK
      <3>2. Last(L, c, j) < o /\ \A k \in H : k <= Last(L, c, j) \/ o <= k
        BY <1>1, <3>1, NextFacts
      <3>3. CASE L.next[i] = -1
        <4>1. \A k \in H : k <= o
          BY <1>1, <3>3 DEF IsChain, NextOK
        <4>. QED  BY <2>1, <3>2, <3>3, <4>1, NodeFacts DEF IsChain, AreRuns
      <3>4. CASE L.next[i] # -1
        <4>1. PICK m \in In(L) : m = L.next[i] /\ m # i /\ o < First(L, c, m)
                         /\ \A k \in H : k <= o \/ First(L, c, m) <= k
          BY <1>1, <3>4, NextFacts
        <4>2. M.next[j] = m /\ m \in In(M) /\ m # -1
          BY <2>1, <4>1, ListConstants
        <4>3. Last(L, c, j) < First(L, c, m)
          BY <3>2, <4>1, NodeFacts
        <4>4. \A k \in G : k <= Last(L, c, j) \/ First(L, c, m) <= k
          BY <3>2, <4>1, NodeFacts DEF IsChain, AreRuns
        <4>. QED  BY <4>2, <4>3, <4>4
      <3>. QED  BY <3>3, <3>4
    <2>2. CASE j # L.prior[i]
      <3>1. M.next[j] = L.next[j] /\ L.next[j] # i
        BY <1>4, <2>2
      <3>. QED  BY <3>1, NextFacts DEF IsChain, NextOK
    <2>. QED  BY <2>1, <2>2
  <1>8. PriorOK(M, c, G)
    <2>. SUFFICES ASSUME NEW j \in In(M)
         PROVE IF M.prior[j] = -1 THEN \A k \in G : First(M, c, j) <= k
               ELSE M.prior[j] \in In(M) /\ M.next[M.prior[j]] = j
      BY DEF PriorOK
    <2>1. CASE j = L.next[i]
      <3>1. L.prior[j] = i /\ o < First(L, c, j) /\ \A k \in H : k <= o \/ First(L, c, j) <= k
        BY <1>1, <2>1, ListConstants, NextFacts, NextThenPrior
      <3>2. CASE L.prior[i] = -1
        <4>1. \A k \in H : o <= k
          BY <1>1, <3>2 DEF IsChain, PriorOK
        <4>. QED  BY <2>1, <3>1, <3>2, <4>1 DEF IsChain, AreRuns
      <3>3. CASE L.prior[i] # -1
        <4>1. L.prior[i] \in In(L) /\ L.next[L.prior[i]] = i /\ L.prior[i] # i
          BY <3>3, ListConstants, NextFacts DEF IsChain, PriorOK
        <4>. QED  BY <2>1, <3>3, <4>1
      <3>. QED  BY <3>2, <3>3
    <2>2. CASE j # L.next[i]
      <3>1. M.prior[j] = L.prior[j] /\ L.prior[j] # i
        BY <1>5, <2>2
      <3>2. L.prior[j] # L.prior[i] \/ L.prior[j] = -1
        BY <3>1 DEF IsChain, PriorOK
      <3>. QED  BY <3>1, <3>2 DEF IsChain, PriorOK
    <2>. QED  BY <2>1, <2>2
  <1>. QED  BY <1>1, <1>2, <1>3, <1>6, <1>7, <1>8 DEF IsChain

(* A node loses its first number: what is left moves one place on.         *)
LEMMA ChainShift ==
    ASSUME NEW L, NEW M, NEW c, NEW H, IsChain(L, c, H), NEW i \in In(L),
           First(L, c, i) < Last(L, c, i),
           NEW j \in Nodes, Apart(j, i, 1),
           In(M) = (In(L) \ {i}) \cup {j},
           First(M, c, j) = First(L, c, i) + 1, Last(M, c, j) = Last(L, c, i),
           M.next[j] = L.next[i], M.prior[j] = L.prior[i],
           \A m \in In(L) \ {i} :
                /\ First(M, c, m) = First(L, c, m) /\ Last(M, c, m) = Last(L, c, m)
                /\ M.next[m] = IF m = L.prior[i] THEN j ELSE L.next[m]
                /\ M.prior[m] = IF m = L.next[i] THEN j ELSE L.prior[m],
           M.head = IF L.head = i THEN j ELSE L.head,
           M.tail = IF L.tail = i THEN j ELSE L.tail
    PROVE  IsChain(M, c, H \ {First(L, c, i)})
  <1>1. PICK o \in 0..(LossListSize - 2) : o = First(L, c, i)
    BY NodeFacts
  <1>2. PICK l \in 0..(LossListSize - 2) : l = Last(L, c, i) /\ o < l
    BY <1>1, NodeFacts
  <1>3. /\ o \in H /\ o - 1 \notin H /\ l \in H /\ l + 1 \notin H
        /\ \A k \in Int : o <= k /\ k <= l => k \in H
    BY <1>1, <1>2, NodeFacts
  <1>. DEFINE G == H \ {o}
  <1>4. j \notin In(L)
    <2>. SUFFICES ASSUME j \in In(L) PROVE FALSE
      OBVIOUS
    <2>0. o + 1 \in 0..(LossListSize - 2) /\ (o + 1) - o = 1
      BY <1>2, ListConstants
    <2>1. Apart(j, i, (o + 1) - First(L, c, i))
      BY <1>1, <2>0
    <2>2. First(L, c, j) = o + 1
      BY <2>0, <2>1, PlaceIsFree
    <2>3. First(L, c, j) - 1 \notin H
      BY NodeFacts
    <2>. QED  BY <1>3, <2>2, <2>3
  <1>5. \A m \in In(L) \ {i} : ~(\E k \in o..l : First(L, c, m) <= k /\ k <= Last(L, c, m))
    BY <1>1, <1>2, NodesDisjoint
  <1>6. AreRuns(M, c, G)
    <2>1. G \subseteq 0..(LossListSize - 2)
      BY DEF IsChain, AreRuns
    <2>2. ASSUME NEW m \in In(M)
          PROVE  /\ First(M, c, m) \in Int /\ Last(M, c, m) \in Int
                 /\ First(M, c, m) <= Last(M, c, m)
                 /\ First(M, c, m) - 1 \notin G /\ Last(M, c, m) + 1 \notin G
                 /\ \A k \in Int : First(M, c, m) <= k /\ k <= Last(M, c, m) => k \in G
      <3>1. CASE m = j
        BY <1>1, <1>2, <1>3, <3>1
      <3>2. CASE m \in In(L) \ {i}
        <4>1. ~(First(L, c, m) <= o /\ o <= Last(L, c, m))
          BY <1>2, <1>5, <3>2
        <4>. QED  BY <3>2, <4>1, NodeFacts
      <3>. QED  BY <3>1, <3>2
    <2>3. ASSUME NEW k \in G
          PROVE  \E m \in In(M) : First(M, c, m) <= k /\ k <= Last(M, c, m)
      <3>1. PICK m \in In(L) : First(L, c, m) <= k /\ k <= Last(L, c, m)
        BY DEF IsChain, AreRuns
      <3>2. CASE m = i
        BY <1>1, <1>2, <2>1, <3>1, <3>2
      <3>3. CASE m # i
        BY <3>1, <3>3
      <3>. QED  BY <3>2, <3>3
    <2>. QED  BY <2>1, <2>2, <2>3 DEF AreRuns
  <1>7. AreInPlace(M, c)
    <2>1. Apart(i, j, -1)
      BY ApartBack, ListConstants
    <2>2. ASSUME NEW m \in In(L) \ {i}
          PROVE  /\ Apart(m, j, First(L, c, m) - (o + 1))
                 /\ Apart(j, m, (o + 1) - First(L, c, m))
      <3>1. PICK f \in 0..(LossListSize - 2) : f = First(L, c, m)
        BY NodeFacts
      <3>2. Apart(m, i, f - o) /\ Apart(i, m, o - f)
        BY <1>1, <3>1 DEF IsChain, AreInPlace
      <3>3. Apart(m, j, (f - o) + (-1)) /\ Apart(j, m, 1 + (o - f))
        BY <2>1, <3>2, ApartAdd, ListConstants
      <3>4. (f - o) + (-1) = f - (o + 1) /\ 1 + (o - f) = (o + 1) - f
        OBVIOUS
      <3>. QED  BY <3>1, <3>3, <3>4
    <2>3. Apart(j, j, (o + 1) - (o + 1))
      BY ListConstants DEF Apart
    <2>4. ASSUME NEW m \in In(L) \ {i}, NEW q \in In(L) \ {i}
          PROVE  Apart(m, q, First(L, c, m) - First(L, c, q))
      BY DEF IsChain, AreInPlace
    <2>. QED  BY <1>1, <2>2, <2>3, <2>4 DEF AreInPlace
  <1>8. \A m \in In(L) : L.next[m] = i => L.prior[i] = m
    BY NextThenPrior, ListConstants
  <1>9. \A m \in In(L) : L.next[i] = m => L.prior[m] = i
    BY NextThenPrior, ListConstants
  <1>10. \A m \in In(L) : L.prior[m] = i => L.next[i] = m
    BY ListConstants DEF IsChain, PriorOK
  <1>11. i # -1 /\ j # -1 /\ \A m \in In(L) : m # -1
    BY ListConstants
  <1>12. EndsOK(M, G)
    <2>1. G # {} => M.head \in In(M) /\ M.tail \in In(M)
      BY DEF IsChain, EndsOK
    <2>2. \A m \in In(M) : M.next[m] = -1 <=> m = M.tail
      <3>1. M.next[j] = -1 <=> j = M.tail
        BY <1>3, <1>4 DEF IsChain, EndsOK
      <3>2. \A m \in In(L) \ {i} : M.next[m] = -1 <=> m = M.tail
        <4>. TAKE m \in In(L) \ {i}
        <4>1. CASE m = L.prior[i]
          <5>1. L.next[m] = i
            BY <1>11, <4>1 DEF IsChain, PriorOK
          <5>. QED  BY <1>4, <1>11, <4>1, <5>1 DEF IsChain, EndsOK
        <4>2. CASE m # L.prior[i]
          BY <1>4, <4>2 DEF IsChain, EndsOK
        <4>. QED  BY <4>1, <4>2
      <3>. QED  BY <3>1, <3>2
    <2>3. \A m \in In(M) : M.prior[m] = -1 <=> m = M.head
      <3>1. M.prior[j] = -1 <=> j = M.head
        BY <1>3, <1>4 DEF IsChain, EndsOK
      <3>2. \A m \in In(L) \ {i} : M.prior[m] = -1 <=> m = M.head
        <4>. TAKE m \in In(L) \ {i}
        <4>1. CASE m = L.next[i]
          <5>1. L.prior[m] = i
            BY <1>9, <4>1
          <5>. QED  BY <1>4, <1>11, <4>1, <5>1 DEF IsChain, EndsOK
        <4>2. CASE m # L.next[i]
          BY <1>4, <4>2 DEF IsChain, EndsOK
        <4>. QED  BY <4>1, <4>2
      <3>. QED  BY <3>1, <3>2
    <2>. QED  BY <2>1, <2>2, <2>3 DEF EndsOK
  <1>13. NextOK(M, c, G)
    <2>. SUFFICES ASSUME NEW m \in In(M)
         PROVE IF M.next[m] = -1 THEN \A k \in G : k <= Last(M, c, m)
               ELSE /\ M.next[m] \in In(M) /\ Last(M, c, m) < First(M, c, M.next[m])
                    /\ \A k \in G : k <= Last(M, c, m) \/ First(M, c, M.next[m]) <= k
      BY DEF NextOK
    <2>1. CASE m = j
      <3>1. CASE L.next[i] = -1
        BY <2>1, <3>1 DEF IsChain, NextOK
      <3>2. CASE L.next[i] # -1
        BY <2>1, <3>2, NextFacts
      <3>. QED  BY <3>1, <3>2
    <2>2. CASE m \in In(L) \ {i} /\ m = L.prior[i]
      <3>1. L.next[m] = i
        BY <1>11, <2>2 DEF IsChain, PriorOK
      <3>2. Last(L, c, m) < o /\ \A k \in H : k <= Last(L, c, m) \/ o <= k
        BY <1>1, <1>11, <2>2, <3>1, NextFacts
      <3>3. M.next[m] = j /\ Last(M, c, m) = Last(L, c, m) /\ First(M, c, j) = o + 1
        BY <1>1, <2>2
      <3>4. \A k \in G : k <= Last(L, c, m) \/ o + 1 <= k
        BY <3>2 DEF IsChain, AreRuns
      <3>5. Last(L, c, m) < o + 1
        BY <2>2, <3>2, NodeFacts
      <3>. QED  BY <1>11, <3>3, <3>4, <3>5
    <2>3. CASE m \in In(L) \ {i} /\ m # L.prior[i]
      <3>1. M.next[m] = L.next[m] /\ L.next[m] # i
        BY <1>8, <2>3
      <3>. QED  BY <2>3, <3>1, NextFacts DEF IsChain, NextOK
    <2>. QED  BY <2>1, <2>2, <2>3
  <1>14. PriorOK(M, c, G)
    <2>. SUFFICES ASSUME NEW m \in In(M)
         PROVE IF M.prior[m] = -1 THEN \A k \in G : First(M, c, m) <= k
               ELSE M.prior[m] \in In(M) /\ M.next[M.prior[m]] = m
      BY DEF PriorOK
    <2>1. CASE m = j
      <3>1. CASE L.prior[i] = -1
        <4>1. \A k \in H : o <= k
          BY <1>1, <3>1 DEF IsChain, PriorOK
        <4>2. \A k \in G : o + 1 <= k
          BY <4>1 DEF IsChain, AreRuns
        <4>. QED  BY <1>1, <2>1, <3>1, <4>2
      <3>2. CASE L.prior[i] # -1
        <4>1. L.prior[i] \in In(L) /\ L.next[L.prior[i]] = i /\ L.prior[i] # i
          BY <3>2, <1>11, NextFacts DEF IsChain, PriorOK
        <4>. QED  BY <2>1, <3>2, <4>1
      <3>. QED  BY <3>1, <3>2
    <2>2. CASE m \in In(L) \ {i} /\ m = L.next[i]
      BY <1>11, <2>2
    <2>3. CASE m \in In(L) \ {i} /\ m # L.next[i]
      <3>1. M.prior[m] = L.prior[m] /\ L.prior[m] # i
        BY <1>10, <2>3
      <3>2. L.prior[m] # L.prior[i] \/ L.prior[m] = -1
        BY <2>3 DEF IsChain, PriorOK
      <3>. QED  BY <2>3, <3>1, <3>2 DEF IsChain, PriorOK
    <2>. QED  BY <2>1, <2>2, <2>3
  <1>. QED  BY <1>1, <1>6, <1>7, <1>12, <1>13, <1>14 DEF IsChain

(* A node loses its last number.                                           *)
LEMMA ChainCut ==
    ASSUME NEW L, NEW M, NEW c, NEW H, IsChain(L, c, H), NEW i \in In(L),
           First(L, c, i) < Last(L, c, i),
           In(M) = In(L), Last(M, c, i) = Last(L, c, i) - 1,
           \A m \in In(L) : /\ First(M, c, m) = First(L, c, m)
                            /\ m # i => Last(M, c, m) = Last(L, c, m)
                            /\ M.next[m] = L.next[m] /\ M.prior[m] = L.prior[m],
           M.head = L.head, M.tail = L.tail
    PROVE  IsChain(M, c, H \ {Last(L, c, i)})
  <1>1. PICK f, o \in 0..(LossListSize - 2) :
            f = First(L, c, i) /\ o = Last(L, c, i) /\ f < o
    BY NodeFacts
  <1>2. f \in H /\ f - 1 \notin H /\ \A k \in Int : f <= k /\ k <= o => k \in H
    BY <1>1, NodeFacts
  <1>. DEFINE G == H \ {o}
  <1>3. \A m \in In(L) \ {i} : ~(First(L, c, m) <= o /\ o <= Last(L, c, m))
    BY <1>1, NodesDisjoint
  <1>4. AreRuns(M, c, G)
    <2>1. G \subseteq 0..(LossListSize - 2)
      BY DEF IsChain, AreRuns
    <2>2. ASSUME NEW m \in In(M)
          PROVE  /\ First(M, c, m) \in Int /\ Last(M, c, m) \in Int
                 /\ First(M, c, m) <= Last(M, c, m)
                 /\ First(M, c, m) - 1 \notin G /\ Last(M, c, m) + 1 \notin G
                 /\ \A k \in Int : First(M, c, m) <= k /\ k <= Last(M, c, m) => k \in G
      <3>1. CASE m = i
        BY <1>1, <1>2, <3>1
      <3>2. CASE m \in In(L) \ {i}
        BY <1>3, <3>2, NodeFacts
      <3>. QED  BY <3>1, <3>2
    <2>3. ASSUME NEW k \in G
          PROVE  \E m \in In(M) : First(M, c, m) <= k /\ k <= Last(M, c, m)
      <3>1. PICK m \in In(L) : First(L, c, m) <= k /\ k <= Last(L, c, m)
        BY DEF IsChain, AreRuns
      <3>2. CASE m = i
        BY <1>1, <2>1, <3>1, <3>2
      <3>3. CASE m # i
        BY <3>1, <3>3
      <3>. QED  BY <3>2, <3>3
    <2>. QED  BY <2>1, <2>2, <2>3 DEF AreRuns
  <1>5. AreInPlace(M, c)
    BY DEF IsChain, AreInPlace
  <1>6. EndsOK(M, G)
    BY DEF IsChain, EndsOK
  <1>7. NextOK(M, c, G)
    <2>. SUFFICES ASSUME NEW m \in In(M)
         PROVE IF M.next[m] = -1 THEN \A k \in G : k <= Last(M, c, m)
               ELSE /\ M.next[m] \in In(M) /\ Last(M, c, m) < First(M, c, M.next[m])
                    /\ \A k \in G : k <= Last(M, c, m) \/ First(M, c, M.next[m]) <= k
      BY DEF NextOK
    <2>1. CASE m # i
      BY <2>1, NextFacts DEF IsChain, NextOK
    <2>2. CASE m = i /\ L.next[i] = -1
      <3>1. \A k \in H : k <= o
        BY <1>1, <2>2 DEF IsChain, NextOK
      <3>2. \A k \in G : k <= o - 1
        BY <3>1 DEF IsChain, AreRuns
      <3>. QED  BY <1>1, <2>2, <3>2
    <2>3. CASE m = i /\ L.next[i] # -1
      <3>1. PICK q \in In(L) : q = L.next[i] /\ o < First(L, c, q)
                /\ \A k \in H : k <= o \/ First(L, c, q) <= k
        BY <1>1, <2>3, NextFacts
      <3>2. \A k \in G : k <= o - 1 \/ First(L, c, q) <= k
        BY <3>1 DEF IsChain, AreRuns
      <3>3. o - 1 < First(L, c, q)
        BY <3>1, NodeFacts
      <3>. QED  BY <1>1, <2>3, <3>1, <3>2, <3>3
    <2>. QED  BY <2>1, <2>2, <2>3
  <1>8. PriorOK(M, c, G)
    BY DEF IsChain, PriorOK
  <1>. QED  BY <1>1, <1>4, <1>5, <1>6, <1>7, <1>8 DEF IsChain

(* A node loses a number from its middle: what follows it becomes a node.  *)
LEMMA ChainSplit ==
    ASSUME NEW L, NEW M, NEW c, NEW H, IsChain(L, c, H), NEW i \in In(L),
           NEW o \in Int, First(L, c, i) < o, o < Last(L, c, i),
           NEW j \in Nodes, Apart(j, i, (o + 1) - First(L, c, i)),
           In(M) = In(L) \cup {j},
           First(M, c, j) = o + 1, Last(M, c, j) = Last(L, c, i), Last(M, c, i) = o - 1,
           M.next[j] = L.next[i], M.prior[j] = i,
           \A m \in In(L) :
                /\ First(M, c, m) = First(L, c, m)
                /\ m # i => Last(M, c, m) = Last(L, c, m)
                /\ M.next[m] = IF m = i THEN j ELSE L.next[m]
                /\ M.prior[m] = IF m = L.next[i] THEN j ELSE L.prior[m],
           M.head = L.head,
           M.tail = IF L.tail = i THEN j ELSE L.tail
    PROVE  IsChain(M, c, H \ {o})
  <1>1. PICK f, l \in 0..(LossListSize - 2) :
            f = First(L, c, i) /\ l = Last(L, c, i) /\ f < o /\ o < l
    BY NodeFacts
  <1>2. /\ f \in H /\ f - 1 \notin H /\ l \in H /\ l + 1 \notin H
        /\ \A k \in Int : f <= k /\ k <= l => k \in H
    BY <1>1, NodeFacts
  <1>3. o \in 0..(LossListSize - 2) /\ o + 1 \in 0..(LossListSize - 2)
    BY <1>1, ListConstants
  <1>. DEFINE G == H \ {o}
  <1>4. j \notin In(L)
    <2>. SUFFICES ASSUME j \in In(L) PROVE FALSE
      OBVIOUS
    <2>1. First(L, c, j) = o + 1
      BY <1>3, PlaceIsFree
    <2>2. First(L, c, j) - 1 \notin H
      BY NodeFacts
    <2>. QED  BY <1>1, <1>2, <1>3, <2>1, <2>2
  <1>5. \A m \in In(L) \ {i} : ~(\E k \in f..l : First(L, c, m) <= k /\ k <= Last(L, c, m))
    BY <1>1, NodesDisjoint
  <1>6. AreRuns(M, c, G)
    <2>1. G \subseteq 0..(LossListSize - 2)
      BY DEF IsChain, AreRuns
    <2>2. ASSUME NEW m \in In(M)
          PROVE  /\ First(M, c, m) \in Int /\ Last(M, c, m) \in Int
                 /\ First(M, c, m) <= Last(M, c, m)
                 /\ First(M, c, m) - 1 \notin G /\ Last(M, c, m) + 1 \notin G
                 /\ \A k \in Int : First(M, c, m) <= k /\ k <= Last(M, c, m) => k \in G
      <3>1. CASE m = j
        BY <1>1, <1>2, <3>1
      <3>2. CASE m = i
        BY <1>1, <1>2, <3>2
      <3>3. CASE m \in In(L) \ {i}
        <4>1. ~(First(L, c, m) <= o /\ o <= Last(L, c, m))
          BY <1>1, <1>5, <3>3
        <4>. QED  BY <3>3, <4>1, NodeFacts
      <3>. QED  BY <3>1, <3>2, <3>3
    <2>3. ASSUME NEW k \in G
          PROVE  \E m \in In(M) : First(M, c, m) <= k /\ k <= Last(M, c, m)
      <3>1. PICK m \in In(L) : First(L, c, m) <= k /\ k <= Last(L, c, m)
        BY DEF IsChain, AreRuns
      <3>2. CASE m = i /\ k < o
        BY <1>1, <2>1, <3>1, <3>2
      <3>3. CASE m = i /\ k > o
        BY <1>1, <2>1, <3>1, <3>3
      <3>4. CASE m # i
        BY <3>1, <3>4
      <3>5. k < o \/ k > o
        BY <1>1, <2>1
      <3>. QED  BY <3>2, <3>3, <3>4, <3>5
    <2>. QED  BY <2>1, <2>2, <2>3 DEF AreRuns
  <1>7. AreInPlace(M, c)
    <2>1. Apart(i, j, -((o + 1) - f))
      BY <1>1, <1>3, ApartBack, ListConstants
    <2>2. ASSUME NEW m \in In(L)
          PROVE  /\ Apart(m, j, First(L, c, m) - (o + 1))
                 /\ Apart(j, m, (o + 1) - First(L, c, m))
      <3>1. PICK x \in 0..(LossListSize - 2) : x = First(L, c, m)
        BY NodeFacts
      <3>2. Apart(m, i, x - f) /\ Apart(i, m, f - x)
        BY <1>1, <3>1 DEF IsChain, AreInPlace
      <3>3. /\ (x - f) + (-((o + 1) - f)) = x - (o + 1)
            /\ ((o + 1) - f) + (f - x) = (o + 1) - x
            /\ x - f \in Int /\ f - x \in Int /\ (o + 1) - f \in Int /\ -((o + 1) - f) \in Int
        OBVIOUS
      <3>7. /\ -LossListSize < x - (o + 1) /\ x - (o + 1) < LossListSize
            /\ -LossListSize < (o + 1) - x /\ (o + 1) - x < LossListSize
        BY <1>3, ListConstants
      <3>4. Apart(j, i, (o + 1) - f)
        BY <1>1
      <3>5. Apart(m, j, (x - f) + (-((o + 1) - f)))
        BY <2>1, <3>2, <3>3, <3>7, ApartAdd, ListConstants
      <3>6. Apart(j, m, ((o + 1) - f) + (f - x))
        BY <3>2, <3>3, <3>4, <3>7, ApartAdd, ListConstants
      <3>. QED  BY <3>1, <3>3, <3>5, <3>6
    <2>3. Apart(j, j, (o + 1) - (o + 1))
      BY <1>3, ListConstants DEF Apart
    <2>4. ASSUME NEW m \in In(L), NEW q \in In(L)
          PROVE  Apart(m, q, First(L, c, m) - First(L, c, q))
      BY DEF IsChain, AreInPlace
    <2>. QED  BY <2>2, <2>3, <2>4 DEF AreInPlace
  <1>8. \A m \in In(L) : L.next[i] = m => L.prior[m] = i
    BY NextThenPrior, ListConstants
  <1>9. i # -1 /\ j # -1 /\ \A m \in In(L) : m # -1
    BY ListConstants
  <1>10. EndsOK(M, G)
    <2>1. G # {} => M.head \in In(M) /\ M.tail \in In(M)
      BY DEF IsChain, EndsOK
    <2>2. \A m \in In(M) : M.next[m] = -1 <=> m = M.tail
      BY <1>2, <1>4, <1>9 DEF IsChain, EndsOK
    <2>3. M.prior[j] = -1 <=> j = M.head
      BY <1>2, <1>4, <1>9 DEF IsChain, EndsOK
    <2>4. \A m \in In(L) : M.prior[m] = -1 <=> m = M.head
      <3>. TAKE m \in In(L)
      <3>1. CASE m = L.next[i]
        BY <1>8, <1>9, <3>1 DEF IsChain, EndsOK
      <3>2. CASE m # L.next[i]
        BY <3>2 DEF IsChain, EndsOK
      <3>. QED  BY <3>1, <3>2
    <2>. QED  BY <2>1, <2>2, <2>3, <2>4 DEF EndsOK
  <1>11. NextOK(M, c, G)
    <2>. SUFFICES ASSUME NEW m \in In(M)
         PROVE IF M.next[m] = -1 THEN \A k \in G : k <= Last(M, c, m)
               ELSE /\ M.next[m] \in In(M) /\ Last(M, c, m) < First(M, c, M.next[m])
                    /\ \A k \in G : k <= Last(M, c, m) \/ First(M, c, M.next[m]) <= k
      BY DEF NextOK
    <2>1. CASE m = j
      <3>1. CASE L.next[i] = -1
        BY <2>1, <3>1 DEF IsChain, NextOK
      <3>2. CASE L.next[i] # -1
        BY <2>1, <3>2, NextFacts
      <3>. QED  BY <3>1, <3>2
    <2>2. CASE m = i
      <3>1. \A k \in G : k <= o - 1 \/ o + 1 <= k
        BY <1>1 DEF IsChain, AreRuns
      <3>. QED  BY <1>1, <1>9, <2>2, <3>1
    <2>3. CASE m \in In(L) \ {i}
      BY <2>3, NextFacts DEF IsChain, NextOK
    <2>. QED  BY <2>1, <2>2, <2>3
  <1>12. PriorOK(M, c, G)
    <2>. SUFFICES ASSUME NEW m \in In(M)
         PROVE IF M.prior[m] = -1 THEN \A k \in G : First(M, c, m) <= k
               ELSE M.prior[m] \in In(M) /\ M.next[M.prior[m]] = m
      BY DEF PriorOK
    <2>1. CASE m = j
      BY <1>9, <2>1
    <2>2. CASE m \in In(L) /\ m = L.next[i]
      BY <1>4, <1>9, <2>2
    <2>3. CASE m \in In(L) /\ m # L.next[i]
      <3>1. M.prior[m] = L.prior[m]
        BY <2>3
      <3>2. L.prior[m] # i
        BY <1>9, <2>3 DEF IsChain, PriorOK
      <3>. QED  BY <2>3, <3>1, <3>2 DEF IsChain, PriorOK
    <2>. QED  BY <2>1, <2>2, <2>3
  <1>. QED  BY <1>6, <1>7, <1>10, <1>11, <1>12 DEF IsChain

(* Numbers are added after all the others, and apart from them.            *)
LEMMA ChainAppend ==
    ASSUME NEW L, NEW M, NEW c, NEW H, IsChain(L, c, H), H # {},
           NEW u \in Int, NEW v \in Int, u <= v, v <= LossListSize - 2,
           \A k \in H : k < u - 1,
           NEW j \in Nodes, Apart(j, L.head, u - First(L, c, L.head)),
           In(M) = In(L) \cup {j},
           First(M, c, j) = u, Last(M, c, j) = v, M.next[j] = -1, M.prior[j] = L.tail,
           \A m \in In(L) : j # m =>
                /\ First(M, c, m) = First(L, c, m) /\ Last(M, c, m) = Last(L, c, m)
                /\ M.next[m] = IF m = L.tail THEN j ELSE L.next[m]
                /\ M.prior[m] = L.prior[m],
           M.head = L.head, M.tail = j
    PROVE  j \notin In(L) /\ IsChain(M, c, H \cup u..v)
  <1>. DEFINE G == H \cup u..v
              t == L.tail
              h == L.head
  <1>1. t \in In(L) /\ h \in In(L) /\ L.next[t] = -1 /\ L.prior[h] = -1
    BY DEF IsChain, EndsOK
  <1>2. PICK f \in 0..(LossListSize - 2) : f = First(L, c, h) /\ f \in H /\ f < u - 1
    BY <1>1, NodeFacts
  <1>3. u \in 0..(LossListSize - 2) /\ v \in 0..(LossListSize - 2)
    BY <1>2, ListConstants
  <1>4. j \notin In(L)
    <2>. SUFFICES ASSUME j \in In(L) PROVE FALSE
      OBVIOUS
    <2>1. First(L, c, j) = u
      BY <1>1, <1>3, PlaceIsFree
    <2>2. First(L, c, j) \in H
      BY NodeFacts
    <2>. QED  BY <2>1, <2>2
  <1>5. AreRuns(M, c, G)
    <2>1. G \subseteq 0..(LossListSize - 2)
      <3>1. H \subseteq 0..(LossListSize - 2)
        BY DEF IsChain, AreRuns
      <3>2. u..v \subseteq 0..(LossListSize - 2)
        BY <1>3, ListConstants
      <3>. QED  BY <3>1, <3>2
    <2>2. ASSUME NEW m \in In(M)
          PROVE  /\ First(M, c, m) \in Int /\ Last(M, c, m) \in Int
                 /\ First(M, c, m) <= Last(M, c, m)
                 /\ First(M, c, m) - 1 \notin G /\ Last(M, c, m) + 1 \notin G
                 /\ \A k \in Int : First(M, c, m) <= k /\ k <= Last(M, c, m) => k \in G
      <3>1. CASE m = j
        BY <1>3, <3>1
      <3>2. CASE m \in In(L)
        <4>1. First(L, c, m) \in H /\ Last(L, c, m) \in H /\ Last(L, c, m) < u - 1
          BY <3>2, NodeFacts
        <4>. QED  BY <1>4, <3>2, <4>1, NodeFacts
      <3>. QED  BY <3>1, <3>2
    <2>3. ASSUME NEW k \in G
          PROVE  \E m \in In(M) : First(M, c, m) <= k /\ k <= Last(M, c, m)
      <3>1. CASE k \in H
        <4>1. PICK m \in In(L) : First(L, c, m) <= k /\ k <= Last(L, c, m)
          BY <3>1 DEF IsChain, AreRuns
        <4>. QED  BY <1>4, <4>1
      <3>2. CASE k \in u..v
        BY <3>2
      <3>. QED  BY <3>1, <3>2
    <2>. QED  BY <2>1, <2>2, <2>3 DEF AreRuns
  <1>6. AreInPlace(M, c)
    <2>1. Apart(h, j, -(u - f))
      BY <1>1, <1>2, <1>3, ApartBack, ListConstants
    <2>2. ASSUME NEW m \in In(L)
          PROVE  Apart(m, j, First(L, c, m) - u) /\ Apart(j, m, u - First(L, c, m))
      <3>1. PICK x \in 0..(LossListSize - 2) : x = First(L, c, m)
        BY NodeFacts
      <3>2. Apart(m, h, x - f) /\ Apart(h, m, f - x)
        BY <1>1, <1>2, <3>1 DEF IsChain, AreInPlace
      <3>3. /\ (x - f) + (-(u - f)) = x - u /\ (u - f) + (f - x) = u - x
            /\ x - f \in Int /\ f - x \in Int /\ u - f \in Int /\ -(u - f) \in Int
        OBVIOUS
      <3>7. /\ -LossListSize < x - u /\ x - u < LossListSize
            /\ -LossListSize < u - x /\ u - x < LossListSize
        BY <1>3, ListConstants
      <3>4. Apart(j, h, u - f)
        BY <1>2
      <3>5. Apart(m, j, (x - f) + (-(u - f)))
        BY <1>1, <2>1, <3>2, <3>3, <3>7, ApartAdd, ListConstants
      <3>6. Apart(j, m, (u - f) + (f - x))
        BY <1>1, <3>2, <3>3, <3>4, <3>7, ApartAdd, ListConstants
      <3>. QED  BY <3>1, <3>3, <3>5, <3>6
    <2>3. Apart(j, j, u - u)
      BY <1>3, ListConstants DEF Apart
    <2>4. ASSUME NEW m \in In(L), NEW q \in In(L)
          PROVE  Apart(m, q, First(L, c, m) - First(L, c, q))
      BY DEF IsChain, AreInPlace
    <2>. QED  BY <1>4, <2>2, <2>3, <2>4 DEF AreInPlace
  <1>7. j # -1 /\ \A m \in In(L) : m # -1
    BY ListConstants
  <1>8. EndsOK(M, G)
    BY <1>1, <1>4, <1>7 DEF IsChain, EndsOK
  <1>9. NextOK(M, c, G)
    <2>. SUFFICES ASSUME NEW m \in In(M)
         PROVE IF M.next[m] = -1 THEN \A k \in G : k <= Last(M, c, m)
               ELSE /\ M.next[m] \in In(M) /\ Last(M, c, m) < First(M, c, M.next[m])
                    /\ \A k \in G : k <= Last(M, c, m) \/ First(M, c, M.next[m]) <= k
      BY DEF NextOK
    <2>1. CASE m = j
      BY <1>2, <1>3, <2>1 DEF IsChain, AreRuns
    <2>2. CASE m \in In(L) /\ m = t
      <3>1. \A k \in H : k <= Last(L, c, t)
        BY <1>1 DEF IsChain, NextOK
      <3>2. Last(L, c, t) < u
        BY <1>1, NodeFacts
      <3>. QED  BY <1>3, <1>4, <1>7, <2>2, <3>1, <3>2
    <2>3. CASE m \in In(L) /\ m # t
      <3>1. L.next[m] # -1
        BY <2>3 DEF IsChain, EndsOK
      <3>2. PICK q \in In(L) : q = L.next[m] /\ Last(L, c, m) < First(L, c, q)
               /\ (\A k \in H : k <= Last(L, c, m) \/ First(L, c, q) <= k) /\ First(L, c, q) < u
               /\ First(L, c, q) \in Int
        BY <2>3, <3>1, NextFacts, NodeFacts
      <3>. QED  BY <1>3, <1>4, <1>7, <2>3, <3>2
    <2>. QED  BY <2>1, <2>2, <2>3
  <1>10. PriorOK(M, c, G)
    <2>. SUFFICES ASSUME NEW m \in In(M)
         PROVE IF M.prior[m] = -1 THEN \A k \in G : First(M, c, m) <= k
               ELSE M.prior[m] \in In(M) /\ M.next[M.prior[m]] = m
      BY DEF PriorOK
    <2>1. CASE m = j
      BY <1>1, <1>4, <1>7, <2>1
    <2>2. CASE m \in In(L) /\ L.prior[m] = -1
      <3>1. \A k \in H : First(L, c, m) <= k
        BY <2>2 DEF IsChain, PriorOK
      <3>. QED  BY <1>3, <1>4, <2>2, <3>1, NodeFacts
    <2>3. CASE m \in In(L) /\ L.prior[m] # -1
      <3>1. L.prior[m] \in In(L) /\ L.next[L.prior[m]] = m
        BY <2>3 DEF IsChain, PriorOK
      <3>. QED  BY <1>1, <1>4, <1>7, <2>3, <3>1
    <2>. QED  BY <2>1, <2>2, <2>3
  <1>. QED  BY <1>4, <1>5, <1>6, <1>8, <1>9, <1>10 DEF IsChain

LEMMA ChainFirst ==
    ASSUME NEW M, NEW c, NEW j \in Nodes,
           NEW u \in Int, NEW v \in Int, 0 <= u, u <= v, v <= LossListSize - 2,
           In(M) = {j}, First(M, c, j) = u, Last(M, c, j) = v,
           M.next[j] = -1, M.prior[j] = -1, M.head = j, M.tail = j
    PROVE  IsChain(M, c, u..v)
  <1>1. AreRuns(M, c, u..v)
    BY ListConstants DEF AreRuns
  <1>2. AreInPlace(M, c)
    BY ListConstants DEF AreInPlace, Apart
  <1>3. EndsOK(M, u..v) /\ NextOK(M, c, u..v) /\ PriorOK(M, c, u..v)
    BY DEF EndsOK, NextOK, PriorOK
  <1>. QED  BY <1>1, <1>2, <1>3 DEF IsChain

(* The distances are counted from a later number.                          *)
LEMMA ChainMove ==
    ASSUME NEW L, NEW c, NEW H, IsChain(L, c, H), NEW d \in Nat, NEW e,
           \A i \in In(L) : /\ First(L, e, i) = First(L, c, i) - d
                            /\ Last(L, e, i) = Last(L, c, i) - d,
           NEW G, \A k \in G : k \in Int /\ k + d \in H, \A k \in H : k - d \in G /\ d <= k
    PROVE  IsChain(L, e, G)
  <1>0. \A i \in In(L) : First(L, c, i) \in Int /\ Last(L, c, i) \in Int
    BY NodeFacts
  <1>1. AreRuns(L, e, G)
    <2>1. G \subseteq 0..(LossListSize - 2)
      BY ListConstants DEF IsChain, AreRuns
    <2>2. ASSUME NEW m \in In(L)
          PROVE  /\ First(L, e, m) \in Int /\ Last(L, e, m) \in Int
                 /\ First(L, e, m) <= Last(L, e, m)
                 /\ First(L, e, m) - 1 \notin G /\ Last(L, e, m) + 1 \notin G
                 /\ \A k \in Int : First(L, e, m) <= k /\ k <= Last(L, e, m) => k \in G
      <3>1. PICK f, l \in Int : f = First(L, c, m) /\ l = Last(L, c, m) /\ f <= l
                /\ f - 1 \notin H /\ l + 1 \notin H
                /\ \A k \in Int : f <= k /\ k <= l => k \in H
        BY NodeFacts
      <3>2. f - d - 1 \notin G /\ l - d + 1 \notin G
        BY <3>1
      <3>3. ASSUME NEW k \in Int, f - d <= k, k <= l - d PROVE k \in G
        <4>1. k + d \in H /\ (k + d) - d = k
          BY <3>1, <3>3
        <4>. QED  BY <4>1
      <3>. QED  BY <3>1, <3>2, <3>3
    <2>3. ASSUME NEW k \in G
          PROVE  \E m \in In(L) : First(L, e, m) <= k /\ k <= Last(L, e, m)
      <3>1. PICK m \in In(L) : First(L, c, m) <= k + d /\ k + d <= Last(L, c, m)
        BY DEF IsChain, AreRuns
      <3>. QED  BY <1>0, <3>1
    <2>. QED  BY <2>1, <2>2, <2>3 DEF AreRuns
  <1>2. AreInPlace(L, e)
    <2>1. \A i, j \in In(L) : First(L, e, i) - First(L, e, j) = First(L, c, i) - First(L, c, j)
      BY <1>0
    <2>. QED  BY <2>1 DEF IsChain, AreInPlace
  <1>3. EndsOK(L, G)
    BY DEF IsChain, EndsOK
  <1>4. NextOK(L, e, G)
    <2>1. ASSUME NEW i \in In(L), L.next[i] = -1 PROVE \A k \in G : k <= Last(L, e, i)
      BY <1>0, <2>1 DEF IsChain, NextOK
    <2>2. ASSUME NEW i \in In(L), L.next[i] # -1
          PROVE  /\ L.next[i] \in In(L) /\ Last(L, e, i) < First(L, e, L.next[i])
                 /\ \A k \in G : k <= Last(L, e, i) \/ First(L, e, L.next[i]) <= k
      <3>1. PICK q \in In(L) : q = L.next[i] /\ Last(L, c, i) < First(L, c, q)
               /\ \A k \in H : k <= Last(L, c, i) \/ First(L, c, q) <= k
        BY <2>2, NextFacts
      <3>. QED  BY <1>0, <3>1
    <2>. QED  BY <2>1, <2>2 DEF NextOK
  <1>5. PriorOK(L, e, G)
    BY <1>0 DEF IsChain, PriorOK
  <1>. QED  BY <1>1, <1>2, <1>3, <1>4, <1>5 DEF IsChain

-----------------------------------------------------------------------------
(***************************************************************************)
(* The operations of the loss list on sequence numbers.                    *)
(***************************************************************************)
LossLists ==
    [data1 : [Nodes -> SeqNos \cup {-1}], data2 : [Nodes -> SeqNos \cup {-1}],
     next : [Nodes -> Nodes \cup {-1, Unset}], prior : [Nodes -> Nodes \cup {-1, Unset}],
     head : Nodes \cup {-1}, tail : Nodes \cup {-1}, length : Int]

IsClear(L, i) == L.data2[i] = -1 /\ L.next[i] = Unset /\ L.prior[i] = Unset

IsList(L, c, H) ==
    /\ L \in LossLists
    /\ H \subseteq 0..(RcvBufSize - 2)
    /\ IsChain(L, c, H)
    /\ \A i \in Nodes \ In(L) : IsClear(L, i)
    /\ \A i \in In(L) : L.data2[i] = -1 \/ First(L, c, i) < Last(L, c, i)

(* The numbers after c, as far as the ring reaches.                        *)
LEMMA DistanceOfShift ==
    ASSUME NEW c \in SeqNos, NEW o \in (1 - RcvBufSize)..(RcvBufSize - 1)
    PROVE  Shift(c, o) \in SeqNos /\ SeqOff(c, Shift(c, o)) = o
  <1>1. /\ o \in Int /\ -SeqNoTH < o /\ o < SeqNoTH
        /\ -(MaxSeqNo + 1) <= o /\ o <= MaxSeqNo + 1
    BY ListConstants, SeqNoAssumption
  <1>2. Shift(c, o) \in SeqNos
    BY <1>1, ShiftIs
  <1>3. Shift(c, o) = Wrapped(c + o)
    BY <1>1, ShiftIs
  <1>4. SeqOff(c, Wrapped(c + o)) = o
    BY <1>1, SeqNoAssumption DEF SeqNos, Wrapped, SeqOff, Abs
  <1>. QED  BY <1>2, <1>3, <1>4

(* Numbers and distances of the nodes.                                     *)
LEMMA NodeNumbers ==
    ASSUME NEW c \in SeqNos, NEW L, NEW H, IsList(L, c, H), NEW i \in In(L)
    PROVE  /\ i \in Nodes
           /\ First(L, c, i) \in 0..(RcvBufSize - 2) /\ Last(L, c, i) \in 0..(RcvBufSize - 2)
           /\ First(L, c, i) \in H /\ Last(L, c, i) \in H
           /\ L.data1[i] = Shift(c, First(L, c, i)) /\ L.data1[i] \in SeqNos
           /\ L.data2[i] = -1 => First(L, c, i) = Last(L, c, i)
           /\ L.data2[i] # -1 => /\ L.data2[i] = Shift(c, Last(L, c, i)) /\ L.data2[i] \in SeqNos
                                 /\ First(L, c, i) < Last(L, c, i)
  <1>1. IsChain(L, c, H) /\ H \subseteq 0..(RcvBufSize - 2)
    BY DEF IsList
  <1>2. /\ First(L, c, i) \in H /\ Last(L, c, i) \in H
    BY <1>1, NodeFacts
  <1>3. i \in Nodes /\ L.data1[i] # -1
    BY DEF In
  <1>4. L.data1[i] \in SeqNos /\ L.data2[i] \in SeqNos \cup {-1}
    BY <1>3 DEF IsList, LossLists
  <1>5. L.data1[i] = Shift(c, First(L, c, i))
    BY <1>4, ShiftOff DEF First
  <1>6. L.data2[i] = -1 => First(L, c, i) = Last(L, c, i)
    BY DEF First, Last
  <1>7. L.data2[i] # -1 => L.data2[i] = Shift(c, Last(L, c, i)) /\ L.data2[i] \in SeqNos
    BY <1>4, ShiftOff DEF Last
  <1>8. L.data2[i] # -1 => First(L, c, i) < Last(L, c, i)
    BY DEF IsList
  <1>. QED  BY <1>1, <1>2, <1>3, <1>4, <1>5, <1>6, <1>7, <1>8

(* Where a number belongs.                                                 *)
LEMMA PlaceOfNumber ==
    ASSUME NEW c \in SeqNos, NEW L, NEW H, IsList(L, c, H), L.head \in In(L),
           NEW o \in 0..(RcvBufSize - 2)
    PROVE  /\ SeqOff(L.data1[L.head], Shift(c, o)) = o - First(L, c, L.head)
           /\ LossPos(L, Shift(c, o)) \in Nodes
           /\ Apart(LossPos(L, Shift(c, o)), L.head, o - First(L, c, L.head))
           /\ \A i \in In(L) : Apart(LossPos(L, Shift(c, o)), i, o - First(L, c, i))
  <1>1. PICK h : h = L.head /\ h \in In(L) /\ h \in Nodes
    BY NodeNumbers
  <1>2. PICK f \in 0..(RcvBufSize - 2) : f = First(L, c, h) /\ L.data1[h] = Shift(c, f)
    BY <1>1, NodeNumbers
  <1>3. SeqOff(L.data1[h], Shift(c, o)) = o - f
    <2>1. /\ f \in Int /\ o \in Int /\ -SeqNoTH <= f /\ f <= SeqNoTH /\ -SeqNoTH <= o /\ o <= SeqNoTH
          /\ -SeqNoTH < o - f /\ o - f < SeqNoTH
      BY ListConstants
    <2>. QED  BY <1>2, <2>1, OffShift
  <1>4. PICK m : m = LossPos(L, Shift(c, o)) /\ m = (h + (o - f)) % LossListSize
    BY <1>1, <1>3 DEF LossPos
  <1>5. m \in Nodes /\ Apart(m, h, o - f)
    <2>1. o - f \in Int /\ -LossListSize < o - f /\ o - f < LossListSize
      BY ListConstants
    <2>. QED  BY <1>1, <1>4, <2>1, ApartPlace
  <1>6. ASSUME NEW i \in In(L) PROVE Apart(m, i, o - First(L, c, i))
    <2>1. PICK x \in 0..(RcvBufSize - 2) : x = First(L, c, i) /\ i \in Nodes
      BY NodeNumbers
    <2>2. Apart(h, i, f - x)
      BY <1>1, <1>2, <2>1 DEF IsList, IsChain, AreInPlace
    <2>3. /\ (o - f) + (f - x) = o - x /\ o - f \in Int /\ f - x \in Int
          /\ -LossListSize < o - x /\ o - x < LossListSize
      BY ListConstants
    <2>4. Apart(m, i, (o - f) + (f - x))
      BY <1>1, <1>5, <2>1, <2>2, <2>3, ApartAdd
    <2>. QED  BY <2>1, <2>3, <2>4
  <1>. QED  BY <1>1, <1>2, <1>3, <1>4, <1>5, <1>6

(* What LossInsert puts into a node that is not in use.                    *)
Put(M, L, c, j, u, v) ==
    /\ M \in LossLists
    /\ M.data1 = [L.data1 EXCEPT ![j] = Shift(c, u)]
    /\ M.data2 = [L.data2 EXCEPT ![j] = IF u = v THEN @ ELSE Shift(c, v)]

LEMMA PutNode ==
    ASSUME NEW c \in SeqNos, NEW L, NEW H, L \in LossLists, NEW M, NEW j \in Nodes,
           NEW u \in 0..(RcvBufSize - 2), NEW v \in 0..(RcvBufSize - 2), u <= v,
           L.data2[j] = -1, Put(M, L, c, j, u, v)
    PROVE  /\ In(M) = In(L) \cup {j}
           /\ First(M, c, j) = u /\ Last(M, c, j) = v
           /\ M.data2[j] = -1 \/ u < v
           /\ \A m \in Nodes \ {j} : /\ M.data1[m] = L.data1[m] /\ M.data2[m] = L.data2[m]
                                     /\ First(M, c, m) = First(L, c, m)
                                     /\ Last(M, c, m) = Last(L, c, m)
  <1>1. /\ M.data1[j] = Shift(c, u) /\ M.data2[j] = IF u = v THEN -1 ELSE Shift(c, v)
        /\ \A m \in Nodes \ {j} : M.data1[m] = L.data1[m] /\ M.data2[m] = L.data2[m]
    BY DEF Put, LossLists
  <1>2. Shift(c, u) \in SeqNos /\ Shift(c, v) \in SeqNos
        /\ SeqOff(c, Shift(c, u)) = u /\ SeqOff(c, Shift(c, v)) = v
    <2>1. u \in (1 - RcvBufSize)..(RcvBufSize - 1) /\ v \in (1 - RcvBufSize)..(RcvBufSize - 1)
      BY ListConstants
    <2>. QED  BY <2>1, DistanceOfShift
  <1>. QED  BY <1>1, <1>2, ListConstants DEF In, First, Last

(* The fields of a node, written.                                          *)
WithNode(N, j, a, b, n) ==
    [N EXCEPT !.data1[j] = a, !.next[j] = -1, !.tail = j,
              !.data2[j] = IF b # a THEN b ELSE @, !.length = @ + n]

LEMMA PutFields ==
    ASSUME NEW N \in LossLists, NEW j \in Nodes, NEW a \in SeqNos, NEW b \in SeqNos,
           NEW n \in Int, NEW M, M = WithNode(N, j, a, b, n)
    PROVE  /\ M \in LossLists
           /\ M.data1 = [N.data1 EXCEPT ![j] = a] /\ M.next = [N.next EXCEPT ![j] = -1]
           /\ M.data2 = [N.data2 EXCEPT ![j] = IF a = b THEN @ ELSE b]
           /\ M.prior = N.prior
           /\ M.head = N.head /\ M.tail = j /\ M.length = N.length + n
  <1>1. /\ N.data1 \in [Nodes -> SeqNos \cup {-1}] /\ N.data2 \in [Nodes -> SeqNos \cup {-1}]
        /\ N.next \in [Nodes -> Nodes \cup {-1, Unset}]
        /\ N.prior \in [Nodes -> Nodes \cup {-1, Unset}]
        /\ N.head \in Nodes \cup {-1} /\ N.tail \in Nodes \cup {-1} /\ N.length \in Int
    BY DEF LossLists, WithNode
  <1>2. /\ M.data1 = [N.data1 EXCEPT ![j] = a] /\ M.next = [N.next EXCEPT ![j] = -1]
        /\ M.prior = N.prior /\ M.head = N.head /\ M.tail = j
    BY DEF LossLists, WithNode
  <1>3. M.length = N.length + n
    BY DEF LossLists, WithNode
  <1>4. M.data2 = [N.data2 EXCEPT ![j] = IF b # a THEN b ELSE @]
    BY DEF LossLists, WithNode
  <1>5. M = [data1 |-> M.data1, data2 |-> M.data2, next |-> M.next, prior |-> M.prior,
             head |-> M.head, tail |-> M.tail, length |-> M.length]
    BY DEF LossLists, WithNode
  <1>6. /\ M.data1 \in [Nodes -> SeqNos \cup {-1}] /\ M.data2 \in [Nodes -> SeqNos \cup {-1}]
        /\ M.next \in [Nodes -> Nodes \cup {-1, Unset}]
        /\ M.prior \in [Nodes -> Nodes \cup {-1, Unset}]
        /\ M.head \in Nodes \cup {-1} /\ M.tail \in Nodes \cup {-1} /\ M.length \in Int
    <2>1. M.data1 \in [Nodes -> SeqNos \cup {-1}]
      BY <1>1, <1>2
    <2>2. M.data2 \in [Nodes -> SeqNos \cup {-1}]
      BY <1>1, <1>4
    <2>3. M.next \in [Nodes -> Nodes \cup {-1, Unset}]
      BY <1>1, <1>2
    <2>4. M.length \in Int
      BY <1>1, <1>3
    <2>. QED  BY <1>1, <1>2, <2>1, <2>2, <2>3, <2>4
  <1>7. M \in LossLists
    BY <1>5, <1>6, Zenon DEF LossLists
  <1>. QED  BY <1>2, <1>3, <1>4, <1>7

(* insert (list.cpp) of a run after all others: whatever nodes are in use  *)
(* and wherever the arrays end, the list then holds the union.             *)
THEOREM InsertIsUnion ==
    ASSUME NEW c \in SeqNos, NEW L, NEW H, IsList(L, c, H), L.length = 0 <=> H = {},
           NEW u \in 0..(RcvBufSize - 2), NEW v \in 0..(RcvBufSize - 2), u <= v,
           \A k \in H : k < u - 1
    PROVE  LET M == LossInsert(L, Shift(c, u), Shift(c, v))
           IN  IsList(M, c, H \cup u..v) /\ M.length = L.length + (v - u + 1)
  <1>. DEFINE su == Shift(c, u)
              sv == Shift(c, v)
              M == LossInsert(L, su, sv)
  <1>1. L \in LossLists /\ IsChain(L, c, H)
    BY DEF IsList
  <1>2. su \in SeqNos /\ sv \in SeqNos /\ (su = sv <=> u = v) /\ SeqLen(su, sv) = v - u + 1
    <2>1. /\ -SeqNoTH <= u /\ u <= SeqNoTH /\ -SeqNoTH <= v /\ v <= SeqNoTH
          /\ -SeqNoTH < v - u /\ v - u < SeqNoTH /\ u \in Int /\ v \in Int
      BY ListConstants
    <2>2. u \in (1 - RcvBufSize)..(RcvBufSize - 1) /\ v \in (1 - RcvBufSize)..(RcvBufSize - 1)
      BY ListConstants
    <2>. QED  BY <2>1, <2>2, OffShift, DistanceOfShift
  <1>3. H \cup u..v \subseteq 0..(RcvBufSize - 2)
    BY ListConstants DEF IsList
  <1>4. CASE L.length = 0
    <2>. DEFINE N == [L EXCEPT !.head = 0, !.prior[0] = -1]
    <2>1. M = WithNode(N, 0, su, sv, SeqLen(su, sv))
      BY <1>4 DEF LossInsert, WithNode
    <2>2. 0 \in Nodes
      BY ListConstants
    <2>3. /\ N \in LossLists /\ N.data1 = L.data1 /\ N.data2 = L.data2 /\ N.next = L.next
          /\ N.head = 0 /\ N.length = L.length /\ N.prior = [L.prior EXCEPT ![0] = -1]
      BY <1>1, <2>2 DEF LossLists
    <2>. HIDE DEF N, su, sv, M
    <2>4. /\ M \in LossLists
          /\ M.data1 = [L.data1 EXCEPT ![0] = su]
          /\ M.data2 = [L.data2 EXCEPT ![0] = IF u = v THEN @ ELSE sv]
          /\ M.next = [L.next EXCEPT ![0] = -1] /\ M.prior = [L.prior EXCEPT ![0] = -1]
          /\ M.head = 0 /\ M.tail = 0 /\ M.length = L.length + (v - u + 1)
      <3>1. SeqLen(su, sv) \in Int /\ (u = v <=> su = sv)
        BY <1>2
      <3>2. /\ M \in LossLists
            /\ M.data1 = [N.data1 EXCEPT ![0] = su] /\ M.next = [N.next EXCEPT ![0] = -1]
            /\ M.data2 = [N.data2 EXCEPT ![0] = IF su = sv THEN @ ELSE sv]
            /\ M.prior = N.prior
            /\ M.head = N.head /\ M.tail = 0 /\ M.length = N.length + SeqLen(su, sv)
        <4>1. /\ N \in LossLists /\ su \in SeqNos /\ sv \in SeqNos
              /\ M = WithNode(N, 0, su, sv, SeqLen(su, sv))
          BY <1>2, <2>1, <2>3
        <4>. QED  BY <2>2, <3>1, <4>1, PutFields
      <3>. QED  BY <1>2, <2>1, <2>2, <2>3, <3>1, <3>2
    <2>5. In(L) = {} /\ H = {}
      BY <1>1, <1>4, NodeFacts
    <2>6. \A i \in Nodes : IsClear(L, i)
      BY <2>5 DEF IsList
    <2>7. Put(M, L, c, 0, u, v)
      BY <2>4 DEF Put, su, sv
    <2>8. L.data2[0] = -1
      BY <2>2, <2>6 DEF IsClear
    <2>9. /\ In(M) = In(L) \cup {0}
          /\ First(M, c, 0) = u /\ Last(M, c, 0) = v
          /\ M.data2[0] = -1 \/ u < v
          /\ \A m \in Nodes \ {0} : M.data2[m] = L.data2[m]
      BY <1>1, <2>2, <2>7, <2>8, PutNode
    <2>10. M.next[0] = -1 /\ M.prior[0] = -1
           /\ \A m \in Nodes \ {0} : M.next[m] = L.next[m] /\ M.prior[m] = L.prior[m]
      BY <1>1, <2>2, <2>4 DEF LossLists
    <2>11. IsChain(M, c, u..v)
      <3>1. In(M) = {0} /\ u \in Int /\ v \in Int /\ 0 <= u /\ v <= LossListSize - 2
        BY <2>5, <2>9, ListConstants
      <3>. QED  BY <2>2, <2>4, <2>9, <2>10, <3>1, ChainFirst
    <2>12. \A m \in Nodes \ In(M) : IsClear(M, m)
      BY <2>6, <2>9, <2>10 DEF IsClear
    <2>13. \A m \in In(M) : M.data2[m] = -1 \/ First(M, c, m) < Last(M, c, m)
      BY <2>5, <2>9
    <2>14. H \cup u..v = u..v
      BY <2>5
    <2>. QED  BY <1>3, <2>4, <2>11, <2>12, <2>13, <2>14 DEF IsList, M, su, sv
  <1>5. CASE L.length # 0
    <2>1. H # {} /\ L.head \in In(L) /\ L.tail \in In(L)
      BY <1>1, <1>5 DEF IsChain, EndsOK
    <2>2. ~(L.data2[L.tail] # -1 /\ IncSeq(L.data2[L.tail]) = su)
      <3>. SUFFICES ASSUME L.data2[L.tail] # -1, IncSeq(L.data2[L.tail]) = su PROVE FALSE
        OBVIOUS
      <3>1. PICK l \in 0..(RcvBufSize - 2) : L.data2[L.tail] = Shift(c, l) /\ l \in H
        BY <2>1, NodeNumbers
      <3>2. /\ l \in Int /\ l + 1 \in Int /\ -SeqNoTH <= l /\ l + 1 <= SeqNoTH /\ l <= SeqNoTH
            /\ -SeqNoTH <= l + 1 /\ -SeqNoTH <= u /\ u <= SeqNoTH /\ u \in Int
            /\ -SeqNoTH < u - (l + 1) /\ u - (l + 1) < SeqNoTH
        BY ListConstants
      <3>3. IncSeq(Shift(c, l)) = Shift(c, l + 1)
        BY <3>2, NextShift
      <3>4. u = l + 1
          <4>1. Shift(c, l + 1) = Shift(c, u) <=> l + 1 = u
          BY <3>2, OffShift
        <4>. QED  BY <3>1, <3>3, <4>1
      <3>. QED  BY <3>1, <3>4
    <2>3. PICK j : j = LossPos(L, su)
      OBVIOUS
    <2>4. /\ j \in Nodes /\ Apart(j, L.head, u - First(L, c, L.head))
      BY <2>1, <2>3, PlaceOfNumber
    <2>5. j \notin In(L)
      <3>. SUFFICES ASSUME j \in In(L) PROVE FALSE
        OBVIOUS
      <3>1. u \in 0..(LossListSize - 2)
        BY ListConstants
      <3>2. First(L, c, j) = u
        BY <1>1, <2>1, <2>4, <3>1, PlaceIsFree
      <3>3. First(L, c, j) \in H
        BY <1>1, NodeFacts
      <3>. QED  BY <3>2, <3>3
    <2>6. PICK t : t = L.tail /\ t \in In(L) /\ t \in Nodes /\ t # j
      BY <2>1, <2>5, ListConstants
    <2>. DEFINE N == [L EXCEPT !.next[t] = j, !.prior[j] = t]
    <2>7. M = WithNode(N, j, su, sv, SeqLen(su, sv))
      BY <1>5, <2>2, <2>3, <2>6 DEF LossInsert, WithNode
    <2>8. /\ N \in LossLists /\ N.data1 = L.data1 /\ N.data2 = L.data2
          /\ N.next = [L.next EXCEPT ![t] = j] /\ N.prior = [L.prior EXCEPT ![j] = t]
          /\ N.head = L.head /\ N.length = L.length
      BY <1>1, <2>4, <2>6 DEF LossLists
    <2>. HIDE DEF N, su, sv, M
    <2>9. /\ M \in LossLists
          /\ M.data1 = [L.data1 EXCEPT ![j] = su]
          /\ M.data2 = [L.data2 EXCEPT ![j] = IF u = v THEN @ ELSE sv]
          /\ M.next = [N.next EXCEPT ![j] = -1] /\ M.prior = N.prior
          /\ M.head = L.head /\ M.tail = j /\ M.length = L.length + (v - u + 1)
      <3>1. SeqLen(su, sv) \in Int /\ (u = v <=> su = sv)
        BY <1>2
      <3>2. /\ M \in LossLists
            /\ M.data1 = [N.data1 EXCEPT ![j] = su] /\ M.next = [N.next EXCEPT ![j] = -1]
            /\ M.data2 = [N.data2 EXCEPT ![j] = IF su = sv THEN @ ELSE sv]
            /\ M.prior = N.prior
            /\ M.head = N.head /\ M.tail = j /\ M.length = N.length + SeqLen(su, sv)
        <4>1. /\ N \in LossLists /\ su \in SeqNos /\ sv \in SeqNos /\ j \in Nodes
              /\ M = WithNode(N, j, su, sv, SeqLen(su, sv))
          BY <1>2, <2>4, <2>7, <2>8
        <4>. QED  BY <3>1, <4>1, PutFields
      <3>. QED  BY <1>2, <2>4, <2>7, <2>8, <3>1, <3>2
    <2>10. IsClear(L, j)
      BY <2>4, <2>5 DEF IsList
    <2>11. Put(M, L, c, j, u, v)
      BY <2>9 DEF Put, su, sv
    <2>12. /\ In(M) = In(L) \cup {j}
           /\ First(M, c, j) = u /\ Last(M, c, j) = v
           /\ M.data2[j] = -1 \/ u < v
           /\ \A m \in Nodes \ {j} : /\ M.data1[m] = L.data1[m] /\ M.data2[m] = L.data2[m]
                                     /\ First(M, c, m) = First(L, c, m)
                                     /\ Last(M, c, m) = Last(L, c, m)
      BY <1>1, <2>4, <2>10, <2>11, PutNode DEF IsClear
    <2>13. M.next[j] = -1 /\ M.prior[j] = t
           /\ \A m \in Nodes \ {j} : /\ M.next[m] = IF m = t THEN j ELSE L.next[m]
                                     /\ M.prior[m] = L.prior[m]
      BY <1>1, <2>4, <2>6, <2>8, <2>9 DEF LossLists
    <2>14. \A m \in In(L) : m \in Nodes \ {j}
      BY <2>5, ListConstants
    <2>15. u \in Int /\ v \in Int /\ v <= LossListSize - 2
      BY ListConstants
    <2>16. IsChain(M, c, H \cup u..v)
      <3>1. \A m \in In(L) : j # m =>
                /\ First(M, c, m) = First(L, c, m) /\ Last(M, c, m) = Last(L, c, m)
                /\ M.next[m] = IF m = L.tail THEN j ELSE L.next[m]
                /\ M.prior[m] = L.prior[m]
        BY <2>6, <2>12, <2>13, <2>14
      <3>2. M.next[j] = -1 /\ M.prior[j] = L.tail /\ M.head = L.head /\ M.tail = j
        BY <2>6, <2>9, <2>13
      <3>3. In(M) = In(L) \cup {j} /\ First(M, c, j) = u /\ Last(M, c, j) = v
        BY <2>12
      <3>. QED  BY <1>1, <2>1, <2>4, <2>15, <3>1, <3>2, <3>3, ChainAppend
    <2>17. \A m \in Nodes \ In(M) : IsClear(M, m)
      <3>. TAKE m \in Nodes \ In(M)
      <3>1. m \in Nodes \ {j} /\ m # t /\ m \notin In(L)
        BY <2>6, <2>12
      <3>2. IsClear(L, m)
        BY <3>1 DEF IsList
      <3>. QED  BY <2>12, <2>13, <3>1, <3>2 DEF IsClear
    <2>18. \A m \in In(M) : M.data2[m] = -1 \/ First(M, c, m) < Last(M, c, m)
      BY <2>12, <2>14 DEF IsList
    <2>19. M \in LossLists /\ M.length = L.length + (v - u + 1)
      BY <2>9
    <2>20. IsList(M, c, H \cup u..v)
      BY <1>3, <2>16, <2>17, <2>18, <2>19 DEF IsList
    <2>. QED  BY <2>19, <2>20 DEF M, su, sv
  <1>. QED  BY <1>4, <1>5

(* The links of a node in use are nodes, or -1.                            *)
LEMMA NodeLinks ==
    ASSUME NEW L, NEW c, NEW H, IsList(L, c, H), NEW i \in In(L)
    PROVE  /\ L.next[i] \in In(L) \cup {-1} /\ L.next[i] # i
           /\ L.prior[i] \in In(L) \cup {-1} /\ L.prior[i] # i
           /\ L.prior[i] = -1 <=> i = L.head
           /\ L.next[i] = -1 <=> i = L.tail
           /\ L.prior[i] # -1 => L.next[L.prior[i]] = i
  <1>1. IsChain(L, c, H) /\ i # -1
    BY ListConstants DEF IsList
  <1>2. L.next[i] \in In(L) \cup {-1} /\ L.next[i] # i
    BY <1>1, NextFacts
  <1>3. /\ L.prior[i] \in In(L) \cup {-1}
        /\ L.prior[i] # -1 => L.next[L.prior[i]] = i
        /\ L.prior[i] = -1 <=> i = L.head
        /\ L.next[i] = -1 <=> i = L.tail
    BY <1>1 DEF IsChain, PriorOK, EndsOK
  <1>. QED  BY <1>1, <1>2, <1>3

Emptied(L, i) ==
    [L EXCEPT !.data1[i] = -1, !.next[i] = Unset, !.prior[i] = Unset, !.length = @ - 1]

LEMMA EmptiedIsRecord ==
    ASSUME NEW L \in LossLists, NEW i \in Nodes, NEW N, N = Emptied(L, i)
    PROVE  N = [data1 |-> N.data1, data2 |-> N.data2, next |-> N.next, prior |-> N.prior,
                head |-> N.head, tail |-> N.tail, length |-> N.length]
  BY DEF LossLists, Emptied

LEMMA UnlinkIsList ==
    ASSUME NEW c \in SeqNos, NEW L, NEW H, IsList(L, c, H), NEW i \in In(L), L.data2[i] = -1
    PROVE  LET M == LossUnlink(L, i)
           IN  IsList(M, c, H \ {First(L, c, i)}) /\ M.length = L.length - 1
  <1>. DEFINE M == LossUnlink(L, i)
  <1>1. PICK before, after : /\ before = L.prior[i] /\ after = L.next[i]
                             /\ before \in Nodes \cup {-1} /\ after \in Nodes \cup {-1}
                             /\ before \in In(L) \cup {-1} /\ after \in In(L) \cup {-1}
                             /\ before # i /\ after # i /\ -1 \notin Nodes
                             /\ before = -1 <=> L.head = i
    BY NodeLinks, ListConstants
  <1>. DEFINE N == Emptied(L, i)
  <1>2. /\ L \in LossLists /\ i \in Nodes /\ IsChain(L, c, H)
    BY ListConstants DEF IsList
  <1>3. /\ L.data1 \in [Nodes -> SeqNos \cup {-1}] /\ L.data2 \in [Nodes -> SeqNos \cup {-1}]
        /\ L.next \in [Nodes -> Nodes \cup {-1, Unset}]
        /\ L.prior \in [Nodes -> Nodes \cup {-1, Unset}]
        /\ L.head \in Nodes \cup {-1} /\ L.tail \in Nodes \cup {-1} /\ L.length \in Int
    BY <1>2 DEF LossLists
  <1>4. /\ N.data1 = [L.data1 EXCEPT ![i] = -1] /\ N.data2 = L.data2
        /\ N.next = [L.next EXCEPT ![i] = Unset] /\ N.prior = [L.prior EXCEPT ![i] = Unset]
        /\ N.head = L.head /\ N.tail = L.tail /\ N.length = L.length - 1
    BY <1>2 DEF LossLists, Emptied
  <1>5. N = [data1 |-> N.data1, data2 |-> N.data2, next |-> N.next, prior |-> N.prior,
             head |-> N.head, tail |-> N.tail, length |-> N.length]
    BY <1>2, EmptiedIsRecord
  <1>6. M = IF L.head = i
            THEN [N EXCEPT !.head = after,
                     !.prior = IF after # -1 THEN [@ EXCEPT ![after] = -1] ELSE @]
            ELSE [N EXCEPT !.next[before] = after,
                     !.prior = IF after # -1 THEN [@ EXCEPT ![after] = before] ELSE @,
                     !.tail = IF after = -1 THEN before ELSE @]
    BY <1>1 DEF LossUnlink, Emptied
  <1>. HIDE DEF N, M
  <1>7. /\ M.data1 = N.data1 /\ M.data2 = N.data2 /\ M.length = N.length
        /\ M.next = IF L.head = i THEN N.next ELSE [N.next EXCEPT ![before] = after]
        /\ M.prior = IF after = -1 THEN N.prior ELSE [N.prior EXCEPT ![after] = before]
        /\ M.head = IF L.head = i THEN after ELSE N.head
        /\ M.tail = IF L.head # i /\ after = -1 THEN before ELSE N.tail
        /\ M = [data1 |-> M.data1, data2 |-> M.data2, next |-> M.next, prior |-> M.prior,
                head |-> M.head, tail |-> M.tail, length |-> M.length]
    <2>1. CASE L.head = i
      BY <1>1, <1>5, <1>6, <2>1
    <2>2. CASE L.head # i
      BY <1>1, <1>5, <1>6, <2>2
    <2>. QED  BY <2>1, <2>2
  <1>8. M \in LossLists
    <2>1. M.data1 \in [Nodes -> SeqNos \cup {-1}]
      <3>1. M.data1 = [L.data1 EXCEPT ![i] = -1]
        BY <1>4, <1>7
      <3>. QED  BY <1>3, <3>1
    <2>5. M.data2 \in [Nodes -> SeqNos \cup {-1}]
      BY <1>3, <1>4, <1>7
    <2>2. M.next \in [Nodes -> Nodes \cup {-1, Unset}]
      BY <1>1, <1>3, <1>4, <1>7
    <2>3. M.prior \in [Nodes -> Nodes \cup {-1, Unset}]
      <3>1. N.prior \in [Nodes -> Nodes \cup {-1, Unset}]
        BY <1>3, <1>4
      <3>. QED  BY <1>1, <1>7, <3>1
    <2>4. M.head \in Nodes \cup {-1} /\ M.tail \in Nodes \cup {-1} /\ M.length \in Int
      BY <1>1, <1>3, <1>4, <1>7
    <2>. QED  BY <1>7, <2>1, <2>2, <2>3, <2>4, <2>5, Zenon DEF LossLists
  <1>9. In(M) = In(L) \ {i}
    BY <1>3, <1>4, <1>7 DEF In
  <1>10. \A m \in Nodes \ {i} :
            /\ M.data1[m] = L.data1[m] /\ M.data2[m] = L.data2[m]
            /\ M.next[m] = IF m = before THEN after ELSE L.next[m]
            /\ M.prior[m] = IF m = after THEN before ELSE L.prior[m]
    BY <1>1, <1>3, <1>4, <1>7
  <1>11. M.data2[i] = -1 /\ M.next[i] = Unset /\ M.prior[i] = Unset
    BY <1>1, <1>2, <1>3, <1>4, <1>7
  <1>12. \A m \in Nodes \ {i} : First(M, c, m) = First(L, c, m) /\ Last(M, c, m) = Last(L, c, m)
    BY <1>10 DEF First, Last
  <1>13. IsChain(M, c, H \ {First(L, c, i)})
    <2>1. First(L, c, i) = Last(L, c, i)
      BY NodeNumbers
    <2>2. \A m \in In(M) :
            /\ First(M, c, m) = First(L, c, m) /\ Last(M, c, m) = Last(L, c, m)
            /\ M.next[m] = IF m = L.prior[i] THEN L.next[i] ELSE L.next[m]
            /\ M.prior[m] = IF m = L.next[i] THEN L.prior[i] ELSE L.prior[m]
      BY <1>1, <1>9, <1>10, <1>12, ListConstants
    <2>3. /\ M.head = IF L.head = i THEN L.next[i] ELSE L.head
          /\ M.tail = IF L.next[i] = -1 /\ L.head # i THEN L.prior[i] ELSE L.tail
      BY <1>1, <1>4, <1>7
    <2>. QED  BY <1>2, <1>9, <2>1, <2>2, <2>3, ChainUnlink
  <1>14. \A m \in Nodes \ In(M) : IsClear(M, m)
    <2>. TAKE m \in Nodes \ In(M)
    <2>1. CASE m = i
      BY <1>11, <2>1 DEF IsClear
    <2>2. CASE m # i
      <3>1. IsClear(L, m) /\ m # before /\ m # after
        BY <1>1, <1>9, <2>2 DEF IsList
      <3>. QED  BY <1>10, <2>2, <3>1 DEF IsClear
    <2>. QED  BY <2>1, <2>2
  <1>15. \A m \in In(M) : M.data2[m] = -1 \/ First(M, c, m) < Last(M, c, m)
    BY <1>9, <1>10, <1>12, ListConstants DEF IsList
  <1>16. H \ {First(L, c, i)} \subseteq 0..(RcvBufSize - 2)
    BY DEF IsList
  <1>17. IsList(M, c, H \ {First(L, c, i)})
    BY <1>8, <1>13, <1>14, <1>15, <1>16 DEF IsList
  <1>. QED  BY <1>4, <1>7, <1>17 DEF M

(* The place of a number inside of a node is not in use.                   *)
LEMMA InsideIsFree ==
    ASSUME NEW L, NEW c, NEW H, IsChain(L, c, H), NEW i \in In(L),
           NEW o \in Int, First(L, c, i) <= o, o < Last(L, c, i),
           NEW j \in Nodes, Apart(j, i, (o + 1) - First(L, c, i))
    PROVE  j \notin In(L)
  <1>. SUFFICES ASSUME j \in In(L) PROVE FALSE
    OBVIOUS
  <1>1. /\ o \in H /\ o + 1 \in 0..(LossListSize - 2)
    <2>1. /\ First(L, c, i) \in 0..(LossListSize - 2) /\ Last(L, c, i) \in 0..(LossListSize - 2)
          /\ \A k \in Int : First(L, c, i) <= k /\ k <= Last(L, c, i) => k \in H
      BY NodeFacts
    <2>2. o <= Last(L, c, i) /\ 0 <= o + 1 /\ o + 1 <= LossListSize - 2
      BY <2>1, ListConstants
    <2>. QED  BY <2>1, <2>2
  <1>2. First(L, c, j) = o + 1
    BY <1>1, PlaceIsFree
  <1>3. First(L, c, j) - 1 \notin H
    BY NodeFacts
  <1>. QED  BY <1>1, <1>2, <1>3

(* The number that starts what is left of a node.                          *)
LEMMA RestNumbers ==
    ASSUME NEW c \in SeqNos, NEW o \in 0..(RcvBufSize - 2), NEW l \in 0..(RcvBufSize - 2), o < l
    PROVE  /\ IncSeq(Shift(c, o)) = Shift(c, o + 1) /\ Shift(c, o + 1) \in SeqNos
           /\ SeqOff(c, Shift(c, o + 1)) = o + 1
           /\ SeqCmp(Shift(c, l), Shift(c, o + 1)) > 0 <=> l > o + 1
           /\ l = o + 1 => Shift(c, l) = Shift(c, o + 1)
  <1>1. /\ o \in Int /\ l \in Int /\ o + 1 \in Int
        /\ -SeqNoTH <= o /\ o <= SeqNoTH /\ -SeqNoTH <= l /\ l <= SeqNoTH
        /\ -SeqNoTH <= o + 1 /\ o + 1 <= SeqNoTH
        /\ -SeqNoTH < (o + 1) - l /\ (o + 1) - l < SeqNoTH
        /\ o + 1 \in (1 - RcvBufSize)..(RcvBufSize - 1)
    BY ListConstants
  <1>. QED  BY <1>1, NextShift, DistanceOfShift, OffShift

Moved(L, i, j, rest) ==
    [L EXCEPT !.data1 = [@ EXCEPT ![j] = rest, ![i] = -1],
              !.data2 = [@ EXCEPT ![j] = IF SeqCmp(L.data2[i], rest) > 0
                                         THEN L.data2[i] ELSE L.data2[j],
                                  ![i] = -1],
              !.next = [@ EXCEPT ![j] = L.next[i], ![i] = Unset],
              !.prior = [@ EXCEPT ![j] = L.prior[i], ![i] = Unset],
              !.length = @ - 1]

LEMMA MovedFields ==
    ASSUME NEW L \in LossLists, NEW i \in Nodes, NEW j \in Nodes, i # j, NEW rest \in SeqNos,
           NEW M, M = Moved(L, i, j, rest)
    PROVE  /\ M \in LossLists
           /\ M.data1 = [L.data1 EXCEPT ![j] = rest, ![i] = -1]
           /\ M.data2 = [L.data2 EXCEPT ![j] = IF SeqCmp(L.data2[i], rest) > 0
                                               THEN L.data2[i] ELSE L.data2[j], ![i] = -1]
           /\ M.next = [L.next EXCEPT ![j] = L.next[i], ![i] = Unset]
           /\ M.prior = [L.prior EXCEPT ![j] = L.prior[i], ![i] = Unset]
           /\ M.head = L.head /\ M.tail = L.tail /\ M.length = L.length - 1
  <1>1. /\ L.data1 \in [Nodes -> SeqNos \cup {-1}] /\ L.data2 \in [Nodes -> SeqNos \cup {-1}]
        /\ L.next \in [Nodes -> Nodes \cup {-1, Unset}]
        /\ L.prior \in [Nodes -> Nodes \cup {-1, Unset}]
        /\ L.head \in Nodes \cup {-1} /\ L.tail \in Nodes \cup {-1} /\ L.length \in Int
    BY DEF LossLists
  <1>2. M = [data1 |-> M.data1, data2 |-> M.data2, next |-> M.next, prior |-> M.prior,
             head |-> M.head, tail |-> M.tail, length |-> M.length]
    BY DEF LossLists, Moved
  <1>3. /\ M.data1 = [L.data1 EXCEPT ![j] = rest, ![i] = -1]
        /\ M.head = L.head /\ M.tail = L.tail /\ M.length = L.length - 1
    BY DEF LossLists, Moved
  <1>4. M.data2 = [L.data2 EXCEPT ![j] = IF SeqCmp(L.data2[i], rest) > 0
                                         THEN L.data2[i] ELSE L.data2[j], ![i] = -1]
    BY DEF LossLists, Moved
  <1>5. /\ M.next = [L.next EXCEPT ![j] = L.next[i], ![i] = Unset]
        /\ M.prior = [L.prior EXCEPT ![j] = L.prior[i], ![i] = Unset]
    BY DEF LossLists, Moved
  <1>6. M.data1 \in [Nodes -> SeqNos \cup {-1}]
    BY <1>1, <1>3
  <1>7. M.data2 \in [Nodes -> SeqNos \cup {-1}]
    BY <1>1, <1>4
  <1>8. M.next \in [Nodes -> Nodes \cup {-1, Unset}]
    BY <1>1, <1>5
  <1>9. M.prior \in [Nodes -> Nodes \cup {-1, Unset}]
    BY <1>1, <1>5
  <1>10. M.length \in Int
    BY <1>1, <1>3
  <1>11. M \in LossLists
    BY <1>1, <1>2, <1>3, <1>6, <1>7, <1>8, <1>9, <1>10, Zenon DEF LossLists
  <1>. QED  BY <1>3, <1>4, <1>5, <1>11

(* What follows a node is told of its new place.                           *)
AfterTold(K, L, i, j) == IF L.tail = i THEN [K EXCEPT !.tail = j]
                         ELSE [K EXCEPT !.prior[L.next[i]] = j]

LEMMA AfterToldFields ==
    ASSUME NEW K \in LossLists, NEW L, NEW i, NEW j \in Nodes, NEW M, M = AfterTold(K, L, i, j),
           L.tail # i => L.next[i] \in Nodes
    PROVE  /\ M \in LossLists
           /\ M.data1 = K.data1 /\ M.data2 = K.data2 /\ M.next = K.next
           /\ M.head = K.head /\ M.length = K.length
           /\ M.tail = IF L.tail = i THEN j ELSE K.tail
           /\ M.prior = IF L.tail = i THEN K.prior ELSE [K.prior EXCEPT ![L.next[i]] = j]
  <1>1. CASE L.tail = i
    BY <1>1 DEF LossLists, AfterTold
  <1>2. CASE L.tail # i
    <2>. DEFINE n == L.next[i]
    <2>1. n \in Nodes /\ M = [K EXCEPT !.prior[n] = j]
      BY <1>2 DEF AfterTold
    <2>. HIDE DEF n
    <2>2. M \in LossLists
      BY <2>1 DEF LossLists
    <2>3. /\ M.data1 = K.data1 /\ M.data2 = K.data2 /\ M.next = K.next
          /\ M.head = K.head /\ M.length = K.length
          /\ M.tail = K.tail /\ M.prior = [K.prior EXCEPT ![n] = j]
      BY <2>1 DEF LossLists
    <2>. QED  BY <1>2, <2>2, <2>3 DEF n
  <1>. QED  BY <1>1, <1>2

BeforeTold(K, L, i, j) == IF L.head = i THEN [K EXCEPT !.head = j]
                          ELSE [K EXCEPT !.next[L.prior[i]] = j]

LEMMA BeforeToldFields ==
    ASSUME NEW K \in LossLists, NEW L, NEW i, NEW j \in Nodes, NEW M, M = BeforeTold(K, L, i, j),
           L.head # i => L.prior[i] \in Nodes
    PROVE  /\ M \in LossLists
           /\ M.data1 = K.data1 /\ M.data2 = K.data2 /\ M.prior = K.prior
           /\ M.tail = K.tail /\ M.length = K.length
           /\ M.head = IF L.head = i THEN j ELSE K.head
           /\ M.next = IF L.head = i THEN K.next ELSE [K.next EXCEPT ![L.prior[i]] = j]
  <1>1. CASE L.head = i
    BY <1>1 DEF LossLists, BeforeTold
  <1>2. CASE L.head # i
    <2>. DEFINE n == L.prior[i]
    <2>1. n \in Nodes /\ M = [K EXCEPT !.next[n] = j]
      BY <1>2 DEF BeforeTold
    <2>. HIDE DEF n
    <2>2. M \in LossLists
      BY <2>1 DEF LossLists
    <2>3. /\ M.data1 = K.data1 /\ M.data2 = K.data2 /\ M.prior = K.prior
          /\ M.tail = K.tail /\ M.length = K.length
          /\ M.head = K.head /\ M.next = [K.next EXCEPT ![n] = j]
      BY <2>1 DEF LossLists
    <2>. QED  BY <1>2, <2>2, <2>3 DEF n
  <1>. QED  BY <1>1, <1>2

LEMMA ShiftIsList ==
    ASSUME NEW c \in SeqNos, NEW L, NEW H, IsList(L, c, H), NEW i \in In(L), L.data2[i] # -1
    PROVE  LET M == LossShift(L, i)
           IN  IsList(M, c, H \ {First(L, c, i)}) /\ M.length = L.length - 1
  <1>1. /\ L \in LossLists /\ i \in Nodes /\ IsChain(L, c, H)
    BY ListConstants DEF IsList
  <1>2. PICK f, l \in 0..(RcvBufSize - 2) :
            /\ f = First(L, c, i) /\ l = Last(L, c, i) /\ f < l
            /\ L.data1[i] = Shift(c, f) /\ L.data2[i] = Shift(c, l)
    BY NodeNumbers
  <1>3. PICK rest : rest = IncSeq(L.data1[i])
    OBVIOUS
  <1>4. /\ rest \in SeqNos /\ SeqOff(c, rest) = f + 1
        /\ SeqCmp(L.data2[i], rest) > 0 <=> l > f + 1
        /\ l = f + 1 => L.data2[i] = rest
    BY <1>2, <1>3, RestNumbers
  <1>5. PICK j : j = (i + 1) % LossListSize
    OBVIOUS
  <1>6. j \in Nodes /\ Apart(j, i, 1)
    <2>1. -LossListSize < 1 /\ 1 < LossListSize
      BY ListConstants
    <2>. QED  BY <1>1, <1>5, <2>1, ApartPlace
  <1>7. j \notin In(L) /\ j # i
    <2>1. f \in Int /\ (f + 1) - f = 1
      OBVIOUS
    <2>. QED  BY <1>1, <1>2, <1>6, <2>1, InsideIsFree
  <1>8. IsClear(L, j)
    BY <1>6, <1>7 DEF IsList
  <1>. DEFINE K == Moved(L, i, j, rest)
              B == BeforeTold(K, L, i, j)
              M == AfterTold(B, L, i, j)
  <1>9. M = LossShift(L, i)
    BY <1>3, <1>5 DEF LossShift, Moved, BeforeTold, AfterTold
  <1>10. PICK before, after :
            /\ before = L.prior[i] /\ after = L.next[i]
            /\ before \in In(L) \cup {-1} /\ after \in In(L) \cup {-1}
            /\ before # i /\ after # i
            /\ before = -1 <=> L.head = i
            /\ after = -1 <=> L.tail = i
    BY NodeLinks
  <1>11. -1 \notin Nodes /\ In(L) \subseteq Nodes
    BY ListConstants
  <1>. HIDE DEF K, B, M
  <1>12. /\ K \in LossLists
         /\ K.data1 = [L.data1 EXCEPT ![j] = rest, ![i] = -1]
         /\ K.data2 = [L.data2 EXCEPT ![j] = IF SeqCmp(L.data2[i], rest) > 0
                                             THEN L.data2[i] ELSE L.data2[j],
                                      ![i] = -1]
         /\ K.next = [L.next EXCEPT ![j] = after, ![i] = Unset]
         /\ K.prior = [L.prior EXCEPT ![j] = before, ![i] = Unset]
         /\ K.head = L.head /\ K.tail = L.tail /\ K.length = L.length - 1
    <2>1. /\ L \in LossLists /\ i \in Nodes /\ j \in Nodes /\ i # j /\ rest \in SeqNos
          /\ K = Moved(L, i, j, rest)
      BY <1>1, <1>4, <1>6, <1>7 DEF K
    <2>2. /\ K \in LossLists
          /\ K.data1 = [L.data1 EXCEPT ![j] = rest, ![i] = -1]
          /\ K.data2 = [L.data2 EXCEPT ![j] = IF SeqCmp(L.data2[i], rest) > 0
                                              THEN L.data2[i] ELSE L.data2[j],
                                       ![i] = -1]
          /\ K.next = [L.next EXCEPT ![j] = L.next[i], ![i] = Unset]
          /\ K.prior = [L.prior EXCEPT ![j] = L.prior[i], ![i] = Unset]
          /\ K.head = L.head /\ K.tail = L.tail /\ K.length = L.length - 1
      BY <2>1, MovedFields
    <2>. QED  BY <1>10, <2>2
  <1>13. /\ B \in LossLists
         /\ B.data1 = K.data1 /\ B.data2 = K.data2 /\ B.prior = K.prior
         /\ B.tail = K.tail /\ B.length = K.length
         /\ B.head = IF L.head = i THEN j ELSE K.head
         /\ B.next = IF L.head = i THEN K.next ELSE [K.next EXCEPT ![before] = j]
    <2>1. L.head # i => L.prior[i] \in Nodes
      BY <1>10, <1>11
    <2>2. /\ B \in LossLists
          /\ B.data1 = K.data1 /\ B.data2 = K.data2 /\ B.prior = K.prior
          /\ B.tail = K.tail /\ B.length = K.length
          /\ B.head = IF L.head = i THEN j ELSE K.head
          /\ B.next = IF L.head = i THEN K.next ELSE [K.next EXCEPT ![L.prior[i]] = j]
      <3>1. K \in LossLists /\ B = BeforeTold(K, L, i, j)
        BY <1>12 DEF B
      <3>. QED  BY <1>6, <2>1, <3>1, BeforeToldFields
    <2>. QED  BY <1>10, <2>2
  <1>14. /\ M \in LossLists
         /\ M.data1 = B.data1 /\ M.data2 = B.data2 /\ M.next = B.next
         /\ M.head = B.head /\ M.length = B.length
         /\ M.tail = IF L.tail = i THEN j ELSE B.tail
         /\ M.prior = IF L.tail = i THEN B.prior ELSE [B.prior EXCEPT ![after] = j]
    <2>1. L.tail # i => L.next[i] \in Nodes
      BY <1>10, <1>11
    <2>2. /\ M \in LossLists
          /\ M.data1 = B.data1 /\ M.data2 = B.data2 /\ M.next = B.next
          /\ M.head = B.head /\ M.length = B.length
          /\ M.tail = IF L.tail = i THEN j ELSE B.tail
          /\ M.prior = IF L.tail = i THEN B.prior ELSE [B.prior EXCEPT ![L.next[i]] = j]
      <3>1. B \in LossLists /\ M = AfterTold(B, L, i, j)
        BY <1>13 DEF M
      <3>2. j \in Nodes
        BY <1>6
      <3>. QED  BY <2>1, <3>1, <3>2, AfterToldFields, SMTT(20)
    <2>. QED  BY <1>10, <2>2
  <1>15. /\ L.data1 \in [Nodes -> SeqNos \cup {-1}] /\ L.data2 \in [Nodes -> SeqNos \cup {-1}]
         /\ L.next \in [Nodes -> Nodes \cup {-1, Unset}]
         /\ L.prior \in [Nodes -> Nodes \cup {-1, Unset}]
    BY <1>1 DEF LossLists
  <1>16. /\ M.data1[j] = rest /\ M.data1[i] = -1
         /\ \A m \in Nodes \ {i, j} : M.data1[m] = L.data1[m]
    BY <1>1, <1>6, <1>7, <1>12, <1>13, <1>14, <1>15
  <1>17. /\ M.data2[j] = IF l > f + 1 THEN L.data2[i] ELSE -1
         /\ M.data2[i] = -1
         /\ \A m \in Nodes \ {i, j} : M.data2[m] = L.data2[m]
    <2>1. L.data2[j] = -1
      BY <1>8 DEF IsClear
    <2>2. M.data2 = [L.data2 EXCEPT ![j] = IF l > f + 1 THEN L.data2[i] ELSE -1, ![i] = -1]
      BY <1>4, <1>12, <1>13, <1>14, <2>1
    <2>. QED  BY <1>1, <1>6, <1>7, <1>15, <2>2
  <1>18. /\ M.next[j] = after /\ M.next[i] = Unset
         /\ \A m \in Nodes \ {i, j} : M.next[m] = IF m = before THEN j ELSE L.next[m]
    <2>1. before # j
      BY <1>6, <1>7, <1>10, <1>11
    <2>2. M.next = IF L.head = i THEN K.next ELSE [K.next EXCEPT ![before] = j]
      BY <1>13, <1>14
    <2>3. /\ K.next[j] = after /\ K.next[i] = Unset /\ DOMAIN K.next = Nodes
          /\ \A m \in Nodes \ {i, j} : K.next[m] = L.next[m]
      BY <1>1, <1>6, <1>7, <1>12, <1>15
    <2>. QED  BY <1>1, <1>6, <1>10, <1>11, <2>1, <2>2, <2>3
  <1>19. /\ M.prior[j] = before /\ M.prior[i] = Unset
         /\ \A m \in Nodes \ {i, j} : M.prior[m] = IF m = after THEN j ELSE L.prior[m]
    <2>1. after # j
      BY <1>6, <1>7, <1>10, <1>11
    <2>2. M.prior = IF L.tail = i THEN K.prior ELSE [K.prior EXCEPT ![after] = j]
      BY <1>13, <1>14
    <2>3. /\ K.prior[j] = before /\ K.prior[i] = Unset /\ DOMAIN K.prior = Nodes
          /\ \A m \in Nodes \ {i, j} : K.prior[m] = L.prior[m]
      BY <1>1, <1>6, <1>7, <1>12, <1>15
    <2>. QED  BY <1>1, <1>6, <1>10, <1>11, <2>1, <2>2, <2>3
  <1>20. In(M) = (In(L) \ {i}) \cup {j}
    BY <1>1, <1>4, <1>6, <1>7, <1>11, <1>16, ListConstants DEF In
  <1>21. First(M, c, j) = f + 1 /\ Last(M, c, j) = l
    <2>1. First(M, c, j) = f + 1
      BY <1>4, <1>16 DEF First
    <2>2. SeqOff(c, L.data2[i]) = l /\ L.data2[i] # -1
      BY <1>2 DEF Last
    <2>3. l > f + 1 \/ l = f + 1
      BY <1>2
    <2>. QED  BY <1>4, <1>16, <1>17, <2>1, <2>2, <2>3 DEF Last
  <1>22. \A m \in Nodes \ {i, j} : First(M, c, m) = First(L, c, m) /\ Last(M, c, m) = Last(L, c, m)
    BY <1>16, <1>17 DEF First, Last
  <1>23. IsChain(M, c, H \ {First(L, c, i)})
    <2>1. \A m \in In(L) \ {i} :
                /\ First(M, c, m) = First(L, c, m) /\ Last(M, c, m) = Last(L, c, m)
                /\ M.next[m] = IF m = L.prior[i] THEN j ELSE L.next[m]
                /\ M.prior[m] = IF m = L.next[i] THEN j ELSE L.prior[m]
      BY <1>7, <1>10, <1>11, <1>18, <1>19, <1>22
    <2>2. /\ First(M, c, j) = First(L, c, i) + 1 /\ Last(M, c, j) = Last(L, c, i)
          /\ First(L, c, i) < Last(L, c, i)
      BY <1>2, <1>21
    <2>3. /\ M.next[j] = L.next[i] /\ M.prior[j] = L.prior[i]
          /\ M.head = IF L.head = i THEN j ELSE L.head
          /\ M.tail = IF L.tail = i THEN j ELSE L.tail
      BY <1>10, <1>12, <1>13, <1>14, <1>18, <1>19
    <2>. QED  BY <1>1, <1>6, <1>20, <2>1, <2>2, <2>3, ChainShift
  <1>24. \A m \in Nodes \ In(M) : IsClear(M, m)
    <2>. TAKE m \in Nodes \ In(M)
    <2>1. CASE m = i
      BY <1>17, <1>18, <1>19, <2>1 DEF IsClear
    <2>2. CASE m # i
      <3>1. m \in Nodes \ {i, j} /\ m \notin In(L) /\ m # before /\ m # after
        BY <1>10, <1>11, <1>20, <2>2
      <3>2. IsClear(L, m)
        BY <3>1 DEF IsList
      <3>. QED  BY <1>17, <1>18, <1>19, <3>1, <3>2 DEF IsClear
    <2>. QED  BY <2>1, <2>2
  <1>25. \A m \in In(M) : M.data2[m] = -1 \/ First(M, c, m) < Last(M, c, m)
    <2>1. M.data2[j] = -1 \/ First(M, c, j) < Last(M, c, j)
      BY <1>17, <1>21
    <2>2. \A m \in In(L) \ {i} : M.data2[m] = -1 \/ First(M, c, m) < Last(M, c, m)
      BY <1>7, <1>11, <1>17, <1>22 DEF IsList
    <2>. QED  BY <1>20, <2>1, <2>2
  <1>26. H \ {First(L, c, i)} \subseteq 0..(RcvBufSize - 2)
    BY DEF IsList
  <1>27. IsList(M, c, H \ {First(L, c, i)})
    BY <1>14, <1>23, <1>24, <1>25, <1>26 DEF IsList
  <1>. QED  BY <1>9, <1>12, <1>13, <1>14, <1>27

(* The number that ends what is left of a node.                            *)
LEMMA CutNumbers ==
    ASSUME NEW c \in SeqNos, NEW f \in 0..(RcvBufSize - 2), NEW o \in 0..(RcvBufSize - 2), f < o
    PROVE  /\ Shift(c, o) = IncSeq(Shift(c, f)) <=> o = f + 1
           /\ DecSeq(Shift(c, o)) = Shift(c, o - 1) /\ Shift(c, o - 1) \in SeqNos
           /\ SeqOff(c, Shift(c, o - 1)) = o - 1
  <1>1. /\ o \in Int /\ f \in Int /\ o - 1 \in Int /\ f + 1 \in Int
        /\ -SeqNoTH <= o /\ o <= SeqNoTH /\ -SeqNoTH <= f /\ f <= SeqNoTH
        /\ -SeqNoTH <= f + 1 /\ f + 1 <= SeqNoTH
        /\ -SeqNoTH < o - (f + 1) /\ o - (f + 1) < SeqNoTH
        /\ o - 1 \in (1 - RcvBufSize)..(RcvBufSize - 1)
    BY ListConstants
  <1>2. IncSeq(Shift(c, f)) = Shift(c, f + 1) /\ DecSeq(Shift(c, o)) = Shift(c, o - 1)
    BY <1>1, NextShift
  <1>3. Shift(c, f + 1) = Shift(c, o) <=> f + 1 = o
    BY <1>1, OffShift
  <1>4. Shift(c, o - 1) \in SeqNos /\ SeqOff(c, Shift(c, o - 1)) = o - 1
    BY <1>1, DistanceOfShift
  <1>. QED  BY <1>2, <1>3, <1>4

CutTo(L, i, e) == [L EXCEPT !.data2[i] = e, !.length = @ - 1]

LEMMA CutFields ==
    ASSUME NEW L \in LossLists, NEW i \in Nodes, NEW e \in SeqNos \cup {-1},
           NEW M, M = CutTo(L, i, e)
    PROVE  /\ M \in LossLists
           /\ M.data1 = L.data1 /\ M.data2 = [L.data2 EXCEPT ![i] = e]
           /\ M.next = L.next /\ M.prior = L.prior
           /\ M.head = L.head /\ M.tail = L.tail /\ M.length = L.length - 1
  <1>1. /\ M.data1 = L.data1 /\ M.data2 = [L.data2 EXCEPT ![i] = e]
        /\ M.next = L.next /\ M.prior = L.prior
        /\ M.head = L.head /\ M.tail = L.tail /\ M.length = L.length - 1
    BY DEF LossLists, CutTo
  <1>2. M = [data1 |-> M.data1, data2 |-> M.data2, next |-> M.next, prior |-> M.prior,
             head |-> M.head, tail |-> M.tail, length |-> M.length]
    BY DEF LossLists, CutTo
  <1>3. L \in LossLists => M.data2 \in [Nodes -> SeqNos \cup {-1}]
    BY <1>1 DEF LossLists
  <1>4. /\ M.data1 \in [Nodes -> SeqNos \cup {-1}]
        /\ M.next \in [Nodes -> Nodes \cup {-1, Unset}]
        /\ M.prior \in [Nodes -> Nodes \cup {-1, Unset}]
        /\ M.head \in Nodes \cup {-1} /\ M.tail \in Nodes \cup {-1} /\ M.length \in Int
    BY <1>1 DEF LossLists
  <1>5. M \in LossLists
    BY <1>2, <1>3, <1>4, Zenon DEF LossLists
  <1>. QED  BY <1>1, <1>5

LEMMA CutIsList ==
    ASSUME NEW c \in SeqNos, NEW L, NEW H, IsList(L, c, H), NEW i \in In(L), L.data2[i] # -1
    PROVE  LET M == LossCut(L, i, L.data2[i])
           IN  IsList(M, c, H \ {Last(L, c, i)}) /\ M.length = L.length - 1
  <1>. DEFINE M == LossCut(L, i, L.data2[i])
  <1>1. /\ L \in LossLists /\ i \in Nodes /\ IsChain(L, c, H)
    BY ListConstants DEF IsList
  <1>2. PICK f, o \in 0..(RcvBufSize - 2) :
            /\ f = First(L, c, i) /\ o = Last(L, c, i) /\ f < o
            /\ L.data1[i] = Shift(c, f) /\ L.data2[i] = Shift(c, o)
    BY NodeNumbers
  <1>3. PICK e : e = IF L.data2[i] = IncSeq(L.data1[i]) THEN -1 ELSE DecSeq(L.data2[i])
    OBVIOUS
  <1>4. e = IF o = f + 1 THEN -1 ELSE Shift(c, o - 1)
    BY <1>2, <1>3, CutNumbers
  <1>5. Shift(c, o - 1) \in SeqNos /\ SeqOff(c, Shift(c, o - 1)) = o - 1
    BY <1>2, CutNumbers
  <1>6. /\ M \in LossLists
        /\ M.data1 = L.data1 /\ M.data2 = [L.data2 EXCEPT ![i] = e]
        /\ M.next = L.next /\ M.prior = L.prior
        /\ M.head = L.head /\ M.tail = L.tail /\ M.length = L.length - 1
    <2>1. M = CutTo(L, i, e)
      BY <1>3 DEF LossCut, CutTo
    <2>2. e \in SeqNos \cup {-1}
      BY <1>4, <1>5
    <2>. HIDE DEF M
    <2>. QED  BY <1>1, <2>1, <2>2, CutFields
  <1>. HIDE DEF M
  <1>7. M.data2[i] = e /\ \A m \in Nodes \ {i} : M.data2[m] = L.data2[m]
    BY <1>1, <1>6 DEF LossLists
  <1>8. In(M) = In(L) /\ \A m \in Nodes : First(M, c, m) = First(L, c, m)
    BY <1>6 DEF In, First
  <1>9. \A m \in Nodes \ {i} : Last(M, c, m) = Last(L, c, m)
    BY <1>6, <1>7 DEF Last
  <1>10. Last(M, c, i) = o - 1
    <2>1. First(M, c, i) = f
      BY <1>1, <1>2, <1>8
    <2>2. CASE o = f + 1
      <3>1. M.data2[i] = -1
        BY <1>4, <1>7, <2>2
      <3>2. Last(M, c, i) = First(M, c, i)
        BY <3>1 DEF First, Last
      <3>. QED  BY <2>1, <2>2, <3>2
    <2>3. CASE o # f + 1
      <3>1. Shift(c, o - 1) # -1
        BY <1>5, ListConstants
      <3>. QED  BY <1>4, <1>5, <1>7, <2>3, <3>1 DEF Last
    <2>. QED  BY <2>2, <2>3
  <1>11. IsChain(M, c, H \ {Last(L, c, i)})
    <2>1. \A m \in In(L) : /\ First(M, c, m) = First(L, c, m)
                           /\ m # i => Last(M, c, m) = Last(L, c, m)
                           /\ M.next[m] = L.next[m] /\ M.prior[m] = L.prior[m]
      BY <1>6, <1>8, <1>9, ListConstants
    <2>. QED  BY <1>1, <1>2, <1>6, <1>8, <1>10, <2>1, ChainCut
  <1>12. \A m \in Nodes \ In(M) : IsClear(M, m)
    BY <1>6, <1>7, <1>8 DEF IsList, IsClear
  <1>13. \A m \in In(M) : M.data2[m] = -1 \/ First(M, c, m) < Last(M, c, m)
    <2>1. M.data2[i] = -1 \/ First(M, c, i) < Last(M, c, i)
      BY <1>1, <1>2, <1>4, <1>7, <1>8, <1>10
    <2>2. \A m \in In(L) \ {i} : M.data2[m] = -1 \/ First(M, c, m) < Last(M, c, m)
      BY <1>7, <1>8, <1>9, ListConstants DEF IsList
    <2>. QED  BY <1>8, <2>1, <2>2
  <1>14. H \ {Last(L, c, i)} \subseteq 0..(RcvBufSize - 2)
    BY DEF IsList
  <1>15. IsList(M, c, H \ {Last(L, c, i)})
    BY <1>6, <1>11, <1>12, <1>13, <1>14 DEF IsList
  <1>. QED  BY <1>6, <1>15 DEF M

With(f, j, v) == [f EXCEPT ![j] = v]

Linked(f, i, j, n) == [f EXCEPT ![j] = n, ![i] = j]

SplitTo(K, i, j, rest, d, n) ==
    [K EXCEPT !.data1[j] = rest, !.data2[j] = d,
              !.next = Linked(@, i, j, n), !.prior[j] = i]

LEMMA SplitFields ==
    ASSUME NEW K \in LossLists, NEW i, NEW j, NEW rest, NEW d, NEW n
    PROVE  /\ SplitTo(K, i, j, rest, d, n).data1 = With(K.data1, j, rest)
           /\ SplitTo(K, i, j, rest, d, n).data2 = With(K.data2, j, d)
           /\ SplitTo(K, i, j, rest, d, n).next = Linked(K.next, i, j, n)
           /\ SplitTo(K, i, j, rest, d, n).prior = With(K.prior, j, i)
           /\ SplitTo(K, i, j, rest, d, n).head = K.head
           /\ SplitTo(K, i, j, rest, d, n).tail = K.tail
           /\ SplitTo(K, i, j, rest, d, n).length = K.length
  <1>. DEFINE M == SplitTo(K, i, j, rest, d, n)
  <1>1. /\ M.data1 = With(K.data1, j, rest) /\ M.data2 = With(K.data2, j, d)
        /\ M.head = K.head /\ M.tail = K.tail /\ M.length = K.length
    BY DEF LossLists, SplitTo, With, Linked
  <1>2. /\ M.next = Linked(K.next, i, j, n)
        /\ M.prior = With(K.prior, j, i)
    BY DEF LossLists, SplitTo, With, Linked
  <1>. QED  BY <1>1, <1>2

LEMMA SplitIsRecord ==
    ASSUME NEW K \in LossLists, NEW i, NEW j, NEW rest, NEW d, NEW n, NEW M,
           M = SplitTo(K, i, j, rest, d, n)
    PROVE  M = [data1 |-> M.data1, data2 |-> M.data2, next |-> M.next, prior |-> M.prior,
                head |-> M.head, tail |-> M.tail, length |-> M.length]
  BY DEF LossLists, SplitTo

LEMMA SplitIsList ==
    ASSUME NEW c \in SeqNos, NEW L, NEW H, IsList(L, c, H), NEW i \in In(L), L.data2[i] # -1,
           NEW o \in 0..(RcvBufSize - 2), First(L, c, i) < o, o < Last(L, c, i),
           L.head \in In(L)
    PROVE  LET M == LossSplit(L, i, Shift(c, o))
           IN  IsList(M, c, H \ {o}) /\ M.length = L.length - 1
  <1>1. /\ L \in LossLists /\ i \in Nodes /\ IsChain(L, c, H)
    BY ListConstants DEF IsList
  <1>2. PICK f, l \in 0..(RcvBufSize - 2) :
            /\ f = First(L, c, i) /\ l = Last(L, c, i) /\ f < o /\ o < l
            /\ L.data1[i] = Shift(c, f) /\ L.data2[i] = Shift(c, l)
    BY NodeNumbers
  <1>3. PICK seq : seq = Shift(c, o)
    OBVIOUS
  <1>4. PICK rest : rest = IncSeq(seq)
    OBVIOUS
  <1>5. /\ rest \in SeqNos /\ SeqOff(c, rest) = o + 1
        /\ SeqCmp(L.data2[i], rest) > 0 <=> l > o + 1
        /\ l = o + 1 => L.data2[i] = rest
    BY <1>2, <1>3, <1>4, RestNumbers
  <1>6. PICK e : e = IF seq = IncSeq(L.data1[i]) THEN -1 ELSE DecSeq(seq)
    OBVIOUS
  <1>7. /\ e = IF o = f + 1 THEN -1 ELSE Shift(c, o - 1)
        /\ Shift(c, o - 1) \in SeqNos /\ SeqOff(c, Shift(c, o - 1)) = o - 1
    BY <1>2, <1>3, <1>6, CutNumbers
  <1>8. PICK loc : loc = LossPos(L, seq) /\ loc \in Nodes /\ Apart(loc, i, o - f)
    BY <1>2, <1>3, PlaceOfNumber
  <1>9. PICK j : j = (loc + 1) % LossListSize
    OBVIOUS
  <1>10. j \in Nodes /\ Apart(j, i, (o + 1) - f)
    <2>1. 1 + (o - f) = (o + 1) - f /\ o - f \in Int
      OBVIOUS
    <2>4. -LossListSize < 1 /\ 1 < LossListSize
      BY ListConstants
    <2>5. -LossListSize < 1 + (o - f) /\ 1 + (o - f) < LossListSize
      BY <2>4, ListConstants
    <2>2. j \in Nodes /\ Apart(j, loc, 1)
      BY <1>8, <1>9, <2>4, ApartPlace
    <2>3. Apart(j, i, 1 + (o - f))
      BY <1>1, <1>8, <2>1, <2>2, <2>5, ApartAdd
    <2>. QED  BY <2>1, <2>2, <2>3
  <1>11. j \notin In(L) /\ j # i
    <2>1. o \in Int /\ First(L, c, i) <= o /\ o < Last(L, c, i)
      BY <1>2
    <2>. QED  BY <1>1, <1>2, <1>10, <2>1, InsideIsFree
  <1>12. IsClear(L, j)
    BY <1>10, <1>11 DEF IsList
  <1>. DEFINE C == CutTo(L, i, e)
              d == IF SeqCmp(L.data2[i], rest) > 0 THEN L.data2[i] ELSE C.data2[j]
              K == SplitTo(C, i, j, rest, d, L.next[i])
              M == AfterTold(K, L, i, j)
  <1>13. M = LossSplit(L, i, seq)
    BY <1>4, <1>6, <1>8, <1>9 DEF LossSplit, LossCut, CutTo, SplitTo, With, Linked, AfterTold
  <1>14. PICK before, after :
            /\ before = L.prior[i] /\ after = L.next[i]
            /\ before \in In(L) \cup {-1} /\ after \in In(L) \cup {-1}
            /\ before # i /\ after # i
            /\ before = -1 <=> L.head = i
            /\ after = -1 <=> L.tail = i
    BY NodeLinks
  <1>15. -1 \notin Nodes /\ In(L) \subseteq Nodes
    BY ListConstants
  <1>. HIDE DEF C, d, K, M
  <1>16. /\ C \in LossLists
         /\ C.data1 = L.data1 /\ C.data2 = [L.data2 EXCEPT ![i] = e]
         /\ C.next = L.next /\ C.prior = L.prior
         /\ C.head = L.head /\ C.tail = L.tail /\ C.length = L.length - 1
    <2>1. e \in SeqNos \cup {-1}
      BY <1>7
    <2>. QED  BY <1>1, <2>1, CutFields DEF C
  <1>17. /\ K \in LossLists
         /\ K.data1 = [C.data1 EXCEPT ![j] = rest]
         /\ K.data2 = [C.data2 EXCEPT ![j] = d]
         /\ K.next = [C.next EXCEPT ![j] = after, ![i] = j]
         /\ K.prior = [C.prior EXCEPT ![j] = i]
         /\ K.head = C.head /\ K.tail = C.tail /\ K.length = C.length
    <2>1. d \in SeqNos \cup {-1} /\ L.next[i] \in Nodes \cup {-1, Unset}
      BY <1>1, <1>10, <1>16 DEF LossLists, d
    <2>0. C \in LossLists
      BY <1>16
    <2>2. /\ K.data1 = With(C.data1, j, rest) /\ K.data2 = With(C.data2, j, d)
          /\ K.next = Linked(C.next, i, j, L.next[i]) /\ K.prior = With(C.prior, j, i)
          /\ K.head = C.head /\ K.tail = C.tail /\ K.length = C.length
      BY <2>0, SplitFields DEF K
    <2>3. K = [data1 |-> K.data1, data2 |-> K.data2, next |-> K.next, prior |-> K.prior,
               head |-> K.head, tail |-> K.tail, length |-> K.length]
      BY <2>0, SplitIsRecord DEF K
    <2>4. /\ C.data1 \in [Nodes -> SeqNos \cup {-1}] /\ C.data2 \in [Nodes -> SeqNos \cup {-1}]
          /\ C.next \in [Nodes -> Nodes \cup {-1, Unset}]
          /\ C.prior \in [Nodes -> Nodes \cup {-1, Unset}]
          /\ C.head \in Nodes \cup {-1} /\ C.tail \in Nodes \cup {-1} /\ C.length \in Int
      BY <1>16 DEF LossLists
    <2>5. K.data1 \in [Nodes -> SeqNos \cup {-1}] /\ K.data2 \in [Nodes -> SeqNos \cup {-1}]
      BY <1>5, <1>10, <2>1, <2>2, <2>4 DEF With
    <2>6. K.next \in [Nodes -> Nodes \cup {-1, Unset}]
      BY <1>1, <1>10, <2>1, <2>2, <2>4 DEF With, Linked
    <2>7. K.prior \in [Nodes -> Nodes \cup {-1, Unset}]
      BY <1>1, <2>2, <2>4 DEF With
    <2>8. K \in LossLists
      BY <2>2, <2>3, <2>4, <2>5, <2>6, <2>7, Zenon DEF LossLists
    <2>. QED  BY <1>14, <2>2, <2>8 DEF With, Linked
  <1>18. /\ M \in LossLists
         /\ M.data1 = K.data1 /\ M.data2 = K.data2 /\ M.next = K.next
         /\ M.head = K.head /\ M.length = K.length
         /\ M.tail = IF L.tail = i THEN j ELSE K.tail
         /\ M.prior = IF L.tail = i THEN K.prior ELSE [K.prior EXCEPT ![after] = j]
    <2>1. K \in LossLists /\ M = AfterTold(K, L, i, j)
      BY <1>17 DEF M
    <2>2. L.tail # i => L.next[i] \in Nodes
      BY <1>14, <1>15
    <2>3. /\ M \in LossLists
          /\ M.data1 = K.data1 /\ M.data2 = K.data2 /\ M.next = K.next
          /\ M.head = K.head /\ M.length = K.length
          /\ M.tail = IF L.tail = i THEN j ELSE K.tail
          /\ M.prior = IF L.tail = i THEN K.prior ELSE [K.prior EXCEPT ![L.next[i]] = j]
      BY <1>10, <2>1, <2>2, AfterToldFields
    <2>. QED  BY <1>14, <2>3
  <1>19. /\ L.data1 \in [Nodes -> SeqNos \cup {-1}] /\ L.data2 \in [Nodes -> SeqNos \cup {-1}]
         /\ L.next \in [Nodes -> Nodes \cup {-1, Unset}]
         /\ L.prior \in [Nodes -> Nodes \cup {-1, Unset}]
    BY <1>1 DEF LossLists
  <1>20. M.data1[j] = rest /\ \A m \in Nodes \ {j} : M.data1[m] = L.data1[m]
    BY <1>10, <1>16, <1>17, <1>18, <1>19
  <1>21. /\ M.data2[j] = IF l > o + 1 THEN L.data2[i] ELSE -1
         /\ M.data2[i] = e
         /\ \A m \in Nodes \ {i, j} : M.data2[m] = L.data2[m]
    <2>1. L.data2[j] = -1
      BY <1>12 DEF IsClear
    <2>2. C.data2[j] = -1 /\ C.data2[i] = e /\ DOMAIN C.data2 = Nodes
          /\ \A m \in Nodes \ {i, j} : C.data2[m] = L.data2[m]
      BY <1>1, <1>10, <1>11, <1>16, <1>19, <2>1
    <2>3. M.data2 = [C.data2 EXCEPT ![j] = IF l > o + 1 THEN L.data2[i] ELSE -1]
      BY <1>5, <1>17, <1>18, <2>2 DEF d
    <2>. QED  BY <1>1, <1>10, <1>11, <2>2, <2>3
  <1>22. /\ M.next[j] = after /\ M.next[i] = j
         /\ \A m \in Nodes \ {i, j} : M.next[m] = L.next[m]
    BY <1>1, <1>10, <1>11, <1>16, <1>17, <1>18, <1>19
  <1>23. /\ M.prior[j] = i
         /\ \A m \in Nodes \ {j} : M.prior[m] = IF m = after THEN j ELSE L.prior[m]
    <2>1. after # j
      BY <1>10, <1>11, <1>14, <1>15
    <2>2. M.prior = IF L.tail = i THEN K.prior ELSE [K.prior EXCEPT ![after] = j]
      BY <1>18
    <2>3. /\ K.prior[j] = i /\ DOMAIN K.prior = Nodes
          /\ \A m \in Nodes \ {j} : K.prior[m] = L.prior[m]
      BY <1>10, <1>16, <1>17, <1>19
    <2>. QED  BY <1>10, <1>14, <1>15, <2>1, <2>2, <2>3
  <1>24. In(M) = In(L) \cup {j}
    BY <1>5, <1>10, <1>15, <1>20, ListConstants DEF In
  <1>25. First(M, c, j) = o + 1 /\ Last(M, c, j) = l
    <2>1. First(M, c, j) = o + 1
      BY <1>5, <1>20 DEF First
    <2>2. SeqOff(c, L.data2[i]) = l /\ L.data2[i] # -1
      BY <1>2 DEF Last
    <2>3. l > o + 1 \/ l = o + 1
      BY <1>2
    <2>. QED  BY <1>5, <1>20, <1>21, <2>1, <2>2, <2>3 DEF Last
  <1>26. \A m \in Nodes \ {j} : First(M, c, m) = First(L, c, m)
    BY <1>20 DEF First
  <1>27. \A m \in Nodes \ {i, j} : Last(M, c, m) = Last(L, c, m)
    BY <1>20, <1>21 DEF Last
  <1>28. Last(M, c, i) = o - 1
    <2>1. First(M, c, i) = f
      BY <1>1, <1>2, <1>11, <1>26
    <2>2. CASE o = f + 1
      <3>1. M.data2[i] = -1
        BY <1>7, <1>21, <2>2
      <3>2. Last(M, c, i) = First(M, c, i)
        BY <3>1 DEF First, Last
      <3>. QED  BY <2>1, <2>2, <3>2
    <2>3. CASE o # f + 1
      <3>1. Shift(c, o - 1) # -1
        BY <1>7, ListConstants
      <3>. QED  BY <1>7, <1>21, <2>3, <3>1 DEF Last
    <2>. QED  BY <2>2, <2>3
  <1>29. IsChain(M, c, H \ {o})
    <2>1. \A m \in In(L) :
                /\ First(M, c, m) = First(L, c, m)
                /\ m # i => Last(M, c, m) = Last(L, c, m)
                /\ M.next[m] = IF m = i THEN j ELSE L.next[m]
                /\ M.prior[m] = IF m = L.next[i] THEN j ELSE L.prior[m]
      BY <1>11, <1>14, <1>15, <1>22, <1>23, <1>26, <1>27
    <2>2. /\ First(M, c, j) = o + 1 /\ Last(M, c, j) = Last(L, c, i) /\ Last(M, c, i) = o - 1
          /\ o \in Int /\ First(L, c, i) < o /\ o < Last(L, c, i)
      BY <1>2, <1>25, <1>28
    <2>3. /\ M.next[j] = L.next[i] /\ M.prior[j] = i
          /\ M.head = L.head
          /\ M.tail = IF L.tail = i THEN j ELSE L.tail
      BY <1>14, <1>16, <1>17, <1>18, <1>22, <1>23
    <2>4. Apart(j, i, (o + 1) - First(L, c, i))
      BY <1>2, <1>10
    <2>. QED  BY <1>1, <1>10, <1>24, <2>1, <2>2, <2>3, <2>4, ChainSplit
  <1>30. \A m \in Nodes \ In(M) : IsClear(M, m)
    <2>. TAKE m \in Nodes \ In(M)
    <2>1. m \in Nodes \ {i, j} /\ m \notin In(L) /\ m # after
      BY <1>14, <1>15, <1>24
    <2>2. IsClear(L, m)
      BY <2>1 DEF IsList
    <2>. QED  BY <1>21, <1>22, <1>23, <2>1, <2>2 DEF IsClear
  <1>31. \A m \in In(M) : M.data2[m] = -1 \/ First(M, c, m) < Last(M, c, m)
    <2>1. M.data2[j] = -1 \/ First(M, c, j) < Last(M, c, j)
      BY <1>21, <1>25
    <2>2. M.data2[i] = -1 \/ First(M, c, i) < Last(M, c, i)
      BY <1>1, <1>2, <1>7, <1>11, <1>21, <1>26, <1>28
    <2>3. \A m \in In(L) \ {i} : M.data2[m] = -1 \/ First(M, c, m) < Last(M, c, m)
      BY <1>11, <1>15, <1>21, <1>26, <1>27 DEF IsList
    <2>. QED  BY <1>24, <2>1, <2>2, <2>3
  <1>32. H \ {o} \subseteq 0..(RcvBufSize - 2)
    BY DEF IsList
  <1>33. IsList(M, c, H \ {o})
    BY <1>18, <1>29, <1>30, <1>31, <1>32 DEF IsList
  <1>. QED  BY <1>3, <1>13, <1>16, <1>17, <1>18, <1>33

(* The node that a number inside of it is found from.                      *)
LEMMA BeforeIsNode ==
    ASSUME NEW c \in SeqNos, NEW L, NEW H, IsList(L, c, H), L.head \in In(L),
           NEW o \in 0..(RcvBufSize - 2), NEW i \in In(L),
           First(L, c, i) <= o, o <= Last(L, c, i)
    PROVE  NodeBefore(L, LossPos(L, Shift(c, o))) = i
  <1>1. PICK loc : /\ loc = LossPos(L, Shift(c, o)) /\ loc \in Nodes
                   /\ \A j \in In(L) : Apart(loc, j, o - First(L, c, j))
    BY PlaceOfNumber
  <1>. DEFINE back(j) == (loc - j) % LossListSize
  <1>2. /\ IsChain(L, c, H) /\ i \in Nodes /\ In(L) \subseteq Nodes
        /\ \A j \in Nodes : L.data1[j] # -1 <=> j \in In(L)
    BY ListConstants DEF IsList, In
  <1>3. ASSUME NEW j \in In(L)
        PROVE  back(j) = IF First(L, c, j) <= o THEN o - First(L, c, j)
                         ELSE o - First(L, c, j) + LossListSize
    <2>1. PICK x \in 0..(RcvBufSize - 2) : x = First(L, c, j)
      BY NodeNumbers
    <2>2. loc - j - (o - x) \in {-LossListSize, 0, LossListSize}
      BY <1>1, <2>1 DEF Apart
    <2>3. loc \in 0..(LossListSize - 1) /\ j \in 0..(LossListSize - 1)
      BY <1>1, <1>2, ListConstants
    <2>4. /\ loc - j \in Int /\ -LossListSize <= loc - j /\ loc - j < 2 * LossListSize
          /\ LossListSize > 0 /\ loc - j < LossListSize
      BY <2>3, ListConstants
    <2>5. back(j) = IF loc - j < 0 THEN loc - j + LossListSize ELSE loc - j
      BY <2>4, ListConstants, Remainder
    <2>. HIDE DEF back
    <2>6. back(j) = IF x <= o THEN o - x ELSE o - x + LossListSize
      BY <2>2, <2>3, <2>4, <2>5, ListConstants
    <2>. QED  BY <2>1, <2>6
  <1>4. ASSUME NEW j \in In(L), j # i PROVE back(i) < back(j)
    <2>1. PICK f, l \in 0..(RcvBufSize - 2) : f = First(L, c, i) /\ l = Last(L, c, i)
      BY NodeNumbers
    <2>2. PICK x \in 0..(RcvBufSize - 2) : x = First(L, c, j) /\ x <= Last(L, c, j)
      BY <1>2, NodeNumbers, NodeFacts
    <2>3. ~(f <= x /\ x <= l)
      BY <1>2, <1>4, <2>1, <2>2, NodesDisjoint
    <2>4. back(i) = o - f /\ back(j) = IF x <= o THEN o - x ELSE o - x + LossListSize
      BY <1>3, <2>1, <2>2
    <2>. HIDE DEF back
    <2>5. f <= o /\ o <= l
      BY <2>1
    <2>. QED  BY <2>3, <2>4, <2>5, ListConstants
  <1>5. \A j \in In(L) : back(j) \in Int
    <2>1. \A j \in In(L) : First(L, c, j) \in Int
      BY <1>2, NodeFacts
    <2>. HIDE DEF back
    <2>. QED  BY <1>3, <2>1, ListConstants
  <1>. DEFINE P(j) == /\ L.data1[j] # -1
                      /\ \A m \in Nodes : L.data1[m] # -1 => back(j) <= back(m)
  <1>6. P(i)
    <2>. HIDE DEF back
    <2>1. \A m \in In(L) : back(i) <= back(m)
      BY <1>4, <1>5
    <2>. QED  BY <1>2, <2>1
  <1>7. \A j \in Nodes : P(j) => j = i
    <2>. HIDE DEF back
    <2>. SUFFICES ASSUME NEW j \in Nodes, P(j), j # i PROVE FALSE
      OBVIOUS
    <2>1. j \in In(L) /\ back(j) <= back(i)
      BY <1>2
    <2>. QED  BY <1>4, <1>5, <2>1
  <1>8. NodeBefore(L, loc) = CHOOSE j \in Nodes : P(j)
    BY DEF NodeBefore
  <1>. HIDE DEF P
  <1>9. (CHOOSE j \in Nodes : P(j)) = i
    BY <1>2, <1>6, <1>7
  <1>. QED  BY <1>1, <1>8, <1>9

(* remove (list.cpp) of a missing number, in whichever place of its run:   *)
(* the list then holds all others, in order, at the places they belong.    *)
THEOREM RemoveIsDifference ==
    ASSUME NEW c \in SeqNos, NEW L, NEW H, IsList(L, c, H), L.length = 0 <=> H = {},
           NEW o \in H
    PROVE  LET M == LossRemove(L, Shift(c, o))
           IN  IsList(M, c, H \ {o}) /\ M.length = L.length - 1
  <1>1. /\ o \in 0..(RcvBufSize - 2) /\ L.length # 0
        /\ IsChain(L, c, H) /\ L.head \in In(L) /\ -1 \notin SeqNos
    BY ListConstants DEF IsList, IsChain, EndsOK
  <1>2. PICK seq : seq = Shift(c, o)
    OBVIOUS
  <1>3. PICK i \in In(L) : First(L, c, i) <= o /\ o <= Last(L, c, i)
    BY <1>1 DEF IsChain, AreRuns
  <1>4. PICK f, l \in 0..(RcvBufSize - 2) :
            /\ f = First(L, c, i) /\ l = Last(L, c, i) /\ f <= o /\ o <= l
            /\ L.data1[i] = Shift(c, f)
            /\ L.data2[i] = -1 => f = l
            /\ L.data2[i] # -1 => L.data2[i] = Shift(c, l) /\ f < l
    BY <1>3, NodeNumbers
  <1>5. PICK loc : loc = LossPos(L, seq) /\ loc \in Nodes /\ Apart(loc, i, o - f)
    BY <1>1, <1>2, <1>4, PlaceOfNumber
  <1>6. NodeBefore(L, loc) = i
    BY <1>1, <1>2, <1>3, <1>5, BeforeIsNode
  <1>7. ~(SeqOff(L.data1[L.head], seq) < 0)
    <2>1. L.prior[L.head] = -1
      BY <1>1 DEF IsChain, EndsOK
    <2>2. First(L, c, L.head) <= o
      BY <1>1, <2>1 DEF IsChain, PriorOK
    <2>4. First(L, c, L.head) \in Int
      BY <1>1, NodeFacts
    <2>3. SeqOff(L.data1[L.head], seq) = o - First(L, c, L.head)
      BY <1>1, <1>2, PlaceOfNumber
    <2>. QED  BY <1>1, <2>2, <2>3, <2>4
  <1>8. seq \in SeqNos /\ SeqOff(c, seq) = o
    <2>1. o \in (1 - RcvBufSize)..(RcvBufSize - 1)
      BY <1>1, ListConstants
    <2>. QED  BY <1>2, <2>1, DistanceOfShift
  <1>9. L.data1[loc] = seq <=> f = o
    <2>1. ASSUME L.data1[loc] = seq PROVE f = o
      <3>1. loc \in In(L) /\ First(L, c, loc) = o
        BY <1>1, <1>5, <1>8, <2>1 DEF In, First
      <3>2. loc = i
        <4>1. o \in Int /\ o <= Last(L, c, loc)
          BY <1>1, <3>1, NodeFacts
        <4>. QED  BY <1>1, <1>3, <3>1, <4>1, NodesDisjoint
      <3>. QED  BY <1>4, <3>1, <3>2
    <2>2. ASSUME f = o PROVE L.data1[loc] = seq
      <3>1. Apart(loc, i, 0) /\ i \in Nodes
        BY <1>5, <2>2, ListConstants
      <3>2. loc = i
        BY <1>5, <3>1, ApartNone
      <3>. QED  BY <1>2, <1>4, <2>2, <3>2
    <2>. QED  BY <2>1, <2>2
  <1>10. f = o => loc = i
    <2>. SUFFICES ASSUME f = o PROVE loc = i
      OBVIOUS
    <2>1. Apart(loc, i, 0) /\ i \in Nodes
      BY <1>5, ListConstants
    <2>. QED  BY <1>5, <2>1, ApartNone
  <1>11. CASE f = o /\ L.data2[i] = -1
    <2>1. LossRemove(L, seq) = LossUnlink(L, i)
      BY <1>1, <1>5, <1>7, <1>9, <1>10, <1>11 DEF LossRemove
    <2>2. /\ IsList(LossUnlink(L, i), c, H \ {First(L, c, i)})
          /\ LossUnlink(L, i).length = L.length - 1
      BY <1>11, UnlinkIsList
    <2>3. First(L, c, i) = o
      BY <1>4, <1>11
    <2>. QED  BY <1>2, <2>1, <2>2, <2>3
  <1>12. CASE f = o /\ L.data2[i] # -1
    <2>1. LossRemove(L, seq) = LossShift(L, i)
      BY <1>1, <1>5, <1>7, <1>9, <1>10, <1>12 DEF LossRemove
    <2>2. /\ IsList(LossShift(L, i), c, H \ {First(L, c, i)})
          /\ LossShift(L, i).length = L.length - 1
      BY <1>12, ShiftIsList
    <2>3. First(L, c, i) = o
      BY <1>4, <1>12
    <2>. QED  BY <1>2, <2>1, <2>2, <2>3
  <1>13. CASE f # o
    <2>1. f < o /\ f < l /\ L.data2[i] # -1 /\ L.data2[i] = Shift(c, l)
      BY <1>1, <1>4, <1>13
    <2>2. /\ SeqCmp(seq, L.data2[i]) > 0 <=> o > l
          /\ seq = L.data2[i] <=> o = l
      <3>1. /\ o \in Int /\ l \in Int /\ -SeqNoTH <= o /\ o <= SeqNoTH /\ -SeqNoTH <= l
            /\ l <= SeqNoTH /\ -SeqNoTH < l - o /\ l - o < SeqNoTH
        BY <1>1, ListConstants
      <3>. QED  BY <1>2, <2>1, <3>1, OffShift
    <2>3. LossRemove(L, seq) = IF seq = L.data2[i] THEN LossCut(L, i, seq) ELSE LossSplit(L, i, seq)
      BY <1>1, <1>4, <1>5, <1>6, <1>7, <1>9, <1>13, <2>1, <2>2 DEF LossRemove
    <2>4. CASE o = l
      <3>1. LossRemove(L, seq) = LossCut(L, i, L.data2[i])
        BY <2>2, <2>3, <2>4
      <3>. QED  BY <1>2, <1>4, <2>1, <2>4, <3>1, CutIsList
    <2>5. CASE o # l
      <3>1. LossRemove(L, seq) = LossSplit(L, i, seq)
        BY <2>2, <2>3, <2>5
      <3>2. First(L, c, i) < o /\ o < Last(L, c, i)
        BY <1>1, <1>4, <2>1, <2>5
      <3>. QED  BY <1>1, <1>2, <2>1, <3>1, <3>2, SplitIsList
    <2>. QED  BY <2>4, <2>5
  <1>. QED  BY <1>11, <1>12, <1>13

(* m_iRcvLastAck moves over numbers that are there (ackData, core.cpp):    *)
(* the list, which nobody touches, is right for the new start too.         *)
THEOREM ListMoves ==
    ASSUME NEW c \in SeqNos, NEW L, NEW H, IsList(L, c, H),
           NEW d \in 0..(RcvBufSize - 1), \A k \in H : d <= k
    PROVE  IsList(L, Shift(c, d), {k \in 0..(RcvBufSize - 2) : k + d \in H})
  <1>. DEFINE e == Shift(c, d)
              G == {k \in 0..(RcvBufSize - 2) : k + d \in H}
  <1>1. L \in LossLists /\ IsChain(L, c, H) /\ H \subseteq 0..(RcvBufSize - 2)
    BY DEF IsList
  <1>2. ASSUME NEW o \in 0..(RcvBufSize - 2) PROVE SeqOff(e, Shift(c, o)) = o - d
    <2>1. /\ o \in Int /\ d \in Int /\ -SeqNoTH <= o /\ o <= SeqNoTH /\ -SeqNoTH <= d
          /\ d <= SeqNoTH /\ -SeqNoTH < o - d /\ o - d < SeqNoTH
      BY ListConstants
    <2>. QED  BY <2>1, OffShift
  <1>. HIDE DEF e
  <1>3. ASSUME NEW i \in In(L)
        PROVE  First(L, e, i) = First(L, c, i) - d /\ Last(L, e, i) = Last(L, c, i) - d
    <2>1. PICK f, l \in 0..(RcvBufSize - 2) :
            /\ f = First(L, c, i) /\ l = Last(L, c, i)
            /\ L.data1[i] = Shift(c, f)
            /\ L.data2[i] = -1 => f = l
            /\ L.data2[i] # -1 => L.data2[i] = Shift(c, l)
      BY NodeNumbers
    <2>2. First(L, e, i) = f - d
      BY <1>2, <2>1 DEF First
    <2>3. Last(L, e, i) = l - d
      BY <1>2, <2>1 DEF Last
    <2>. QED  BY <2>1, <2>2, <2>3
  <1>4. IsChain(L, e, G)
    <2>1. \A k \in G : k \in Int /\ k + d \in H
      OBVIOUS
    <2>2. ASSUME NEW k \in H PROVE k - d \in G /\ d <= k
      <3>1. k \in 0..(RcvBufSize - 2) /\ d <= k /\ d \in Int /\ 0 <= d
        BY <1>1
      <3>2. (k - d) + d = k /\ k - d \in 0..(RcvBufSize - 2)
        BY <3>1, ListConstants
      <3>. QED  BY <3>1, <3>2
    <2>3. d \in Nat
      OBVIOUS
    <2>. HIDE DEF G
    <2>. QED  BY <1>1, <1>3, <2>1, <2>2, <2>3, ChainMove
  <1>5. \A i \in In(L) : L.data2[i] = -1 \/ First(L, e, i) < Last(L, e, i)
    <2>1. \A i \in In(L) : First(L, c, i) \in Int /\ Last(L, c, i) \in Int
      BY <1>1, NodeFacts
    <2>. QED  BY <1>3, <2>1 DEF IsList
  <1>6. G \subseteq 0..(RcvBufSize - 2)
    OBVIOUS
  <1>7. IsList(L, e, G)
    BY <1>1, <1>4, <1>5, <1>6 DEF IsList
  <1>. QED  BY <1>7 DEF e

(* getFirstLostSeq (list.cpp), which an ACK takes its number from, names   *)
(* the first of the missing numbers.                                       *)
THEOREM FirstIsLeast ==
    ASSUME NEW c \in SeqNos, NEW L, NEW H, IsList(L, c, H), H # {}, L.length # 0
    PROVE  \E o \in H : FirstLostSeq(L) = Shift(c, o) /\ \A k \in H : o <= k
  <1>1. IsChain(L, c, H) /\ L.head \in In(L)
    BY DEF IsList, IsChain, EndsOK
  <1>2. L.prior[L.head] = -1
    BY <1>1 DEF IsChain, EndsOK
  <1>3. \A k \in H : First(L, c, L.head) <= k
    BY <1>1, <1>2 DEF IsChain, PriorOK
  <1>4. First(L, c, L.head) \in H /\ L.data1[L.head] = Shift(c, First(L, c, L.head))
    BY <1>1, NodeNumbers
  <1>. QED  BY <1>3, <1>4 DEF FirstLostSeq

-----------------------------------------------------------------------------
(***************************************************************************)
(* The state.  Cur is how far the newest packet is after the last          *)
(* acknowledged one, Gaps the distances of the missing ones; Ready packets *)
(* were handed over and are not yet read, the first of them at Begin.      *)
(* Filled is the part of the ring that m_iStartPos still keeps: while the  *)
(* application reads, it is more than Ready.                               *)
(***************************************************************************)
Cur == Off(rcvCurrSeqNo)
Gaps == {k \in 0..Cur : Shift(rcvLastAck, k) \notin held}
Ready == SeqOff(nextRead, rcvLastAck)
Begin == IF readPc = "reading" THEN p ELSE startPos
Filled == (lastAckPos - startPos) % RcvBufSize

(* TypeOK but for the loss list, whose types are in IsList.                *)
Typed ==
    /\ rcvLastAck \in SeqNos /\ rcvCurrSeqNo \in -1..MaxSeqNo
    /\ unit \in [Slots -> [seq : SeqNos, len : Lens] \cup {NULL}]
    /\ startPos \in Slots /\ lastAckPos \in Slots /\ p \in Slots /\ lastack \in Slots
    /\ maxPos \in -1..(RcvBufSize - 1) /\ notch \in Nat
    /\ rcvPc \in {"idle", "room"} /\ ahead \in BOOLEAN
    /\ packet \in [seq : SeqNos, len : Lens] \cup {NULL}
    /\ readPc \in {"idle", "reading"} /\ rs \in Nat
    /\ held \subseteq SeqNos /\ nextRead \in SeqNos /\ readFrom \in Nat

WindowOK ==
    /\ nextRead = Shift(rcvLastAck, -Ready)
    /\ rcvCurrSeqNo = -1 => rcvLastAck = 0
    /\ Cur >= -1 /\ Ready >= 0 /\ Ready <= Filled
    /\ Filled + Cur <= RcvBufSize - 2
    /\ lastAckPos = (Begin + Ready) % RcvBufSize
    /\ readPc = "reading" => (lastack - p) % RcvBufSize <= Ready

HeldOK ==
    /\ \A s \in held : -Ready <= Off(s) /\ Off(s) <= Cur
    /\ \A d \in 0..(Ready - 1) : Shift(nextRead, d) \in held
    /\ Cur >= 0 => rcvCurrSeqNo \in held

NotchOK ==
    /\ readFrom = notch
    /\ IF Ready = 0 THEN notch = 0 ELSE notch < unit[Begin].len

PacketOK ==
    rcvPc = "room" => /\ packet # NULL /\ Off(packet.seq) >= 0
                      /\ ahead => startPos <= lastAckPos

ListOK == IsList(loss, rcvLastAck, Gaps) /\ loss.length = Cardinality(Holes)

IInv ==
    /\ Typed /\ WindowOK /\ HeldOK /\ RingIsStream /\ NotchOK /\ PacketOK /\ ListOK

-----------------------------------------------------------------------------
(* The invariant's numbers and positions, with their ranges.               *)
LEMMA Numbers ==
    ASSUME Typed, WindowOK
    PROVE  /\ rcvLastAck \in SeqNos /\ nextRead \in SeqNos
           /\ Cur \in -1..(RcvBufSize - 2) /\ Ready \in 0..(RcvBufSize - 1)
           /\ Filled \in 0..(RcvBufSize - 1) /\ Ready <= Filled
           /\ Filled + Cur <= RcvBufSize - 2
           /\ nextRead = Shift(rcvLastAck, -Ready)
           /\ rcvCurrSeqNo # -1 => rcvCurrSeqNo \in SeqNos /\ rcvCurrSeqNo = Shift(rcvLastAck, Cur)
           /\ rcvCurrSeqNo = -1 => rcvLastAck = 0 /\ Cur = -1
           /\ IncSeq(rcvCurrSeqNo) = Shift(rcvLastAck, Cur + 1)
  <1>1. /\ rcvLastAck \in SeqNos /\ nextRead \in SeqNos /\ rcvCurrSeqNo \in SeqNos \cup {-1}
        /\ startPos \in 0..(RcvBufSize - 1) /\ lastAckPos \in 0..(RcvBufSize - 1)
    BY SeqNoAssumption DEF Typed, SeqNos, Slots
  <1>2. Filled \in 0..(RcvBufSize - 1)
    <2>1. lastAckPos - startPos \in Int /\ -RcvBufSize <= lastAckPos - startPos
          /\ lastAckPos - startPos < 2 * RcvBufSize
      BY <1>1, ListConstants
    <2>. QED  BY <2>1, ListConstants, Remainder DEF Filled
  <1>3. Ready \in Int
    BY <1>1, ShiftOff DEF Ready
  <1>4. rcvCurrSeqNo = -1 => rcvLastAck = 0 /\ Cur = -1 /\ IncSeq(rcvCurrSeqNo) = 0
    <2>1. ASSUME rcvCurrSeqNo = -1 PROVE rcvLastAck = 0
      BY <2>1 DEF WindowOK
    <2>2. ASSUME rcvCurrSeqNo = -1 PROVE Cur = -1 /\ IncSeq(rcvCurrSeqNo) = 0
      <3>1. Cur = SeqOff(0, -1)
        BY <2>1, <2>2 DEF Cur, Off
      <3>2. SeqOff(0, -1) = -1 /\ IncSeq(-1) = 0
        BY SeqNoAssumption, ListConstants DEF SeqOff, Abs, IncSeq
      <3>. QED  BY <2>2, <3>1, <3>2
    <2>. QED  BY <2>1, <2>2
  <1>5. rcvCurrSeqNo # -1 => Cur \in Int /\ rcvCurrSeqNo = Shift(rcvLastAck, Cur)
    BY <1>1, ShiftOff DEF Cur, Off
  <1>6. /\ Cur >= -1 /\ Ready >= 0 /\ Ready <= Filled /\ Filled + Cur <= RcvBufSize - 2
        /\ nextRead = Shift(rcvLastAck, -Ready)
    BY DEF WindowOK
  <1>7. Cur \in -1..(RcvBufSize - 2) /\ Ready \in 0..(RcvBufSize - 1)
    BY <1>2, <1>3, <1>4, <1>5, <1>6, ListConstants
  <1>8. IncSeq(rcvCurrSeqNo) = Shift(rcvLastAck, Cur + 1)
    <2>1. CASE rcvCurrSeqNo = -1
      <3>1. Shift(0, 0) = 0
        BY SeqNoAssumption DEF Shift
      <3>. QED  BY <1>4, <2>1, <3>1
    <2>2. CASE rcvCurrSeqNo # -1
      <3>1. Cur \in Int /\ -SeqNoTH <= Cur /\ Cur <= SeqNoTH
        BY <1>7, ListConstants, SeqNoAssumption
      <3>. QED  BY <1>1, <1>5, <2>2, <3>1, NextShift
    <2>. QED  BY <2>1, <2>2
  <1>. QED  BY <1>1, <1>2, <1>4, <1>5, <1>6, <1>7, <1>8

(* A number within the ring's reach is held or missing as its distance     *)
(* says, counted from the last acknowledged packet or the one to read.     *)
LEMMA Distances ==
    ASSUME Typed, WindowOK, NEW o \in (1 - RcvBufSize)..(RcvBufSize - 1)
    PROVE  /\ Shift(rcvLastAck, o) \in SeqNos /\ Off(Shift(rcvLastAck, o)) = o
           /\ Shift(nextRead, o) = Shift(rcvLastAck, o - Ready)
           /\ Shift(nextRead, o + Ready) = Shift(rcvLastAck, o)
  <1>1. /\ rcvLastAck \in SeqNos /\ Ready \in 0..(RcvBufSize - 1)
        /\ nextRead = Shift(rcvLastAck, -Ready)
    BY Numbers
  <1>2. Shift(rcvLastAck, o) \in SeqNos /\ Off(Shift(rcvLastAck, o)) = o
    BY <1>1, DistanceOfShift DEF Off
  <1>3. PICK r \in 0..(RcvBufSize - 1) : r = Ready
    BY <1>1
  <1>4. /\ -r \in Int /\ -SeqNoTH <= -r /\ -r <= SeqNoTH /\ o \in Int /\ o + r \in Int
        /\ -SeqNoTH <= o /\ o <= SeqNoTH
    BY ListConstants
  <1>5. Shift(nextRead, o) = Shift(rcvLastAck, -r + o)
    BY <1>1, <1>3, <1>4, ShiftShift
  <1>6. -r + o = o - r
    OBVIOUS
  <1>7. Shift(nextRead, o + r) = Shift(rcvLastAck, o)
    <2>1. Shift(nextRead, o + r) = (nextRead + (o + r)) % (MaxSeqNo + 1)
      BY DEF Shift
    <2>2. nextRead = Wrapped(rcvLastAck - r)
      <3>1. -(MaxSeqNo + 1) <= -r /\ -r <= MaxSeqNo + 1
        BY ListConstants, SeqNoAssumption
      <3>2. nextRead = Wrapped(rcvLastAck + (-r))
        BY <1>1, <1>3, <1>4, <3>1, ShiftIs
      <3>. QED  BY <1>1, <3>2, SeqNoAssumption DEF SeqNos
    <2>3. Shift(nextRead, o + r) = Wrapped(nextRead + (o + r)) /\ nextRead \in SeqNos
      <3>1. -(MaxSeqNo + 1) <= o + r /\ o + r <= MaxSeqNo + 1
        BY ListConstants, SeqNoAssumption
      <3>. QED  BY <1>4, <3>1, Numbers, ShiftIs
    <2>4. Shift(rcvLastAck, o) = Wrapped(rcvLastAck + o)
      <3>1. -(MaxSeqNo + 1) <= o /\ o <= MaxSeqNo + 1
        BY ListConstants, SeqNoAssumption
      <3>. QED  BY <1>1, <1>4, <3>1, ShiftIs
    <2>5. /\ r <= SeqNoTH /\ -SeqNoTH < o /\ o < SeqNoTH
      BY ListConstants
    <2>. QED  BY <1>1, <2>2, <2>3, <2>4, <2>5, SeqNoAssumption DEF SeqNos, Wrapped
  <1>. QED  BY <1>2, <1>3, <1>5, <1>6, <1>7

LEMMA HeldNumber ==
    ASSUME Typed, WindowOK, HeldOK, NEW s \in held
    PROVE  /\ s \in SeqNos /\ Off(s) \in (-Ready)..Cur /\ s = Shift(rcvLastAck, Off(s))
           /\ Off(s) \in (1 - RcvBufSize)..(RcvBufSize - 1)
  <1>1. s \in SeqNos /\ rcvLastAck \in SeqNos
    BY DEF Typed
  <1>2. Off(s) \in Int /\ s = Shift(rcvLastAck, Off(s))
    BY <1>1, ShiftOff DEF Off
  <1>3. -Ready <= Off(s) /\ Off(s) <= Cur
    BY DEF HeldOK
  <1>4. Off(s) \in (-Ready)..Cur
    BY <1>2, <1>3, Numbers
  <1>5. Ready \in 0..(RcvBufSize - 1) /\ Cur \in -1..(RcvBufSize - 2)
    BY Numbers
  <1>6. Off(s) \in (1 - RcvBufSize)..(RcvBufSize - 1)
    BY <1>2, <1>3, <1>5, ListConstants
  <1>. QED  BY <1>1, <1>2, <1>4, <1>6

(* Positions of the ring.                                                  *)
LEMMA SlotAt ==
    ASSUME NEW b \in Slots, NEW d \in 0..RcvBufSize
    PROVE  /\ (b + d) % RcvBufSize \in Slots
           /\ (b + d) % RcvBufSize = IF b + d < RcvBufSize THEN b + d ELSE b + d - RcvBufSize
  <1>1. b \in 0..(RcvBufSize - 1) /\ b + d \in Int /\ 0 <= b + d /\ b + d < 2 * RcvBufSize
    BY ListConstants DEF Slots
  <1>. QED  BY <1>1, ListConstants, Remainder DEF Slots

LEMMA SlotBetween ==
    ASSUME NEW a \in Slots, NEW b \in Slots
    PROVE  (a - b) % RcvBufSize = IF b <= a THEN a - b ELSE a - b + RcvBufSize
  <1>1. a \in 0..(RcvBufSize - 1) /\ b \in 0..(RcvBufSize - 1) /\ a - b \in Int
        /\ -RcvBufSize <= a - b /\ a - b < 2 * RcvBufSize
    BY ListConstants DEF Slots
  <1>. QED  BY <1>1, ListConstants, Remainder

LEMMA Positions ==
    ASSUME Typed, WindowOK
    PROVE  /\ Begin \in Slots /\ startPos \in Slots /\ lastAckPos \in Slots
           /\ Filled = IF startPos <= lastAckPos THEN lastAckPos - startPos
                       ELSE lastAckPos - startPos + RcvBufSize
           /\ lastAckPos = IF Begin + Ready < RcvBufSize THEN Begin + Ready
                           ELSE Begin + Ready - RcvBufSize
           /\ (lastAckPos - Begin) % RcvBufSize = Ready
  <1>1. Begin \in Slots /\ startPos \in Slots /\ lastAckPos \in Slots
    BY DEF Typed, Begin
  <1>2. Filled = IF startPos <= lastAckPos THEN lastAckPos - startPos
                 ELSE lastAckPos - startPos + RcvBufSize
    BY <1>1, SlotBetween DEF Filled
  <1>3. Ready \in 0..(RcvBufSize - 1) /\ Ready \in 0..RcvBufSize
    BY Numbers, ListConstants
  <1>4. lastAckPos = IF Begin + Ready < RcvBufSize THEN Begin + Ready
                     ELSE Begin + Ready - RcvBufSize
    BY <1>1, <1>3, SlotAt DEF WindowOK
  <1>5. (lastAckPos - Begin) % RcvBufSize = Ready
    <2>1. (lastAckPos - Begin) % RcvBufSize = IF Begin <= lastAckPos THEN lastAckPos - Begin
                                              ELSE lastAckPos - Begin + RcvBufSize
      BY <1>1, SlotBetween
    <2>. QED  BY <1>1, <1>3, <1>4, <2>1, ListConstants DEF Slots
  <1>. QED  BY <1>1, <1>2, <1>4, <1>5

LEMMA RingAt ==
    RingIsStream <=>
        \A d \in 0..(RcvBufSize - 1) :
            IF Shift(nextRead, d) \in held
            THEN /\ unit[(Begin + d) % RcvBufSize] # NULL
                 /\ unit[(Begin + d) % RcvBufSize].seq = Shift(nextRead, d)
            ELSE unit[(Begin + d) % RcvBufSize] = NULL
  BY DEF RingIsStream, Begin

(* How much of the ring a packet that comes sees as taken.                 *)
LEMMA DataSizeBounds ==
    ASSUME Typed, WindowOK, PacketOK, rcvPc = "room"
    PROVE  DataSize \in Int /\ Filled <= DataSize
  <1>1. startPos \in Slots /\ lastAckPos \in Slots /\ ahead \in BOOLEAN
        /\ Filled = IF startPos <= lastAckPos THEN lastAckPos - startPos
                    ELSE lastAckPos - startPos + RcvBufSize
    BY Positions DEF Typed
  <1>2. ahead => startPos <= lastAckPos
    BY DEF PacketOK
  <1>3. DataSize = IF ahead THEN lastAckPos - startPos ELSE RcvBufSize + lastAckPos - startPos
    BY DEF DataSize
  <1>4. CASE ahead
    BY <1>1, <1>2, <1>3, <1>4, ListConstants DEF Slots
  <1>5. CASE ~ahead
    BY <1>1, <1>3, <1>5, ListConstants DEF Slots
  <1>. QED  BY <1>4, <1>5

(* Consecutive numbers are as many as their distances.                     *)
LEMMA RunOfNumbers ==
    ASSUME NEW c \in SeqNos, NEW u \in 0..(RcvBufSize - 1), NEW v \in -1..(RcvBufSize - 2),
           u <= v + 1
    PROVE  LET S == {Shift(c, k) : k \in u..v}
           IN  IsFiniteSet(S) /\ Cardinality(S) = v - u + 1
  <1>. DEFINE S == {Shift(c, k) : k \in u..v}
              f == [k \in u..v |-> Shift(c, k)]
  <1>1. \A k, m \in u..v : Shift(c, k) = Shift(c, m) => k = m
    <2>. TAKE k, m \in u..v
    <2>1. k \in (1 - RcvBufSize)..(RcvBufSize - 1) /\ m \in (1 - RcvBufSize)..(RcvBufSize - 1)
      BY ListConstants
    <2>2. SeqOff(c, Shift(c, k)) = k /\ SeqOff(c, Shift(c, m)) = m
      BY <2>1, DistanceOfShift
    <2>. QED  BY <2>2
  <1>2. f \in [u..v -> S] /\ (\A k, m \in u..v : f[k] = f[m] => k = m)
        /\ (\A t \in S : \E k \in u..v : f[k] = t)
    BY <1>1
  <1>3. ExistsBijection(u..v, S)
    <2>. HIDE DEF f, S
    <2>1. f \in Injection(u..v, S)
      BY <1>2 DEF Injection, IsInjective
    <2>2. f \in Surjection(u..v, S)
      BY <1>2 DEF Surjection
    <2>. QED  BY <2>1, <2>2 DEF ExistsBijection, Bijection
  <1>4. u \in Int /\ v \in Int
    BY ListConstants
  <1>5. IsFiniteSet(u..v) /\ Cardinality(u..v) = IF u > v THEN 0 ELSE v - u + 1
    BY <1>4, FS_Interval
  <1>6. IsFiniteSet(S) /\ Cardinality(S) = Cardinality(u..v)
    BY <1>3, <1>5, FS_Bijection
  <1>. QED  BY <1>4, <1>5, <1>6

(* The numbers missing are those at the distances in Gaps, and finite.     *)
GapsOf(c, n, h) == {k \in 0..n : Shift(c, k) \notin h}
HolesOf(c, n, h) == {s \in SeqNos : SeqOff(c, s) \in 0..n /\ s \notin h}

LEMMA HolesAreGaps ==
    ASSUME NEW c \in SeqNos, NEW n \in -1..(RcvBufSize - 2), NEW h
    PROVE  /\ GapsOf(c, n, h) \subseteq 0..(RcvBufSize - 2)
           /\ HolesOf(c, n, h) = {Shift(c, k) : k \in GapsOf(c, n, h)}
           /\ HolesOf(c, n, h) = {} <=> GapsOf(c, n, h) = {}
           /\ IsFiniteSet(HolesOf(c, n, h)) /\ Cardinality(HolesOf(c, n, h)) \in 0..RcvBufSize
  <1>. DEFINE G == GapsOf(c, n, h)
              S == HolesOf(c, n, h)
  <1>1. G \subseteq 0..(RcvBufSize - 2)
    BY ListConstants DEF GapsOf
  <1>2. ASSUME NEW k \in 0..n PROVE Shift(c, k) \in SeqNos /\ SeqOff(c, Shift(c, k)) = k
    <2>1. k \in (1 - RcvBufSize)..(RcvBufSize - 1)
      BY ListConstants
    <2>. QED  BY <2>1, DistanceOfShift
  <1>3. ASSUME NEW s \in S PROVE SeqOff(c, s) \in G /\ s = Shift(c, SeqOff(c, s))
    BY <1>3, ShiftOff DEF GapsOf, HolesOf
  <1>4. ASSUME NEW k \in G PROVE Shift(c, k) \in S
    BY <1>2, <1>4 DEF GapsOf, HolesOf
  <1>5. S = {Shift(c, k) : k \in G}
    BY <1>3, <1>4
  <1>6. S \in SUBSET {Shift(c, k) : k \in 0..n}
    BY <1>5 DEF GapsOf
  <1>7. /\ IsFiniteSet({Shift(c, k) : k \in 0..n})
        /\ Cardinality({Shift(c, k) : k \in 0..n}) = n - 0 + 1
    <2>1. 0 \in 0..(RcvBufSize - 1) /\ 0 <= n + 1
      BY ListConstants
    <2>. QED  BY <2>1, RunOfNumbers
  <1>8. IsFiniteSet(S) /\ Cardinality(S) <= n + 1
    BY <1>6, <1>7, FS_Subset
  <1>9. Cardinality(S) \in Nat
    BY <1>8, FS_CardinalityType
  <1>10. S = {} <=> G = {}
    BY <1>5
  <1>11. Cardinality(S) \in 0..RcvBufSize
    BY <1>8, <1>9, ListConstants
  <1>. QED  BY <1>1, <1>5, <1>8, <1>10, <1>11

-----------------------------------------------------------------------------
(* Parts of the invariant that a step leaves alone.                        *)
LEMMA SameWindow ==
    ASSUME rcvLastAck' = rcvLastAck, rcvCurrSeqNo' = rcvCurrSeqNo, held' = held,
           loss' = loss
    PROVE  Cur' = Cur /\ Gaps' = Gaps /\ (ListOK => ListOK')
  <1>1. Cur' = Cur
    BY DEF Cur, Off
  <1>2. Gaps' = Gaps
    BY <1>1 DEF Gaps
  <1>3. Holes' = Holes
    BY DEF Holes, Off
  <1>. QED  BY <1>1, <1>2, <1>3 DEF ListOK

LEMMA StutterStep ==
    ASSUME IInv, UNCHANGED vars
    PROVE  IInv'
  <1>1. /\ UNCHANGED <<rcvLastAck, rcvCurrSeqNo, lastAckPos, maxPos, loss>>
        /\ UNCHANGED <<rcvPc, packet, ahead>>
        /\ UNCHANGED <<startPos, notch, readPc, p, lastack, rs, nextRead, readFrom>>
        /\ unit' = unit /\ held' = held
    BY DEF vars, rcvVars, thrVars, readVars
  <1>2. Typed'
    BY <1>1 DEF IInv, Typed
  <1>3. Cur' = Cur /\ Ready' = Ready /\ Begin' = Begin /\ Filled' = Filled
    BY <1>1 DEF Cur, Off, Ready, Begin, Filled
  <1>4. WindowOK'
    BY <1>1, <1>3 DEF IInv, WindowOK
  <1>5. HeldOK' /\ NotchOK' /\ PacketOK'
    BY <1>1, <1>3 DEF IInv, HeldOK, NotchOK, PacketOK, Off
  <1>6. RingIsStream'
    BY <1>1 DEF IInv, RingIsStream
  <1>7. ListOK'
    BY <1>1, SameWindow DEF IInv
  <1>. QED  BY <1>2, <1>4, <1>5, <1>6, <1>7 DEF IInv

LEMMA DataArrivesStep ==
    ASSUME IInv, NEW pkt \in Arrivals, DataArrives(pkt)
    PROVE  IInv'
  <1>1. /\ UNCHANGED <<rcvLastAck, rcvCurrSeqNo, lastAckPos, maxPos, loss>>
        /\ UNCHANGED <<startPos, notch, readPc, p, lastack, rs, nextRead, readFrom>>
        /\ unit' = unit /\ held' = held
        /\ rcvPc' = "room" /\ packet' = pkt /\ ahead' = (lastAckPos >= startPos)
        /\ SeqOff(rcvLastAck, pkt.seq) >= 0
    BY DEF DataArrives, rcvVars, readVars
  <1>2. pkt \in [seq : SeqNos, len : Lens] /\ pkt # NULL
    <2>1. \A d \in (-Late)..Ahead : Shift(rcvLastAck, d) \in SeqNos
      <3>. TAKE d \in (-Late)..Ahead
      <3>1. /\ d \in Int /\ -(MaxSeqNo + 1) <= d /\ d <= MaxSeqNo + 1
            /\ rcvLastAck \in SeqNos
        BY ReceiverAssumption, SeqNoAssumption DEF IInv, Typed
      <3>. QED  BY <3>1, ShiftIs
    <2>2. pkt \in [seq : SeqNos, len : Lens]
      BY <2>1 DEF Arrivals
    <2>. QED  BY <2>2, ReceiverAssumption
  <1>3. startPos \in Int /\ lastAckPos \in Int
    BY ListConstants DEF IInv, Typed, Slots
  <1>4. Typed'
    BY <1>1, <1>2 DEF IInv, Typed
  <1>5. Cur' = Cur /\ Ready' = Ready /\ Begin' = Begin /\ Filled' = Filled
    BY <1>1 DEF Cur, Off, Ready, Begin, Filled
  <1>6. WindowOK'
    BY <1>1, <1>5 DEF IInv, WindowOK
  <1>7. HeldOK' /\ NotchOK'
    BY <1>1, <1>5 DEF IInv, HeldOK, NotchOK, Off
  <1>8. PacketOK'
    BY <1>1, <1>2, <1>3 DEF PacketOK, Off
  <1>9. RingIsStream'
    BY <1>1 DEF IInv, RingIsStream
  <1>10. ListOK'
    BY <1>1, SameWindow DEF IInv
  <1>. QED  BY <1>4, <1>6, <1>7, <1>8, <1>9, <1>10 DEF IInv

LEMMA ReadStartStep ==
    ASSUME IInv, NEW len \in ReadSizes, ReadStart(len)
    PROVE  IInv'
  <1>1. /\ UNCHANGED <<rcvLastAck, rcvCurrSeqNo, lastAckPos, maxPos, loss>>
        /\ UNCHANGED <<rcvPc, packet, ahead>>
        /\ UNCHANGED <<startPos, notch, nextRead, readFrom>>
        /\ unit' = unit /\ held' = held
        /\ readPc = "idle" /\ readPc' = "reading"
        /\ p' = startPos /\ lastack' = lastAckPos /\ rs' = len
    BY DEF ReadStart, rcvVars, thrVars
  <1>2. len \in Nat
    BY ReceiverAssumption
  <1>3. Typed'
    BY <1>1, <1>2 DEF IInv, Typed
  <1>4. Cur' = Cur /\ Ready' = Ready /\ Filled' = Filled
    BY <1>1 DEF Cur, Off, Ready, Filled
  <1>5. Begin' = startPos /\ Begin = startPos
    BY <1>1 DEF Begin
  <1>6. WindowOK'
    <2>1. (lastack' - p') % RcvBufSize <= Ready
      <3>1. (lastAckPos - startPos) % RcvBufSize = Ready /\ Ready \in Int
        BY <1>5, Positions, Numbers DEF IInv
      <3>. QED  BY <1>1, <3>1
    <2>. QED  BY <1>1, <1>4, <1>5, <2>1 DEF IInv, WindowOK
  <1>7. HeldOK' /\ NotchOK'
    BY <1>1, <1>4, <1>5 DEF IInv, HeldOK, NotchOK, Off
  <1>8. PacketOK'
    BY <1>1 DEF IInv, PacketOK, Off
  <1>9. RingIsStream'
    BY <1>1 DEF IInv, RingIsStream
  <1>10. ListOK'
    BY <1>1, SameWindow DEF IInv
  <1>. QED  BY <1>3, <1>6, <1>7, <1>8, <1>9, <1>10 DEF IInv

LEMMA ReadEndStep ==
    ASSUME IInv, ReadEnd
    PROVE  IInv'
  <1>1. /\ UNCHANGED <<rcvLastAck, rcvCurrSeqNo, lastAckPos, maxPos, loss>>
        /\ UNCHANGED <<rcvPc, packet, ahead>>
        /\ UNCHANGED <<notch, nextRead, readFrom>>
        /\ unit' = unit /\ held' = held
        /\ readPc = "reading" /\ readPc' = "idle"
        /\ startPos' = p /\ p' = 0 /\ lastack' = 0 /\ rs' = 0
    BY DEF ReadEnd, rcvVars, thrVars
  <1>2. Typed'
    <2>1. 0 \in Slots
      BY ListConstants DEF Slots
    <2>. QED  BY <1>1, <2>1 DEF IInv, Typed
  <1>3. Cur' = Cur /\ Ready' = Ready
    BY <1>1 DEF Cur, Off, Ready
  <1>4. Begin' = p /\ Begin = p
    BY <1>1 DEF Begin
  <1>5. Filled' = Ready /\ Ready \in Int
    <2>1. Filled' = (lastAckPos - p) % RcvBufSize
      BY <1>1 DEF Filled
    <2>. QED  BY <1>4, <2>1, Positions, Numbers DEF IInv
  <1>6. WindowOK'
    <2>1. Ready <= Filled' /\ Filled' + Cur <= RcvBufSize - 2
      <3>1. PICK r, f, n \in Int : r = Ready /\ f = Filled /\ n = Cur
        BY Numbers DEF IInv
      <3>2. r <= f /\ f + n <= RcvBufSize - 2
        BY <3>1, Numbers DEF IInv
      <3>3. r + n <= RcvBufSize - 2
        BY <3>2, ListConstants
      <3>. QED  BY <1>5, <3>1, <3>3
    <2>. QED  BY <1>1, <1>3, <1>4, <2>1 DEF IInv, WindowOK
  <1>7. HeldOK' /\ NotchOK'
    BY <1>1, <1>3, <1>4 DEF IInv, HeldOK, NotchOK, Off
  <1>8. PacketOK'
    <2>1. ASSUME startPos <= lastAckPos PROVE p <= lastAckPos
      <3>1. /\ p \in Slots /\ startPos \in Slots /\ lastAckPos \in Slots
            /\ Filled = lastAckPos - startPos
            /\ lastAckPos = IF p + Ready < RcvBufSize THEN p + Ready ELSE p + Ready - RcvBufSize
        BY <1>4, <2>1, Positions DEF IInv
      <3>2. Ready \in 0..(RcvBufSize - 1) /\ Ready <= Filled
        BY Numbers DEF IInv
      <3>. QED  BY <3>1, <3>2, ListConstants DEF Slots
    <2>. QED  BY <1>1, <2>1 DEF IInv, PacketOK, Off
  <1>9. RingIsStream'
    BY <1>1 DEF IInv, RingIsStream
  <1>10. ListOK'
    BY <1>1, SameWindow DEF IInv
  <1>. QED  BY <1>2, <1>6, <1>7, <1>8, <1>9, <1>10 DEF IInv

(* The unit that the application is at.                                    *)
LEMMA UnitToRead ==
    ASSUME IInv, Reading
    PROVE  /\ readPc = "reading" /\ Begin = p /\ Ready >= 1 /\ p \in Slots
           /\ nextRead \in held /\ Shift(nextRead, 0) = nextRead
           /\ unit[p] \in [seq : SeqNos, len : Lens] /\ unit[p] # NULL /\ unit[p].seq = nextRead
           /\ unit[p].len \in Nat /\ notch < unit[p].len /\ notch = readFrom
           /\ (lastack - p) % RcvBufSize <= Ready
           /\ (lastack - p) % RcvBufSize = IF p <= lastack THEN lastack - p
                                           ELSE lastack - p + RcvBufSize
  <1>1. /\ readPc = "reading" /\ p # lastack /\ Begin = p
        /\ p \in Slots /\ lastack \in Slots /\ Typed /\ WindowOK /\ HeldOK
    BY DEF Reading, Begin, IInv, Typed
  <1>2. (lastack - p) % RcvBufSize = IF p <= lastack THEN lastack - p
                                     ELSE lastack - p + RcvBufSize
    BY <1>1, SlotBetween
  <1>3. (lastack - p) % RcvBufSize <= Ready
    BY <1>1 DEF WindowOK
  <1>4. Ready \in 0..(RcvBufSize - 1) /\ nextRead = Shift(rcvLastAck, -Ready)
    BY <1>1, Numbers
  <1>5. Ready >= 1
    BY <1>1, <1>2, <1>3, <1>4, ListConstants DEF Slots
  <1>6. Shift(nextRead, 0) = nextRead
    BY <1>1, SeqNoAssumption DEF Typed, Shift, SeqNos
  <1>7. nextRead \in held
    <2>1. 0 \in 0..(Ready - 1)
      BY <1>4, <1>5
    <2>. QED  BY <1>1, <1>6, <2>1 DEF HeldOK
  <1>8. unit[p] # NULL /\ unit[p].seq = nextRead
    <2>1. 0 \in 0..(RcvBufSize - 1) /\ 0 \in 0..RcvBufSize
      BY ListConstants
    <2>2. (p + 0) % RcvBufSize = p
      <3>1. (p + 0) % RcvBufSize = IF p + 0 < RcvBufSize THEN p + 0 ELSE p + 0 - RcvBufSize
        BY <1>1, <2>1, SlotAt
      <3>. QED  BY <1>1, <3>1, ListConstants DEF Slots
    <2>. QED  BY <1>1, <1>6, <1>7, <2>1, <2>2, RingAt DEF IInv
  <1>9. unit[p] \in [seq : SeqNos, len : Lens]
    BY <1>1, <1>8 DEF Typed
  <1>10. unit[p].len \in Nat
    BY <1>9, ReceiverAssumption
  <1>11. notch < unit[p].len /\ notch = readFrom
    BY <1>1, <1>4, <1>5 DEF IInv, NotchOK
  <1>. QED  BY <1>1, <1>2, <1>3, <1>5, <1>6, <1>7, <1>8, <1>9, <1>10, <1>11

(* The rest of the unit is not read.                                       *)
LEMMA ReadSomeStep ==
    ASSUME IInv, ReadUnit, unit[p].len - notch > rs
    PROVE  IInv'
  <1>1. /\ Reading /\ rs \in Nat /\ rs > 0 /\ notch \in Nat /\ readFrom = notch
        /\ unit[p].len \in Nat /\ Begin = p /\ Ready >= 1 /\ Ready \in Int
    BY UnitToRead, Numbers DEF ReadUnit, Reading, IInv, Typed
  <1>2. /\ UNCHANGED <<rcvLastAck, rcvCurrSeqNo, lastAckPos, maxPos, loss>>
        /\ UNCHANGED <<rcvPc, packet, ahead, startPos, readPc, lastack>>
    BY DEF ReadUnit, rcvVars, thrVars
  <1>3. /\ UNCHANGED <<unit, p, held, nextRead>>
        /\ readFrom' = readFrom + rs /\ notch' = notch + rs /\ rs' = 0
    <2>1. PICK left : left = unit[p].len - notch /\ left > rs /\ left \in Int
      BY <1>1
    <2>2. ~(rs > rs \/ rs = left)
      BY <1>1, <2>1
    <2>3. rs - rs = 0
      BY <1>1
    <2>. QED  BY <2>1, <2>2, <2>3 DEF ReadUnit, NotchAfter
  <1>4. Typed'
    <2>1. notch + rs \in Nat /\ readFrom + rs \in Nat
      BY <1>1
    <2>. QED  BY <1>2, <1>3, <2>1 DEF IInv, Typed
  <1>5. Cur' = Cur /\ Ready' = Ready /\ Begin' = Begin /\ Filled' = Filled
    BY <1>2, <1>3 DEF Cur, Off, Ready, Begin, Filled
  <1>6. WindowOK'
    BY <1>2, <1>3, <1>5 DEF IInv, WindowOK
  <1>7. HeldOK'
    BY <1>2, <1>3, <1>5 DEF IInv, HeldOK, Off
  <1>8. NotchOK'
    <2>1. notch + rs < unit[p].len
      BY <1>1
    <2>. QED  BY <1>1, <1>3, <1>5, <2>1 DEF NotchOK
  <1>9. PacketOK'
    BY <1>2, <1>3 DEF IInv, PacketOK, Off
  <1>10. RingIsStream'
    BY <1>2, <1>3 DEF IInv, RingIsStream
  <1>11. ListOK'
    BY <1>2, <1>3, SameWindow DEF IInv
  <1>. QED  BY <1>4, <1>6, <1>7, <1>8, <1>9, <1>10, <1>11 DEF IInv

(* The unit is read to its end and freed.                                  *)
LEMMA ReadAllStep ==
    ASSUME IInv, ReadUnit, ~(unit[p].len - notch > rs)
    PROVE  IInv'
  <1>1. /\ readPc = "reading" /\ Begin = p /\ p \in Slots
        /\ rs \in Nat /\ notch \in Nat /\ unit[p].len \in Nat
        /\ nextRead \in held /\ nextRead \in SeqNos /\ held \subseteq SeqNos
        /\ Typed /\ WindowOK /\ HeldOK
    BY UnitToRead DEF ReadUnit, Reading, IInv, Typed
  <1>2. /\ UNCHANGED <<rcvLastAck, rcvCurrSeqNo, lastAckPos, maxPos, loss>>
        /\ UNCHANGED <<rcvPc, packet, ahead, startPos, readPc, lastack>>
    BY DEF ReadUnit, rcvVars, thrVars
  <1>3. PICK left : left = unit[p].len - notch /\ left <= rs /\ left \in Int
    BY <1>1
  <1>4. /\ unit' = [unit EXCEPT ![p] = NULL]
        /\ p' = IF p + 1 = RcvBufSize THEN 0 ELSE p + 1
        /\ held' = held \ {nextRead}
        /\ nextRead' = Shift(nextRead, 1) /\ readFrom' = 0
        /\ notch' = 0 /\ rs' = rs - left
    <2>1. left = IF left > rs THEN rs ELSE left
      BY <1>1, <1>3
    <2>2. rs > left \/ rs = left
      BY <1>1, <1>3
    <2>. QED  BY <1>3, <2>1, <2>2 DEF ReadUnit, NotchAfter
  <1>5. PICK r \in 1..(RcvBufSize - 1), n \in -1..(RcvBufSize - 2), f \in 0..(RcvBufSize - 1) :
            /\ r = Ready /\ n = Cur /\ f = Filled /\ r <= f /\ f + n <= RcvBufSize - 2
            /\ rcvLastAck \in SeqNos /\ nextRead = Shift(rcvLastAck, -r)
    <2>1. Ready >= 1
      BY UnitToRead DEF ReadUnit
    <2>. QED  BY <1>1, <2>1, Numbers
  <1>6. nextRead' = Shift(rcvLastAck, -(r - 1)) /\ nextRead' \in SeqNos /\ Ready' = r - 1
    <2>1. /\ 1 \in (1 - RcvBufSize)..(RcvBufSize - 1)
          /\ -(r - 1) \in (1 - RcvBufSize)..(RcvBufSize - 1) /\ 1 - r = -(r - 1)
      BY ListConstants
    <2>2. nextRead' = Shift(rcvLastAck, -(r - 1))
      BY <1>1, <1>4, <1>5, <2>1, Distances
    <2>3. nextRead' \in SeqNos
      BY <1>5, <2>1, <2>2, DistanceOfShift
    <2>4. SeqOff(Shift(rcvLastAck, -(r - 1)), Shift(rcvLastAck, 0)) = 0 - (-(r - 1))
      <3>1. /\ -(r - 1) \in Int /\ -SeqNoTH <= -(r - 1) /\ -(r - 1) <= SeqNoTH
            /\ -SeqNoTH <= 0 /\ 0 <= SeqNoTH
            /\ -SeqNoTH < 0 - (-(r - 1)) /\ 0 - (-(r - 1)) < SeqNoTH
        BY ListConstants
      <3>. QED  BY <1>5, <3>1, OffShift
    <2>5. Shift(rcvLastAck, 0) = rcvLastAck
      BY <1>5, SeqNoAssumption DEF Shift, SeqNos
    <2>6. Ready' = SeqOff(nextRead', rcvLastAck)
      BY <1>2 DEF Ready
    <2>7. 0 - (-(r - 1)) = r - 1
      OBVIOUS
    <2>. QED  BY <2>2, <2>3, <2>4, <2>5, <2>6, <2>7
  <1>7. p' \in Slots /\ p' = IF p + 1 < RcvBufSize THEN p + 1 ELSE p + 1 - RcvBufSize
    BY <1>1, <1>4, ListConstants DEF Slots
  <1>8. Typed'
    <2>1. rs - left \in Nat
      BY <1>1, <1>3
    <2>2. unit' \in [Slots -> [seq : SeqNos, len : Lens] \cup {NULL}]
      BY <1>1, <1>4 DEF Typed
    <2>3. held' \subseteq SeqNos
      BY <1>1, <1>4
    <2>. QED  BY <1>2, <1>4, <1>6, <1>7, <2>1, <2>2, <2>3 DEF IInv, Typed
  <1>9. Cur' = Cur /\ Begin' = p' /\ Filled' = Filled
    BY <1>1, <1>2 DEF Cur, Off, Begin, Filled
  <1>10. Gaps' = Gaps /\ Holes' = Holes
    <2>1. ASSUME NEW k \in 0..n PROVE Shift(rcvLastAck, k) # nextRead
      <3>1. /\ k \in (1 - RcvBufSize)..(RcvBufSize - 1)
            /\ -r \in (1 - RcvBufSize)..(RcvBufSize - 1)
        BY ListConstants
      <3>2. Off(Shift(rcvLastAck, k)) = k /\ Off(Shift(rcvLastAck, -r)) = -r
        BY <1>1, <3>1, Distances
      <3>. QED  BY <1>5, <3>2
    <2>2. Gaps' = Gaps
      BY <1>2, <1>4, <1>5, <1>9, <2>1 DEF Gaps
    <2>3. ASSUME NEW s \in SeqNos, Off(s) \in 0..n PROVE s # nextRead
      BY <1>5, <2>1, <2>3, ShiftOff DEF Off
    <2>4. Holes' = {s \in SeqNos : Off(s) \in 0..n /\ s \notin held'}
      BY <1>2, <1>5 DEF Holes, Off, Cur
    <2>5. Holes = {s \in SeqNos : Off(s) \in 0..n /\ s \notin held}
      BY <1>5 DEF Holes, Cur
    <2>. QED  BY <1>4, <2>2, <2>3, <2>4, <2>5
  <1>11. ListOK'
    BY <1>2, <1>10 DEF IInv, ListOK
  <1>12. WindowOK'
    <2>1. /\ lastAckPos \in Slots
          /\ lastAckPos = IF p + r < RcvBufSize THEN p + r ELSE p + r - RcvBufSize
      BY <1>1, <1>5, Positions
    <2>2. (p' + (r - 1)) % RcvBufSize = lastAckPos
      <3>1. r - 1 \in 0..RcvBufSize
        BY ListConstants
      <3>2. (p' + (r - 1)) % RcvBufSize = IF p' + (r - 1) < RcvBufSize THEN p' + (r - 1)
                                          ELSE p' + (r - 1) - RcvBufSize
        BY <1>7, <3>1, SlotAt
      <3>. QED  BY <1>1, <1>7, <2>1, <3>2, ListConstants DEF Slots
    <2>3. (lastack - p') % RcvBufSize <= r - 1
      <3>1. lastack \in Slots /\ p # lastack
        BY <1>1 DEF Typed, ReadUnit, Reading
      <3>2. (lastack - p') % RcvBufSize = IF p' <= lastack THEN lastack - p'
                                          ELSE lastack - p' + RcvBufSize
        BY <1>7, <3>1, SlotBetween
      <3>3. r >= IF p <= lastack THEN lastack - p ELSE lastack - p + RcvBufSize
        BY <1>5, UnitToRead DEF ReadUnit
      <3>. QED  BY <1>1, <1>7, <3>1, <3>2, <3>3, ListConstants DEF Slots
    <2>4. -(r - 1) = -Ready' /\ Ready' >= 0 /\ Ready' <= Filled' /\ Filled' + Cur' <= RcvBufSize - 2
          /\ Cur' >= -1
      BY <1>5, <1>6, <1>9
    <2>. QED  BY <1>1, <1>2, <1>6, <1>9, <2>2, <2>3, <2>4 DEF WindowOK
  <1>13. \A d \in 0..(RcvBufSize - 2) : Shift(nextRead', d) = Shift(nextRead, d + 1)
    <2>. TAKE d \in 0..(RcvBufSize - 2)
    <2>1. /\ d \in Int /\ -SeqNoTH <= d /\ d <= SeqNoTH /\ -SeqNoTH <= 1 /\ 1 <= SeqNoTH
          /\ 1 + d = d + 1
      BY ListConstants
    <2>. QED  BY <1>1, <1>4, <2>1, ShiftShift
  <1>14. \A d \in 1..(RcvBufSize - 1) : Shift(nextRead, d) # nextRead
    <2>. TAKE d \in 1..(RcvBufSize - 1)
    <2>1. d \in (1 - RcvBufSize)..(RcvBufSize - 1)
      BY ListConstants
    <2>2. SeqOff(nextRead, Shift(nextRead, d)) = d
      BY <1>1, <2>1, DistanceOfShift
    <2>3. 0 \in (1 - RcvBufSize)..(RcvBufSize - 1)
      BY ListConstants
    <2>4. SeqOff(nextRead, Shift(nextRead, 0)) = 0 /\ Shift(nextRead, 0) = nextRead
      BY <1>1, <2>3, DistanceOfShift, UnitToRead DEF ReadUnit
    <2>. QED  BY <2>2, <2>4
  <1>15. HeldOK'
    <2>1. ASSUME NEW s \in held' PROVE -Ready' <= Off(s)' /\ Off(s)' <= Cur'
      <3>1. s \in held /\ s # nextRead /\ Off(s)' = Off(s)
        BY <1>2, <1>4 DEF Off
      <3>2. Off(s) \in (-r)..n /\ s = Shift(rcvLastAck, Off(s))
        BY <1>1, <1>5, <3>1, HeldNumber
      <3>3. Off(s) # -r
        BY <1>5, <3>1, <3>2
      <3>. QED  BY <1>5, <1>6, <1>9, <3>1, <3>2, <3>3
    <2>2. ASSUME NEW d \in 0..(Ready' - 1) PROVE Shift(nextRead', d) \in held'
      <3>1. /\ d \in 0..(RcvBufSize - 2) /\ d + 1 \in 1..(RcvBufSize - 1)
            /\ d + 1 \in 0..(r - 1)
        <4>1. d \in 0..((r - 1) - 1)
          BY <1>6
        <4>2. r \in Int /\ r <= RcvBufSize - 1 /\ d \in Int /\ 0 <= d /\ d <= r - 2
          BY <4>1, ListConstants
        <4>3. RcvBufSize \in Int
          BY ListConstants
        <4>. QED  BY <4>2, <4>3
      <3>2. Shift(nextRead', d) = Shift(nextRead, d + 1) /\ Shift(nextRead, d + 1) # nextRead
        BY <1>13, <1>14, <3>1
      <3>3. Shift(nextRead, d + 1) \in held
        BY <1>1, <1>5, <3>1 DEF HeldOK
      <3>. QED  BY <1>4, <3>2, <3>3
    <2>3. ASSUME Cur' >= 0 PROVE rcvCurrSeqNo' \in held'
      <3>1. n >= 0 /\ rcvCurrSeqNo \in held
        BY <1>1, <1>5, <1>9, <2>3 DEF HeldOK
      <3>2. rcvCurrSeqNo # nextRead
        <4>1. -r \in (1 - RcvBufSize)..(RcvBufSize - 1)
          BY ListConstants
        <4>2. Off(nextRead) = -r
          BY <1>1, <1>5, <4>1, Distances
        <4>. QED  BY <1>5, <3>1, <4>2 DEF Cur
      <3>. QED  BY <1>2, <1>4, <3>1, <3>2
    <2>. QED  BY <2>1, <2>2, <2>3 DEF HeldOK
  <1>16. RingIsStream'
    <2>1. ASSUME NEW d \in 0..(RcvBufSize - 2)
          PROVE  LET i == (Begin' + d) % RcvBufSize
                 IN  IF Shift(nextRead', d) \in held'
                     THEN unit'[i] # NULL /\ unit'[i].seq = Shift(nextRead', d)
                     ELSE unit'[i] = NULL
      <3>1. d + 1 \in 1..(RcvBufSize - 1) /\ d + 1 \in 0..(RcvBufSize - 1) /\ d \in 0..RcvBufSize
            /\ d + 1 \in 0..RcvBufSize
        BY ListConstants
      <3>2. PICK i : i = (p + (d + 1)) % RcvBufSize
        OBVIOUS
      <3>3. /\ i \in Slots
            /\ i = IF p + (d + 1) < RcvBufSize THEN p + (d + 1) ELSE p + (d + 1) - RcvBufSize
        BY <1>1, <3>1, <3>2, SlotAt
      <3>4. (p' + d) % RcvBufSize = IF p' + d < RcvBufSize THEN p' + d ELSE p' + d - RcvBufSize
        BY <1>7, <3>1, SlotAt
      <3>5. (p' + d) % RcvBufSize = i /\ i # p
        BY <1>1, <1>7, <3>1, <3>3, <3>4, ListConstants DEF Slots
      <3>6. unit'[i] = unit[i]
        BY <1>1, <1>4, <3>3, <3>5 DEF Typed
      <3>7. Shift(nextRead', d) = Shift(nextRead, d + 1) /\ Shift(nextRead, d + 1) # nextRead
        BY <1>13, <1>14, <3>1
      <3>8. IF Shift(nextRead, d + 1) \in held
            THEN unit[i] # NULL /\ unit[i].seq = Shift(nextRead, d + 1)
            ELSE unit[i] = NULL
        BY <1>1, <3>1, <3>2, RingAt DEF IInv
      <3>9. Shift(nextRead', d) \in held' <=> Shift(nextRead, d + 1) \in held
        BY <1>4, <3>7
      <3>. QED  BY <1>9, <3>5, <3>6, <3>7, <3>8, <3>9
    <2>2. LET d == RcvBufSize - 1
              i == (Begin' + d) % RcvBufSize
          IN  Shift(nextRead', d) \notin held' /\ unit'[i] = NULL
      <3>. DEFINE d == RcvBufSize - 1
      <3>1. d \in 0..RcvBufSize /\ d \in Int
        BY ListConstants
      <3>2. (p' + d) % RcvBufSize = IF p' + d < RcvBufSize THEN p' + d ELSE p' + d - RcvBufSize
        BY <1>7, <3>1, SlotAt
      <3>3. (p' + d) % RcvBufSize = p
        BY <1>1, <1>7, <3>2, ListConstants DEF Slots
      <3>4. unit'[p] = NULL
        BY <1>1, <1>4 DEF Typed
      <3>5. Shift(nextRead', d) = Shift(rcvLastAck, RcvBufSize - r)
        <4>1. /\ -(r - 1) \in Int /\ -SeqNoTH <= -(r - 1) /\ -(r - 1) <= SeqNoTH
              /\ -SeqNoTH <= d /\ d <= SeqNoTH
          BY ListConstants
        <4>2. -(r - 1) + d = RcvBufSize - r
          BY ListConstants
        <4>3. Shift(nextRead', d) = Shift(rcvLastAck, -(r - 1) + d)
          BY <1>5, <1>6, <3>1, <4>1, ShiftShift
        <4>. QED  BY <4>2, <4>3
      <3>6. RcvBufSize - r \in (1 - RcvBufSize)..(RcvBufSize - 1) /\ RcvBufSize - r > n
        BY <1>5, ListConstants
      <3>7. Off(Shift(rcvLastAck, RcvBufSize - r)) = RcvBufSize - r
        BY <1>1, <3>6, Distances
      <3>8. Shift(nextRead', d) \notin held
        BY <1>1, <1>5, <3>5, <3>6, <3>7, HeldNumber
      <3>. QED  BY <1>4, <1>9, <3>3, <3>4, <3>8
    <2>3. \A d \in 0..(RcvBufSize - 1) : d \in 0..(RcvBufSize - 2) \/ d = RcvBufSize - 1
      BY ListConstants
    <2>4. \A d \in 0..(RcvBufSize - 1) :
            LET i == (Begin' + d) % RcvBufSize
            IN  IF Shift(nextRead', d) \in held'
                THEN unit'[i] # NULL /\ unit'[i].seq = Shift(nextRead', d)
                ELSE unit'[i] = NULL
      BY <2>1, <2>2, <2>3
    <2>. QED  BY <2>4 DEF RingIsStream, Begin
  <1>17. NotchOK'
    <2>1. ASSUME r - 1 > 0 PROVE 0 < unit'[p'].len
      <3>1. 1 \in 0..(Ready - 1) /\ 1 \in 0..(RcvBufSize - 1) /\ 1 \in 0..RcvBufSize
        BY <1>5, <2>1, ListConstants
      <3>2. Shift(nextRead, 1) \in held
        BY <1>1, <3>1 DEF HeldOK
      <3>3. (p + 1) % RcvBufSize = p' /\ p' # p
        <4>1. (p + 1) % RcvBufSize = IF p + 1 < RcvBufSize THEN p + 1 ELSE p + 1 - RcvBufSize
          BY <1>1, <3>1, SlotAt
        <4>. QED  BY <1>1, <1>7, <4>1, ListConstants DEF Slots
      <3>4. unit[p'] # NULL
        BY <1>1, <3>1, <3>2, <3>3, RingAt DEF IInv
      <3>5. unit'[p'] = unit[p'] /\ unit[p'] \in [seq : SeqNos, len : Lens]
        BY <1>1, <1>4, <1>7, <3>3, <3>4 DEF Typed
      <3>6. unit'[p'].len \in Lens
        BY <3>5
      <3>7. PICK x : x = unit'[p'].len
        OBVIOUS
      <3>8. x \in Nat \ {0}
        BY <3>6, <3>7, ReceiverAssumption
      <3>9. 0 < x
        BY <3>8
      <3>. QED  BY <3>7, <3>9
    <2>2. r - 1 = 0 \/ r - 1 > 0
      OBVIOUS
    <2>. QED  BY <1>4, <1>6, <1>9, <2>1, <2>2 DEF NotchOK
  <1>18. PacketOK'
    BY <1>2 DEF IInv, PacketOK, Off
  <1>. QED  BY <1>8, <1>11, <1>12, <1>15, <1>16, <1>17, <1>18 DEF IInv

LEMMA ReadUnitStep ==
    ASSUME IInv, ReadUnit
    PROVE  IInv'
  BY ReadSomeStep, ReadAllStep

(* The packet is put into the ring at its place.                           *)
LEMMA PacketFits ==
    ASSUME IInv, rcvPc = "room"
    PROVE  LET o == SeqOff(rcvLastAck, packet.seq)
           IN  /\ packet \in [seq : SeqNos, len : Lens] /\ packet # NULL
               /\ o \in Nat /\ packet.seq = Shift(rcvLastAck, o)
               /\ o < AvailBufSize => o + Filled <= RcvBufSize - 2
               /\ AvailBufSize \in Int /\ AvailBufSize <= RcvBufSize - 1
  <1>1. packet \in [seq : SeqNos, len : Lens] /\ packet # NULL
        /\ SeqOff(rcvLastAck, packet.seq) >= 0 /\ rcvLastAck \in SeqNos
    BY DEF IInv, Typed, PacketOK, Off
  <1>2. PICK o : o = SeqOff(rcvLastAck, packet.seq) /\ o \in Nat
                 /\ packet.seq = Shift(rcvLastAck, o)
    BY <1>1, ShiftOff
  <1>3. PICK f, z \in Int : f = Filled /\ z = DataSize /\ f <= z /\ f >= 0
    BY DataSizeBounds, Numbers DEF IInv
  <1>4. AvailBufSize = RcvBufSize - z - 1
    BY <1>3 DEF AvailBufSize
  <1>5. o < AvailBufSize => o + f <= RcvBufSize - 2
    BY <1>2, <1>3, <1>4, ListConstants
  <1>. QED  BY <1>1, <1>2, <1>3, <1>4, <1>5, ListConstants

(* It is not taken.                                                        *)
LEMMA DataDroppedStep ==
    ASSUME IInv, DataHandled,
           UNCHANGED <<unit, held, rcvCurrSeqNo, loss>>
    PROVE  IInv'
  <1>1. /\ UNCHANGED <<rcvLastAck, lastAckPos>> /\ rcvPc = "room"
        /\ UNCHANGED <<startPos, notch, readPc, p, lastack, rs, nextRead, readFrom>>
        /\ rcvPc' = "idle" /\ packet' = NULL /\ ahead' = TRUE
    BY DEF DataHandled, readVars
  <1>2. maxPos' \in -1..(RcvBufSize - 1)
    <2>1. PICK o : o = SeqOff(rcvLastAck, packet.seq) /\ o \in Nat /\ AvailBufSize \in Int
                   /\ AvailBufSize <= RcvBufSize - 1
      BY <1>1, PacketFits
    <2>2. maxPos' = IF o < AvailBufSize /\ o > maxPos THEN o ELSE maxPos
      BY <2>1 DEF DataHandled
    <2>. QED  BY <2>1, <2>2, ListConstants DEF IInv, Typed
  <1>3. Typed'
    BY <1>1, <1>2 DEF IInv, Typed
  <1>4. Cur' = Cur /\ Ready' = Ready /\ Begin' = Begin /\ Filled' = Filled
    BY <1>1 DEF Cur, Off, Ready, Begin, Filled
  <1>5. WindowOK'
    BY <1>1, <1>4 DEF IInv, WindowOK
  <1>6. HeldOK' /\ NotchOK' /\ PacketOK'
    BY <1>1, <1>4 DEF IInv, HeldOK, NotchOK, PacketOK, Off
  <1>7. RingIsStream'
    BY <1>1 DEF IInv, RingIsStream
  <1>8. ListOK'
    BY <1>1, SameWindow DEF IInv
  <1>. QED  BY <1>3, <1>5, <1>6, <1>7, <1>8 DEF IInv

(* Where it goes, and that it had not come before.                         *)
LEMMA PacketIsNew ==
    ASSUME IInv, rcvPc = "room",
           SeqOff(rcvLastAck, packet.seq) < AvailBufSize,
           unit[SlotOf(SeqOff(rcvLastAck, packet.seq))] = NULL
    PROVE  LET o == SeqOff(rcvLastAck, packet.seq)
           IN  /\ o \in 0..(RcvBufSize - 2) /\ Ready + o \in 0..(RcvBufSize - 1)
               /\ packet.seq = Shift(rcvLastAck, o) /\ packet.seq = Shift(nextRead, Ready + o)
               /\ packet.seq \notin held
               /\ SlotOf(o) = (Begin + (Ready + o)) % RcvBufSize /\ SlotOf(o) \in Slots
  <1>1. PICK o \in Nat : /\ o = SeqOff(rcvLastAck, packet.seq)
                         /\ packet.seq = Shift(rcvLastAck, o)
                         /\ o + Filled <= RcvBufSize - 2
    BY PacketFits
  <1>2. PICK r, f \in 0..(RcvBufSize - 1) : r = Ready /\ f = Filled /\ r <= f
    BY Numbers DEF IInv
  <1>3. o \in 0..(RcvBufSize - 2) /\ r + o \in 0..(RcvBufSize - 2)
        /\ r + o \in 0..(RcvBufSize - 1) /\ o \in 0..RcvBufSize /\ r + o \in 0..RcvBufSize
    <2>1. o + f <= RcvBufSize - 2 /\ r <= f
      BY <1>1, <1>2
    <2>2. r + o <= RcvBufSize - 2 /\ o <= RcvBufSize - 2 /\ r + o \in Nat
      BY <2>1, ListConstants
    <2>. QED  BY <2>2, ListConstants
  <1>4. packet.seq = Shift(nextRead, r + o)
    <2>1. o \in (1 - RcvBufSize)..(RcvBufSize - 1) /\ o + r = r + o
      BY <1>3, ListConstants
    <2>. QED  BY <1>1, <1>2, <2>1, Distances DEF IInv
  <1>5. PICK b \in Slots : b = Begin
    BY Positions DEF IInv
  <1>6. /\ lastAckPos \in Slots
        /\ lastAckPos = IF b + r < RcvBufSize THEN b + r ELSE b + r - RcvBufSize
    BY <1>2, <1>5, Positions DEF IInv
  <1>7. SlotOf(o) = (b + (r + o)) % RcvBufSize /\ SlotOf(o) \in Slots
    <2>1. SlotOf(o) = (lastAckPos + o) % RcvBufSize
      BY DEF SlotOf
    <2>2. /\ (lastAckPos + o) % RcvBufSize \in Slots
          /\ (lastAckPos + o) % RcvBufSize = IF lastAckPos + o < RcvBufSize THEN lastAckPos + o
                                             ELSE lastAckPos + o - RcvBufSize
      BY <1>3, <1>6, SlotAt
    <2>3. (b + (r + o)) % RcvBufSize = IF b + (r + o) < RcvBufSize THEN b + (r + o)
                                       ELSE b + (r + o) - RcvBufSize
      BY <1>3, SlotAt
    <2>4. (lastAckPos + o) % RcvBufSize = (b + (r + o)) % RcvBufSize
      <3>1. PICK a \in 0..(RcvBufSize - 1) : a = lastAckPos
        BY <1>6 DEF Slots
      <3>2. b \in 0..(RcvBufSize - 1) /\ r + o <= RcvBufSize - 2
        BY <1>3 DEF Slots
      <3>3. a = IF b + r < RcvBufSize THEN b + r ELSE b + r - RcvBufSize
        BY <1>6, <3>1
      <3>4. (a + o) % RcvBufSize = IF a + o < RcvBufSize THEN a + o ELSE a + o - RcvBufSize
        BY <2>2, <3>1
      <3>5. /\ b + r < RcvBufSize => a = b + r
            /\ b + r >= RcvBufSize => a = b + r - RcvBufSize
        BY <3>2, <3>3, ListConstants
      <3>6. (IF a + o < RcvBufSize THEN a + o ELSE a + o - RcvBufSize)
              = IF b + (r + o) < RcvBufSize THEN b + (r + o) ELSE b + (r + o) - RcvBufSize
        <4>1. CASE b + r < RcvBufSize
          BY <3>2, <3>5, <4>1, ListConstants
        <4>2. CASE b + r >= RcvBufSize
          <5>1. a + o < RcvBufSize /\ ~(b + (r + o) < RcvBufSize)
            BY <3>1, <3>2, <3>5, <4>2, ListConstants
          <5>2. a + o = b + (r + o) - RcvBufSize
            BY <3>1, <3>2, <3>5, <4>2, ListConstants
          <5>. QED  BY <5>1, <5>2
        <4>. QED  BY <3>2, <4>1, <4>2, ListConstants
      <3>. QED  BY <2>3, <3>1, <3>4, <3>6
    <2>. QED  BY <2>1, <2>2, <2>4
  <1>8. packet.seq \notin held
    <2>1. unit[(b + (r + o)) % RcvBufSize] = NULL
      BY <1>1, <1>7
    <2>. QED  BY <1>3, <1>4, <1>5, <2>1, RingAt DEF IInv
  <1>. QED  BY <1>1, <1>2, <1>3, <1>4, <1>5, <1>7, <1>8

(* The list after a packet o packets after the last acknowledged one was   *)
(* taken: the numbers it skipped are missing, or it is missing no more.    *)
Stored(c, o) ==
    /\ c = rcvLastAck /\ o \in 0..(RcvBufSize - 2) /\ Shift(c, o) \notin held
    /\ held' = held \cup {Shift(c, o)} /\ rcvLastAck' = rcvLastAck
    /\ rcvCurrSeqNo' = IF o > Cur THEN Shift(c, o) ELSE rcvCurrSeqNo
    /\ loss' = IF o > Cur
               THEN IF o > Cur + 1 THEN LossInsert(loss, Shift(c, Cur + 1), Shift(c, o - 1))
                    ELSE loss
               ELSE LossRemove(loss, Shift(c, o))

LEMMA StoredIs ==
    ASSUME IInv, DataHandled, NEW o \in 0..(RcvBufSize - 2),
           o = SeqOff(rcvLastAck, packet.seq), packet.seq = Shift(rcvLastAck, o),
           packet.seq \notin held, o < AvailBufSize, unit[SlotOf(o)] = NULL
    PROVE  /\ Stored(rcvLastAck, o)
           /\ unit' = [unit EXCEPT ![SlotOf(o)] = packet]
  <1>. DEFINE seq == packet.seq
              c == rcvLastAck
              skipped == SeqCmp(seq, IncSeq(rcvCurrSeqNo)) > 0
              newest == SeqCmp(seq, rcvCurrSeqNo) > 0
              noticed == IF skipped
                         THEN LossInsert(loss, IncSeq(rcvCurrSeqNo), DecSeq(seq)) ELSE loss
  <1>1. /\ rcvLastAck' = rcvLastAck
        /\ unit' = [unit EXCEPT ![SlotOf(o)] = packet]
        /\ held' = held \cup {seq}
        /\ rcvCurrSeqNo' = IF newest THEN seq ELSE rcvCurrSeqNo
        /\ loss' = IF newest THEN noticed ELSE LossRemove(noticed, seq)
    BY DEF DataHandled
  <1>. HIDE DEF noticed
  <1>2. PICK n \in -1..(RcvBufSize - 2) : n = Cur
    BY Numbers DEF IInv
  <1>3. /\ c \in SeqNos
        /\ rcvCurrSeqNo # -1 => rcvCurrSeqNo \in SeqNos /\ rcvCurrSeqNo = Shift(c, n)
        /\ rcvCurrSeqNo = -1 => c = 0 /\ n = -1
        /\ IncSeq(rcvCurrSeqNo) = Shift(c, n + 1)
    BY <1>2, Numbers DEF IInv
  <1>4. /\ o \in Int /\ n \in Int /\ n + 1 \in Int
        /\ -SeqNoTH <= o /\ o <= SeqNoTH /\ -SeqNoTH <= n /\ n <= SeqNoTH
        /\ -SeqNoTH <= n + 1 /\ n + 1 <= SeqNoTH
        /\ -SeqNoTH < n - o /\ n - o < SeqNoTH
        /\ -SeqNoTH < (n + 1) - o /\ (n + 1) - o < SeqNoTH
    BY ListConstants
  <1>5. skipped <=> o > n + 1
    BY <1>3, <1>4, OffShift
  <1>6. newest <=> o > n
    <2>1. CASE rcvCurrSeqNo = -1
      <3>1. seq = Wrapped(0 + o)
        <4>1. -(MaxSeqNo + 1) <= o /\ o <= MaxSeqNo + 1 /\ 0 \in SeqNos
          BY ListConstants, SeqNoAssumption
        <4>. QED  BY <1>3, <1>4, <2>1, <4>1, ShiftIs
      <3>2. o <= SeqNoTH - 2 /\ o >= 0
        BY ListConstants
      <3>3. seq = o
        BY <3>1, <3>2, SeqNoAssumption DEF Wrapped
      <3>4. SeqCmp(o, -1) = o + 1
        BY <3>2, SeqNoAssumption DEF SeqCmp, Abs
      <3>. QED  BY <1>3, <2>1, <3>2, <3>3, <3>4
    <2>2. CASE rcvCurrSeqNo # -1
      BY <1>3, <1>4, <2>2, OffShift
    <2>. QED  BY <2>1, <2>2
  <1>7. DecSeq(seq) = Shift(c, o - 1)
    BY <1>3, <1>4, NextShift
  <1>8. noticed = IF o > n + 1 THEN LossInsert(loss, Shift(c, n + 1), Shift(c, o - 1)) ELSE loss
    BY <1>3, <1>5, <1>7 DEF noticed
  <1>9. loss' = IF o > n
                THEN IF o > n + 1 THEN LossInsert(loss, Shift(c, n + 1), Shift(c, o - 1)) ELSE loss
                ELSE LossRemove(loss, Shift(c, o))
    <2>1. CASE o > n
      BY <1>1, <1>6, <1>8, <2>1
    <2>2. CASE ~(o > n)
      <3>1. ~(o > n + 1)
        BY <1>4, <2>2
      <3>. QED  BY <1>1, <1>6, <1>8, <2>2, <3>1
    <2>. QED  BY <2>1, <2>2
  <1>. QED  BY <1>1, <1>2, <1>6, <1>9 DEF Stored

LEMMA StoredList ==
    ASSUME IInv, NEW c, NEW o, Stored(c, o)
    PROVE  /\ ListOK' /\ Cur' = IF o > Cur THEN o ELSE Cur
           /\ Cur' \in Int
  <1>1. PICK n \in -1..(RcvBufSize - 2) : n = Cur
    BY Numbers DEF IInv
  <1>2. /\ c \in SeqNos /\ c = rcvLastAck /\ rcvLastAck' = c /\ o \in 0..(RcvBufSize - 2)
        /\ Shift(c, o) \notin held /\ held' = held \cup {Shift(c, o)}
        /\ rcvCurrSeqNo' = IF o > n THEN Shift(c, o) ELSE rcvCurrSeqNo
        /\ loss' = IF o > n
                   THEN IF o > n + 1 THEN LossInsert(loss, Shift(c, n + 1), Shift(c, o - 1)) ELSE loss
                   ELSE LossRemove(loss, Shift(c, o))
    BY <1>1, Numbers DEF Stored, IInv
  <1>3. ASSUME NEW k \in 0..(RcvBufSize - 2)
        PROVE  Shift(c, k) \in SeqNos /\ SeqOff(c, Shift(c, k)) = k
    <2>1. k \in (1 - RcvBufSize)..(RcvBufSize - 1)
      BY ListConstants
    <2>. QED  BY <1>2, <2>1, DistanceOfShift
  <1>4. PICK m \in -1..(RcvBufSize - 2) : m = IF o > n THEN o ELSE n
    BY <1>1, <1>2, ListConstants
  <1>5. Cur' = m
    <2>1. Cur' = SeqOff(c, rcvCurrSeqNo')
      BY <1>2 DEF Cur, Off
    <2>2. Cur = SeqOff(c, rcvCurrSeqNo)
      BY <1>2 DEF Cur, Off
    <2>. QED  BY <1>1, <1>2, <1>3, <1>4, <2>1, <2>2
  <1>6. ASSUME NEW k \in 0..(RcvBufSize - 2), k > n PROVE Shift(c, k) \notin held
    <2>1. SeqOff(c, Shift(c, k)) = k
      BY <1>3
    <2>. QED  BY <1>1, <1>2, <1>6, <2>1, HeldNumber DEF IInv, Off
  <1>7. ASSUME NEW k \in Gaps PROVE k \in 0..(n - 1) /\ k \in 0..(RcvBufSize - 2)
    <2>1. k \in 0..n /\ Shift(c, k) \notin held
      BY <1>1, <1>2 DEF Gaps
    <2>2. k # n
      <3>1. n >= 0 => rcvCurrSeqNo \in held
        BY <1>1 DEF IInv, HeldOK
      <3>2. n >= 0 => rcvCurrSeqNo = Shift(c, n)
        BY <1>1, <1>2, Numbers DEF IInv
      <3>. QED  BY <2>1, <3>1, <3>2
    <2>. QED  BY <2>1, <2>2, ListConstants
  <1>8. Gaps = {k \in 0..n : Shift(c, k) \notin held}
    BY <1>1, <1>2 DEF Gaps
  <1>9. Gaps' = {k \in 0..m : Shift(c, k) \notin held'}
    BY <1>2, <1>5 DEF Gaps
  <1>10. Holes = {s \in SeqNos : SeqOff(c, s) \in 0..n /\ s \notin held}
    BY <1>1, <1>2 DEF Holes, Cur, Off
  <1>11. Holes' = {s \in SeqNos : SeqOff(c, s) \in 0..m /\ s \notin held'}
    BY <1>2, <1>5 DEF Holes, Cur, Off
  <1>19. /\ Gaps = GapsOf(c, n, held) /\ Holes = HolesOf(c, n, held)
         /\ Gaps' = GapsOf(c, m, held') /\ Holes' = HolesOf(c, m, held')
    BY <1>8, <1>9, <1>10, <1>11 DEF GapsOf, HolesOf
  <1>12. /\ Holes = {Shift(c, k) : k \in Gaps} /\ (Holes = {} <=> Gaps = {})
         /\ IsFiniteSet(Holes) /\ Cardinality(Holes) \in 0..RcvBufSize
    BY <1>2, <1>19, HolesAreGaps
  <1>13. Holes' = {Shift(c, k) : k \in Gaps'}
    BY <1>2, <1>19, HolesAreGaps
  <1>14. /\ IsList(loss, c, Gaps) /\ loss.length = Cardinality(Holes)
         /\ loss.length = 0 <=> Gaps = {}
    <2>1. IsList(loss, c, Gaps) /\ loss.length = Cardinality(Holes)
      BY <1>2 DEF IInv, ListOK
    <2>. QED  BY <1>12, <2>1, FS_EmptySet
  <1>15. CASE o > n + 1
    <2>1. PICK u, v \in 0..(RcvBufSize - 2) : u = n + 1 /\ v = o - 1 /\ u <= v
      BY <1>1, <1>2, <1>15, ListConstants
    <2>2. loss' = LossInsert(loss, Shift(c, u), Shift(c, v))
      BY <1>1, <1>2, <1>15, <2>1
    <2>3. \A k \in Gaps : k < u - 1
      BY <1>1, <1>7, <2>1
    <2>4. /\ IsList(loss', c, Gaps \cup u..v)
          /\ loss'.length = loss.length + (v - u + 1)
      <3>1. /\ IsList(LossInsert(loss, Shift(c, u), Shift(c, v)), c, Gaps \cup u..v)
            /\ LossInsert(loss, Shift(c, u), Shift(c, v)).length = loss.length + (v - u + 1)
        BY <1>2, <1>14, <2>1, <2>3, InsertIsUnion
      <3>. QED  BY <2>2, <3>1
    <2>5. Gaps' = Gaps \cup u..v
      <3>1. m = o
        BY <1>1, <1>2, <1>4, <1>15
      <3>2. ASSUME NEW k \in 0..m PROVE Shift(c, k) \notin held' <=> k \in Gaps \cup u..v
        <4>1. k \in 0..(RcvBufSize - 2) /\ (Shift(c, k) = Shift(c, o) <=> k = o)
          <5>1. k \in 0..(RcvBufSize - 2)
            BY <3>1, ListConstants
          <5>. QED  BY <1>2, <1>3, <5>1
        <4>2. Shift(c, k) \notin held' <=> Shift(c, k) \notin held /\ k # o
          BY <1>2, <4>1
        <4>3. CASE k <= n
          BY <1>1, <1>2, <1>8, <1>15, <2>1, <4>2, <4>3
        <4>4. CASE k > n
          <5>1. Shift(c, k) \notin held
            BY <1>6, <4>1, <4>4
          <5>2. k \notin Gaps
            BY <1>8, <4>4
          <5>3. k \in u..v <=> k # o
            BY <2>1, <3>1, <4>4
          <5>. QED  BY <4>2, <5>1, <5>2, <5>3
        <4>. QED  BY <4>3, <4>4
      <3>3. Gaps \cup u..v \subseteq 0..m
        <4>1. \A k \in Gaps : k \in 0..m
          BY <1>7, <1>15, <3>1
        <4>2. \A k \in u..v : k \in 0..m
          BY <2>1, <3>1
        <4>. QED  BY <4>1, <4>2
      <3>. QED  BY <1>9, <3>2, <3>3
    <2>6. loss'.length = Cardinality(Holes')
      <3>. DEFINE S == {Shift(c, k) : k \in u..v}
      <3>1. IsFiniteSet(S) /\ Cardinality(S) = v - u + 1
        <4>1. u \in 0..(RcvBufSize - 1) /\ v \in -1..(RcvBufSize - 2) /\ u <= v + 1
          BY <2>1, ListConstants
        <4>. QED  BY <1>2, <4>1, RunOfNumbers
      <3>2. Holes' = Holes \cup S
        BY <1>12, <1>13, <2>5
      <3>3. Holes \cap S = {}
        <4>1. ASSUME NEW k \in Gaps, NEW j \in u..v PROVE Shift(c, k) # Shift(c, j)
          <5>1. k \in 0..(RcvBufSize - 2) /\ j \in 0..(RcvBufSize - 2) /\ k # j
            BY <1>1, <1>7, <2>1, ListConstants
          <5>. QED  BY <1>3, <5>1
        <4>. QED  BY <1>12, <4>1
      <3>. HIDE DEF S
      <3>4. Cardinality(Holes \cup S) = Cardinality(Holes) + Cardinality(S) - Cardinality({})
        BY <1>12, <3>1, <3>3, FS_Union
      <3>5. Cardinality({}) = 0
        BY FS_EmptySet
      <3>. QED  BY <1>12, <1>14, <2>1, <2>4, <3>1, <3>2, <3>4, <3>5
    <2>. QED  BY <1>2, <1>5, <1>4, <1>1, <2>4, <2>5, <2>6 DEF ListOK
  <1>16. CASE o = n + 1
    <2>1. loss' = loss /\ m = o
      BY <1>1, <1>2, <1>4, <1>16
    <2>2. Gaps' = Gaps
      <3>1. ASSUME NEW k \in 0..m PROVE Shift(c, k) \notin held' <=> k \in Gaps
        <4>1. k \in 0..(RcvBufSize - 2) /\ (Shift(c, k) = Shift(c, o) <=> k = o)
          <5>1. k \in 0..(RcvBufSize - 2)
            BY <2>1, ListConstants
          <5>. QED  BY <1>2, <1>3, <5>1
        <4>2. Shift(c, k) \notin held' <=> Shift(c, k) \notin held /\ k # o
          BY <1>2, <4>1
        <4>. QED  BY <1>2, <1>8, <1>16, <2>1, <4>2
      <3>2. Gaps \subseteq 0..m
        BY <1>8, <1>16, <2>1
      <3>. QED  BY <1>9, <3>1, <3>2
    <2>3. Holes' = Holes
      BY <1>12, <1>13, <2>2
    <2>. QED  BY <1>1, <1>2, <1>4, <1>5, <1>14, <2>1, <2>2, <2>3 DEF ListOK
  <1>17. CASE o <= n
    <2>1. loss' = LossRemove(loss, Shift(c, o)) /\ m = n
      BY <1>1, <1>2, <1>4, <1>17
    <2>2. o \in Gaps
      BY <1>2, <1>8, <1>17
    <2>3. IsList(loss', c, Gaps \ {o}) /\ loss'.length = loss.length - 1
      <3>1. /\ IsList(LossRemove(loss, Shift(c, o)), c, Gaps \ {o})
            /\ LossRemove(loss, Shift(c, o)).length = loss.length - 1
        BY <1>2, <1>14, <2>2, RemoveIsDifference
      <3>. QED  BY <2>1, <3>1
    <2>4. Gaps' = Gaps \ {o}
      <3>1. ASSUME NEW k \in 0..n PROVE Shift(c, k) = Shift(c, o) <=> k = o
        <4>1. k \in 0..(RcvBufSize - 2)
          BY <1>1, ListConstants
        <4>. QED  BY <1>2, <1>3, <4>1
      <3>. QED  BY <1>2, <1>8, <1>9, <2>1, <3>1
    <2>5. Holes' = Holes \ {Shift(c, o)} /\ Shift(c, o) \in Holes
      <3>1. Shift(c, o) \in Holes
        BY <1>12, <2>2
      <3>. QED  BY <1>2, <1>10, <1>11, <2>1, <3>1
    <2>6. loss'.length = Cardinality(Holes')
      BY <1>12, <1>14, <2>3, <2>5, FS_RemoveElement
    <2>. QED  BY <1>1, <1>2, <1>4, <1>5, <2>3, <2>4, <2>6 DEF ListOK
  <1>18. o > n + 1 \/ o = n + 1 \/ o <= n
    BY <1>1, <1>2
  <1>. QED  BY <1>15, <1>16, <1>17, <1>18

LEMMA SlotsDiffer ==
    ASSUME NEW b \in Slots, NEW d \in 0..(RcvBufSize - 1), NEW e \in 0..(RcvBufSize - 1), d # e
    PROVE  (b + d) % RcvBufSize # (b + e) % RcvBufSize
  <1>1. d \in 0..RcvBufSize /\ e \in 0..RcvBufSize
    BY ListConstants
  <1>2. /\ (b + d) % RcvBufSize = IF b + d < RcvBufSize THEN b + d ELSE b + d - RcvBufSize
        /\ (b + e) % RcvBufSize = IF b + e < RcvBufSize THEN b + e ELSE b + e - RcvBufSize
    BY <1>1, SlotAt
  <1>. QED  BY <1>2, ListConstants DEF Slots

LEMMA DataStoredStep ==
    ASSUME IInv, DataHandled, NEW o \in 0..(RcvBufSize - 2),
           o = SeqOff(rcvLastAck, packet.seq), packet.seq = Shift(rcvLastAck, o),
           packet.seq \notin held, o < AvailBufSize, unit[SlotOf(o)] = NULL
    PROVE  IInv'
  <1>1. /\ UNCHANGED <<rcvLastAck, lastAckPos>> /\ rcvPc = "room"
        /\ UNCHANGED <<startPos, notch, readPc, p, lastack, rs, nextRead, readFrom>>
        /\ rcvPc' = "idle" /\ packet' = NULL /\ ahead' = TRUE
    BY DEF DataHandled, readVars
  <1>2. /\ Stored(rcvLastAck, o) /\ unit' = [unit EXCEPT ![SlotOf(o)] = packet]
    BY StoredIs
  <1>3. /\ held' = held \cup {packet.seq}
        /\ rcvCurrSeqNo' = IF o > Cur THEN packet.seq ELSE rcvCurrSeqNo
    BY <1>2 DEF Stored
  <1>4. ListOK' /\ Cur' = IF o > Cur THEN o ELSE Cur
    BY <1>2, StoredList
  <1>5. PICK n \in -1..(RcvBufSize - 2), r, f \in 0..(RcvBufSize - 1) :
            n = Cur /\ r = Ready /\ f = Filled /\ r <= f /\ f + n <= RcvBufSize - 2
    BY Numbers DEF IInv
  <1>6. /\ packet \in [seq : SeqNos, len : Lens] /\ packet # NULL /\ packet.seq \in SeqNos
        /\ o + f <= RcvBufSize - 2
    BY <1>1, <1>5, PacketFits
  <1>20. PICK m \in -1..(RcvBufSize - 2) :
            /\ m = Cur' /\ m >= n /\ m >= o /\ f + m <= RcvBufSize - 2
    <2>1. o >= 0 /\ o <= RcvBufSize - 2 /\ o \in Int
      BY ListConstants
    <2>2. CASE o > n
      <3>1. Cur' = o
        BY <1>4, <1>5, <2>2
      <3>2. o \in -1..(RcvBufSize - 2) /\ o >= n /\ o >= o /\ f + o <= RcvBufSize - 2
        BY <1>6, <2>1, <2>2, ListConstants
      <3>. QED  BY <3>1, <3>2
    <2>3. CASE ~(o > n)
      <3>1. Cur' = n
        BY <1>4, <1>5, <2>3
      <3>2. n >= n /\ n >= o /\ f + n <= RcvBufSize - 2
        BY <1>5, <2>1, <2>3
      <3>. QED  BY <3>1, <3>2
    <2>. QED  BY <2>2, <2>3
  <1>7. PICK t \in 0..(RcvBufSize - 1) :
            /\ t = r + o /\ packet.seq = Shift(nextRead, t)
            /\ SlotOf(o) = (Begin + t) % RcvBufSize /\ SlotOf(o) \in Slots
    BY <1>1, <1>5, PacketIsNew
  <1>8. maxPos' \in -1..(RcvBufSize - 1)
    <2>1. maxPos' = IF o > maxPos THEN o ELSE maxPos
      BY DEF DataHandled
    <2>2. o \in -1..(RcvBufSize - 1)
      BY ListConstants
    <2>. QED  BY <2>1, <2>2 DEF IInv, Typed
  <1>9. Typed'
    <2>1. rcvCurrSeqNo' \in -1..MaxSeqNo
      BY <1>3, <1>6, SeqNoAssumption DEF IInv, Typed, SeqNos
    <2>2. unit' \in [Slots -> [seq : SeqNos, len : Lens] \cup {NULL}]
      BY <1>2, <1>6, <1>7 DEF IInv, Typed
    <2>3. held' \subseteq SeqNos
      BY <1>3, <1>6 DEF IInv, Typed
    <2>. QED  BY <1>1, <1>8, <2>1, <2>2, <2>3 DEF IInv, Typed
  <1>10. Ready' = Ready /\ Begin' = Begin /\ Filled' = Filled
    BY <1>1 DEF Ready, Begin, Filled
  <1>11. WindowOK'
    <2>1. Cur' >= -1 /\ Filled + Cur' <= RcvBufSize - 2
      BY <1>5, <1>20
    <2>2. rcvCurrSeqNo' = -1 => rcvLastAck = 0
      BY <1>3, <1>6, ListConstants DEF IInv, WindowOK
    <2>. QED  BY <1>1, <1>10, <2>1, <2>2 DEF IInv, WindowOK
  <1>12. HeldOK'
    <2>1. ASSUME NEW s \in held' PROVE -Ready' <= Off(s)' /\ Off(s)' <= Cur'
      <3>1. Off(s)' = SeqOff(rcvLastAck, s) /\ Off(s) = SeqOff(rcvLastAck, s)
        BY <1>1 DEF Off
      <3>2. CASE s = packet.seq
        <4>1. Off(s)' = o /\ -r <= o /\ o <= m
          BY <1>20, <3>1, <3>2, ListConstants
        <4>. QED  BY <1>5, <1>10, <1>20, <4>1
      <3>3. CASE s \in held
        <4>1. Off(s) \in (-r)..n
          BY <1>5, <3>3, HeldNumber DEF IInv
        <4>2. -r <= Off(s) /\ Off(s) <= m
          BY <1>20, <4>1
        <4>. QED  BY <1>5, <1>10, <1>20, <3>1, <4>2
      <3>. QED  BY <1>3, <3>2, <3>3
    <2>2. ASSUME NEW d \in 0..(Ready' - 1) PROVE Shift(nextRead', d) \in held'
      BY <1>1, <1>3, <1>10 DEF IInv, HeldOK
    <2>3. ASSUME Cur' >= 0 PROVE rcvCurrSeqNo' \in held'
      BY <1>3, <1>4, <1>5, <2>3 DEF IInv, HeldOK
    <2>. QED  BY <2>1, <2>2, <2>3 DEF HeldOK
  <1>13. PICK b \in Slots : b = Begin
    BY Positions DEF IInv
  <1>14. ASSUME NEW d \in 0..(RcvBufSize - 1), d # t
         PROVE  unit'[(b + d) % RcvBufSize] = unit[(b + d) % RcvBufSize]
    <2>1. (b + d) % RcvBufSize # SlotOf(o)
      BY <1>7, <1>13, <1>14, SlotsDiffer
    <2>2. (b + d) % RcvBufSize \in Slots
      <3>1. d \in 0..RcvBufSize
        BY ListConstants
      <3>. QED  BY <3>1, SlotAt
    <2>. QED  BY <1>2, <2>1, <2>2 DEF IInv, Typed
  <1>15. unit'[(b + t) % RcvBufSize] = packet
    BY <1>2, <1>7, <1>13 DEF IInv, Typed
  <1>16. ASSUME NEW d \in 0..(RcvBufSize - 1), d # t
         PROVE  Shift(nextRead, d) # packet.seq
    <2>1. d \in (1 - RcvBufSize)..(RcvBufSize - 1) /\ t \in (1 - RcvBufSize)..(RcvBufSize - 1)
      BY ListConstants
    <2>2. SeqOff(nextRead, Shift(nextRead, d)) = d /\ SeqOff(nextRead, Shift(nextRead, t)) = t
      BY <2>1, DistanceOfShift DEF IInv, Typed
    <2>. QED  BY <1>7, <1>16, <2>2
  <1>17. RingIsStream'
    <2>1. ASSUME NEW d \in 0..(RcvBufSize - 1)
          PROVE  LET i == (Begin' + d) % RcvBufSize
                 IN  IF Shift(nextRead', d) \in held'
                     THEN unit'[i] # NULL /\ unit'[i].seq = Shift(nextRead', d)
                     ELSE unit'[i] = NULL
      <3>1. CASE d = t
        BY <1>1, <1>3, <1>6, <1>7, <1>10, <1>13, <1>15, <3>1
      <3>2. CASE d # t
        <4>1. IF Shift(nextRead, d) \in held
              THEN /\ unit[(b + d) % RcvBufSize] # NULL
                   /\ unit[(b + d) % RcvBufSize].seq = Shift(nextRead, d)
              ELSE unit[(b + d) % RcvBufSize] = NULL
          BY <1>13, RingAt DEF IInv
        <4>2. Shift(nextRead, d) \in held' <=> Shift(nextRead, d) \in held
          BY <1>3, <1>16, <3>2
        <4>3. unit'[(b + d) % RcvBufSize] = unit[(b + d) % RcvBufSize]
          BY <1>14, <3>2
        <4>. QED  BY <1>1, <1>10, <1>13, <4>1, <4>2, <4>3
      <3>. QED  BY <3>1, <3>2
    <2>. QED  BY <2>1 DEF RingIsStream, Begin
  <1>18. NotchOK'
    <2>1. ASSUME r > 0 PROVE unit'[Begin] = unit[Begin]
      <3>1. 0 \in 0..(RcvBufSize - 1) /\ 0 # t /\ 0 \in 0..RcvBufSize
        BY <1>7, <2>1, ListConstants
      <3>2. (b + 0) % RcvBufSize = IF b + 0 < RcvBufSize THEN b + 0 ELSE b + 0 - RcvBufSize
        BY <3>1, SlotAt
      <3>3. (b + 0) % RcvBufSize = b
        BY <3>2, ListConstants DEF Slots
      <3>4. unit'[(b + 0) % RcvBufSize] = unit[(b + 0) % RcvBufSize]
        BY <1>14, <3>1
      <3>. QED  BY <1>13, <3>3, <3>4
    <2>2. r = 0 \/ r > 0
      BY <1>5
    <2>. QED  BY <1>1, <1>5, <1>10, <2>1, <2>2 DEF IInv, NotchOK
  <1>19. PacketOK'
    BY <1>1 DEF PacketOK
  <1>. QED  BY <1>4, <1>9, <1>11, <1>12, <1>17, <1>18, <1>19 DEF IInv

LEMMA DataHandledStep ==
    ASSUME IInv, DataHandled
    PROVE  IInv'
  <1>1. rcvPc = "room"
    BY DEF DataHandled
  <1>2. PICK o : o = SeqOff(rcvLastAck, packet.seq)
    OBVIOUS
  <1>3. CASE o < AvailBufSize /\ unit[SlotOf(o)] = NULL
    <2>1. /\ o \in 0..(RcvBufSize - 2) /\ packet.seq = Shift(rcvLastAck, o)
          /\ packet.seq \notin held
      BY <1>1, <1>2, <1>3, PacketIsNew
    <2>. QED  BY <1>2, <1>3, <2>1, DataStoredStep
  <1>4. CASE ~(o < AvailBufSize /\ unit[SlotOf(o)] = NULL)
    <2>1. UNCHANGED <<unit, held, rcvCurrSeqNo, loss>>
      BY <1>2, <1>4 DEF DataHandled
    <2>. QED  BY <2>1, DataDroppedStep
  <1>. QED  BY <1>3, <1>4

(* The number acknowledged: all those before it have come.                 *)
LEMMA AckNumber ==
    ASSUME IInv, SendAck
    PROVE  \E d \in 1..(RcvBufSize - 1) :
                /\ rcvLastAck' = Shift(rcvLastAck, d) /\ lastAckPos' = (lastAckPos + d) % RcvBufSize
                /\ maxPos' = IF maxPos - d < 0 THEN 0 ELSE maxPos - d
                /\ d <= Cur + 1 /\ \A k \in Gaps : d <= k
                /\ \A k \in 0..(d - 1) : Shift(rcvLastAck, k) \in held
  <1>. DEFINE c == rcvLastAck
  <1>1. PICK n \in -1..(RcvBufSize - 2) : n = Cur
    BY Numbers DEF IInv
  <1>2. c \in SeqNos /\ IncSeq(rcvCurrSeqNo) = Shift(c, n + 1)
    BY <1>1, Numbers DEF IInv
  <1>3. PICK ack : ack = IF loss.length = 0 THEN IncSeq(rcvCurrSeqNo) ELSE FirstLostSeq(loss)
    OBVIOUS
  <1>4. /\ SeqCmp(ack, c) > 0 /\ rcvLastAck' = ack
        /\ lastAckPos' = (lastAckPos + SeqOff(c, ack)) % RcvBufSize
        /\ maxPos' = IF maxPos - SeqOff(c, ack) < 0 THEN 0 ELSE maxPos - SeqOff(c, ack)
    BY <1>3 DEF SendAck, AckedPos
  <1>5. /\ Gaps = GapsOf(c, n, held) /\ Holes = HolesOf(c, n, held)
    BY <1>1 DEF Gaps, GapsOf, Holes, HolesOf, Cur, Off
  <1>6. Holes = {} <=> Gaps = {}
    BY <1>2, <1>5, HolesAreGaps
  <1>7. IsFiniteSet(Holes)
    BY <1>2, <1>5, HolesAreGaps
  <1>8. IsList(loss, c, Gaps) /\ (loss.length = 0 <=> Gaps = {})
    <2>1. IsList(loss, c, Gaps) /\ loss.length = Cardinality(Holes)
      BY DEF IInv, ListOK
    <2>. QED  BY <1>6, <1>7, <2>1, FS_EmptySet
  <1>9. PICK d \in 0..(RcvBufSize - 1) :
            ack = Shift(c, d) /\ d <= n + 1 /\ \A k \in Gaps : d <= k
    <2>1. CASE loss.length = 0
      <3>1. n + 1 \in 0..(RcvBufSize - 1) /\ n + 1 <= n + 1
        BY ListConstants
      <3>. QED  BY <1>2, <1>3, <1>8, <2>1, <3>1
    <2>2. CASE loss.length # 0
      <3>1. PICK d \in Gaps : FirstLostSeq(loss) = Shift(c, d) /\ \A k \in Gaps : d <= k
        BY <1>2, <1>8, <2>2, FirstIsLeast
      <3>2. d \in 0..n
        BY <1>5, <3>1 DEF GapsOf
      <3>3. d \in 0..(RcvBufSize - 1) /\ d <= n + 1
        BY <3>2, ListConstants
      <3>. QED  BY <1>3, <2>2, <3>1, <3>3
    <2>. QED  BY <2>1, <2>2
  <1>10. SeqOff(c, ack) = d
    <2>1. d \in (1 - RcvBufSize)..(RcvBufSize - 1)
      BY ListConstants
    <2>. QED  BY <1>2, <1>9, <2>1, DistanceOfShift
  <1>11. d > 0
    <2>1. Shift(c, 0) = c
      BY <1>2, SeqNoAssumption DEF Shift, SeqNos
    <2>2. /\ 0 \in Int /\ d \in Int /\ -SeqNoTH <= 0 /\ 0 <= SeqNoTH
          /\ -SeqNoTH <= d /\ d <= SeqNoTH /\ -SeqNoTH < 0 - d /\ 0 - d < SeqNoTH
      BY ListConstants
    <2>3. SeqCmp(Shift(c, d), Shift(c, 0)) > 0 <=> d > 0
      BY <1>2, <2>2, OffShift
    <2>. QED  BY <1>4, <1>9, <2>1, <2>3
  <1>12. ASSUME NEW k \in 0..(d - 1) PROVE Shift(c, k) \in held
    <2>1. k \in 0..n /\ k \notin Gaps
      BY <1>9
    <2>. QED  BY <1>5, <2>1 DEF GapsOf
  <1>13. d \in 1..(RcvBufSize - 1)
    BY <1>9, <1>11
  <1>. QED  BY <1>1, <1>4, <1>9, <1>10, <1>12, <1>13

LEMMA SendAckStep ==
    ASSUME IInv, SendAck
    PROVE  IInv'
  <1>1. /\ UNCHANGED <<rcvCurrSeqNo, loss>> /\ UNCHANGED <<rcvPc, packet, ahead>>
        /\ UNCHANGED <<startPos, notch, readPc, p, lastack, rs, nextRead, readFrom>>
        /\ unit' = unit /\ held' = held /\ rcvPc = "idle"
    BY DEF SendAck, thrVars, readVars
  <1>2. PICK c : c = rcvLastAck
    OBVIOUS
  <1>3. PICK d \in 1..(RcvBufSize - 1) :
            /\ rcvLastAck' = Shift(c, d) /\ lastAckPos' = (lastAckPos + d) % RcvBufSize
            /\ maxPos' = IF maxPos - d < 0 THEN 0 ELSE maxPos - d
            /\ d <= Cur + 1 /\ \A k \in Gaps : d <= k
            /\ \A k \in 0..(d - 1) : Shift(c, k) \in held
    BY <1>2, AckNumber
  <1>4. PICK n \in -1..(RcvBufSize - 2), r, f \in 0..(RcvBufSize - 1) :
            /\ n = Cur /\ r = Ready /\ f = Filled /\ r <= f /\ f + n <= RcvBufSize - 2
    BY Numbers DEF IInv
  <1>5. /\ d <= n + 1 /\ n \in 0..(RcvBufSize - 2) /\ d \in Int /\ d >= 1
        /\ r + d \in 1..(RcvBufSize - 1) /\ f + d \in 1..(RcvBufSize - 1)
        /\ r + d <= f + d
    <2>1. d <= n + 1
      BY <1>3, <1>4
    <2>2. f + d <= RcvBufSize - 1
      BY <1>4, <2>1, ListConstants
    <2>. QED  BY <1>4, <2>1, <2>2, ListConstants
  <1>6. c \in SeqNos /\ nextRead = Shift(c, -r) /\ rcvCurrSeqNo \in SeqNos /\ rcvCurrSeqNo = Shift(c, n)
    <2>1. rcvCurrSeqNo # -1
      BY <1>4, <1>5, Numbers DEF IInv
    <2>. QED  BY <1>2, <1>4, <2>1, Numbers DEF IInv
  <1>7. PICK e \in SeqNos : e = Shift(c, d) /\ e = rcvLastAck'
    <2>1. d \in (1 - RcvBufSize)..(RcvBufSize - 1)
      BY ListConstants
    <2>. QED  BY <1>3, <1>6, <2>1, DistanceOfShift
  <1>8. ASSUME NEW o \in (-r)..n
        PROVE  SeqOff(e, Shift(c, o)) = o - d /\ SeqOff(c, Shift(c, o)) = o
    <2>1. o \in (1 - RcvBufSize)..(RcvBufSize - 1)
      BY ListConstants
    <2>2. /\ o \in Int /\ -SeqNoTH <= o /\ o <= SeqNoTH /\ -SeqNoTH <= d /\ d <= SeqNoTH
      BY <2>1, ListConstants
    <2>3. -SeqNoTH < o - d /\ o - d < SeqNoTH
      BY <1>5, ListConstants
    <2>4. SeqOff(Shift(c, d), Shift(c, o)) = o - d
      BY <1>5, <1>6, <2>2, <2>3, OffShift
    <2>. QED  BY <1>6, <1>7, <2>1, <2>4, DistanceOfShift
  <1>9. Ready' = r + d
    <2>1. /\ -r \in Int /\ -SeqNoTH <= -r /\ -r <= SeqNoTH /\ -SeqNoTH <= d /\ d <= SeqNoTH
          /\ -SeqNoTH < d - (-r) /\ d - (-r) < SeqNoTH
      BY <1>5, ListConstants
    <2>2. SeqOff(Shift(c, -r), Shift(c, d)) = d - (-r)
      BY <1>5, <1>6, <2>1, OffShift
    <2>3. d - (-r) = r + d
      BY <1>5
    <2>. QED  BY <1>1, <1>6, <1>7, <2>2, <2>3 DEF Ready
  <1>10. nextRead = Shift(e, -(r + d))
    <2>1. /\ -(r + d) \in Int /\ -SeqNoTH <= -(r + d) /\ -(r + d) <= SeqNoTH
          /\ -SeqNoTH <= d /\ d <= SeqNoTH
      BY <1>5, ListConstants
    <2>2. Shift(Shift(c, d), -(r + d)) = Shift(c, d + (-(r + d)))
      BY <1>5, <1>6, <2>1, ShiftShift
    <2>3. d + (-(r + d)) = -r
      BY <1>5
    <2>. QED  BY <1>6, <1>7, <2>2, <2>3
  <1>11. Cur' = n - d
    <2>1. n \in (-r)..n
      BY <1>4, <1>5
    <2>2. Cur' = SeqOff(e, rcvCurrSeqNo)
      BY <1>1, <1>7 DEF Cur, Off
    <2>. QED  BY <1>6, <1>8, <2>1, <2>2
  <1>12. Begin' = Begin
    BY <1>1 DEF Begin
  <1>13. /\ lastAckPos' \in Slots /\ Filled' = f + d
         /\ lastAckPos' = (Begin + (r + d)) % RcvBufSize
    <2>1. PICK a, b, s \in 0..(RcvBufSize - 1) : a = lastAckPos /\ b = Begin /\ s = startPos
      BY Positions DEF IInv, Slots
    <2>2. /\ a \in Slots /\ b \in Slots /\ s \in Slots
          /\ d \in 0..RcvBufSize /\ r + d \in 0..RcvBufSize
      BY <1>5, ListConstants DEF Slots
    <2>3. /\ a = IF b + r < RcvBufSize THEN b + r ELSE b + r - RcvBufSize
          /\ f = IF s <= a THEN a - s ELSE a - s + RcvBufSize
      BY <1>4, <2>1, Positions DEF IInv
    <2>4. PICK z \in 0..(RcvBufSize - 1) :
             /\ z = lastAckPos' /\ z \in Slots
             /\ z = IF a + d < RcvBufSize THEN a + d ELSE a + d - RcvBufSize
      BY <1>3, <2>1, <2>2, SlotAt DEF Slots
    <2>5. (z - s) % RcvBufSize = IF s <= z THEN z - s ELSE z - s + RcvBufSize
      BY <2>2, <2>4, SlotBetween
    <2>6. (z - s) % RcvBufSize = f + d
      <3>1. f + d <= RcvBufSize - 1 /\ RcvBufSize \in Int
        BY <1>5, ListConstants
      <3>2. CASE s <= a
        BY <2>3, <2>4, <2>5, <3>1, <3>2
      <3>3. CASE ~(s <= a)
        BY <2>3, <2>4, <2>5, <3>1, <3>3
      <3>. QED  BY <3>2, <3>3
    <2>7. (b + (r + d)) % RcvBufSize = IF b + (r + d) < RcvBufSize THEN b + (r + d)
                                       ELSE b + (r + d) - RcvBufSize
      BY <2>2, SlotAt
    <2>8. z = (b + (r + d)) % RcvBufSize
      <3>1. r + d <= RcvBufSize - 1 /\ RcvBufSize \in Int
        BY <1>5, ListConstants
      <3>2. CASE b + r < RcvBufSize
        BY <2>3, <2>4, <2>7, <3>1, <3>2
      <3>3. CASE ~(b + r < RcvBufSize)
        <4>1. a = b + r - RcvBufSize /\ z = a + d
          BY <2>3, <2>4, <3>1, <3>3
        <4>2. (b + (r + d)) % RcvBufSize = b + (r + d) - RcvBufSize
          BY <2>7, <3>1, <3>3
        <4>. QED  BY <3>1, <4>1, <4>2
      <3>. QED  BY <3>2, <3>3
    <2>9. Filled' = (z - s) % RcvBufSize
      BY <1>1, <2>1, <2>4 DEF Filled
    <2>. QED  BY <2>1, <2>4, <2>6, <2>8, <2>9
  <1>14. Typed'
    <2>1. maxPos' \in -1..(RcvBufSize - 1)
      <3>1. PICK x \in -1..(RcvBufSize - 1) : x = maxPos
        BY DEF IInv, Typed
      <3>2. maxPos' = IF x - d < 0 THEN 0 ELSE x - d
        BY <1>3, <3>1
      <3>. QED  BY <3>2, ListConstants
    <2>. QED  BY <1>1, <1>7, <1>13, <2>1 DEF IInv, Typed
  <1>15. WindowOK'
    <2>1. /\ Cur' >= -1 /\ Ready' >= 0 /\ Ready' <= Filled' /\ Filled' + Cur' <= RcvBufSize - 2
      <3>1. n - d >= -1 /\ r + d >= 0 /\ (f + d) + (n - d) = f + n
        BY <1>5
      <3>. QED  BY <1>4, <1>5, <1>9, <1>11, <1>13, <3>1
    <2>2. readPc = "reading" => (lastack - p) % RcvBufSize <= r + d
      <3>1. ASSUME readPc = "reading" PROVE (lastack - p) % RcvBufSize <= r + d
        <4>1. (lastack - p) % RcvBufSize <= r
          BY <1>4, <3>1 DEF IInv, WindowOK
        <4>2. PICK x \in Int : x = (lastack - p) % RcvBufSize
          <5>1. lastack \in Slots /\ p \in Slots
            BY DEF IInv, Typed
          <5>. QED  BY <5>1, SlotBetween, ListConstants DEF Slots
        <4>. QED  BY <1>5, <4>1, <4>2
      <3>. QED  BY <3>1
    <2>3. rcvCurrSeqNo # -1
      BY <1>6, ListConstants
    <2>. QED  BY <1>1, <1>7, <1>9, <1>10, <1>12, <1>13, <2>1, <2>2, <2>3 DEF WindowOK
  <1>16. HeldOK'
    <2>1. ASSUME NEW s \in held' PROVE -Ready' <= Off(s)' /\ Off(s)' <= Cur'
      <3>1. PICK o \in (-r)..n : s = Shift(c, o)
        BY <1>1, <1>2, <1>4, HeldNumber DEF IInv
      <3>2. Off(s)' = o - d
        BY <1>7, <1>8, <3>1 DEF Off
      <3>3. -(r + d) <= o - d /\ o - d <= n - d
        BY <1>5
      <3>. QED  BY <1>9, <1>11, <3>2, <3>3
    <2>2. ASSUME NEW k \in 0..(Ready' - 1) PROVE Shift(nextRead', k) \in held'
      <3>1. k \in 0..((r + d) - 1)
        BY <1>9
      <3>2. CASE k < r
        <4>1. k \in 0..(Ready - 1)
          BY <1>4, <3>1, <3>2
        <4>. QED  BY <1>1, <4>1 DEF IInv, HeldOK
      <3>3. CASE k >= r
        <4>1. k - r \in 0..(d - 1) /\ k \in (1 - RcvBufSize)..(RcvBufSize - 1)
          BY <1>5, <3>1, <3>3, ListConstants
        <4>2. Shift(nextRead, k) = Shift(c, k - r)
          BY <1>2, <1>4, <4>1, Distances DEF IInv
        <4>. QED  BY <1>1, <1>3, <4>1, <4>2
      <3>. QED  BY <1>4, <3>1, <3>2, <3>3
    <2>3. rcvCurrSeqNo' \in held'
      BY <1>1, <1>4, <1>5 DEF IInv, HeldOK
    <2>. QED  BY <2>1, <2>2, <2>3 DEF HeldOK
  <1>17. RingIsStream'
    BY <1>1 DEF IInv, RingIsStream
  <1>18. NotchOK'
    <2>1. ASSUME r = 0 PROVE 0 < unit[Begin].len
      <3>1. 0 \in 0..(d - 1) /\ 0 \in 0..(RcvBufSize - 1) /\ 0 \in 0..RcvBufSize /\ -r = 0
        <4>1. -r = 0
          <5>1. -r = 0 - r
            BY <1>4
          <5>. QED  BY <2>1, <5>1
        <4>2. 0 \in 0..(d - 1)
          BY <1>5
        <4>. QED  BY <4>1, <4>2, ListConstants
      <3>2. Shift(nextRead, 0) = nextRead /\ nextRead \in held
        <4>1. nextRead = Shift(c, 0)
          BY <1>6, <3>1
        <4>2. Shift(nextRead, 0) = nextRead
          BY SeqNoAssumption DEF IInv, Typed, Shift, SeqNos
        <4>. QED  BY <1>3, <3>1, <4>1, <4>2
      <3>3. PICK b \in Slots : b = Begin
        BY Positions DEF IInv
      <3>4. (b + 0) % RcvBufSize = b
        <4>1. (b + 0) % RcvBufSize = IF b + 0 < RcvBufSize THEN b + 0 ELSE b + 0 - RcvBufSize
          BY <3>1, <3>3, SlotAt
        <4>. QED  BY <4>1, ListConstants DEF Slots
      <3>5. unit[b] # NULL
        BY <3>1, <3>2, <3>3, <3>4, RingAt DEF IInv
      <3>6. unit[b] \in [seq : SeqNos, len : Lens]
        BY <3>5 DEF IInv, Typed
      <3>7. PICK x : x = unit[b].len /\ x \in Lens
        BY <3>6
      <3>8. x \in Nat \ {0}
        BY <3>7, ReceiverAssumption
      <3>9. 0 < x
        BY <3>8
      <3>. QED  BY <3>3, <3>7, <3>9
    <2>2. notch < unit[Begin].len /\ readFrom = notch
      BY <1>4, <2>1 DEF IInv, NotchOK
    <2>3. Ready' # 0
      BY <1>5, <1>9
    <2>. QED  BY <1>1, <1>12, <2>2, <2>3 DEF NotchOK
  <1>19. PacketOK'
    BY <1>1 DEF PacketOK
  <1>20. ASSUME NEW k \in 0..(RcvBufSize - 2) PROVE Shift(e, k) = Shift(c, k + d)
    <2>1. /\ k \in Int /\ -SeqNoTH <= k /\ k <= SeqNoTH /\ -SeqNoTH <= d /\ d <= SeqNoTH
          /\ d + k = k + d
      BY <1>5, ListConstants
    <2>2. d \in Int
      BY <1>5
    <2>3. Shift(Shift(c, d), k) = Shift(c, d + k)
      BY <1>6, <2>1, <2>2, ShiftShift
    <2>. QED  BY <1>7, <2>1, <2>3
  <1>21. Gaps = {k \in 0..n : Shift(c, k) \notin held}
    BY <1>2, <1>4 DEF Gaps
  <1>22. Gaps' = {k \in 0..(RcvBufSize - 2) : k + d \in Gaps}
    <2>1. Gaps' = {k \in 0..(n - d) : Shift(e, k) \notin held}
      BY <1>1, <1>7, <1>11 DEF Gaps
    <2>2. ASSUME NEW k \in Int
          PROVE  k \in 0..(n - d) <=> k \in 0..(RcvBufSize - 2) /\ k + d \in d..n
      BY <1>5, ListConstants
    <2>3. \A k \in Gaps : k \in d..n
      BY <1>3, <1>5, <1>21
    <2>4. \A k \in 0..(RcvBufSize - 2) : k + d \in Gaps <=> k \in Gaps'
      <3>. TAKE k \in 0..(RcvBufSize - 2)
      <3>1. k \in Gaps' <=> k \in 0..(n - d) /\ Shift(c, k + d) \notin held
        BY <1>20, <2>1
      <3>2. k + d \in Gaps <=> k + d \in d..n /\ Shift(c, k + d) \notin held
        BY <1>5, <1>21, <2>3
      <3>3. k \in 0..(n - d) <=> k + d \in d..n
        BY <2>2
      <3>. QED  BY <3>1, <3>2, <3>3
    <2>5. Gaps' \subseteq 0..(RcvBufSize - 2)
      BY <2>1, <2>2
    <2>. QED  BY <2>4, <2>5
  <1>23. Holes' = Holes
    <2>1. Holes = {s \in SeqNos : SeqOff(c, s) \in 0..n /\ s \notin held}
      BY <1>2, <1>4 DEF Holes, Cur, Off
    <2>2. Holes' = {s \in SeqNos : SeqOff(e, s) \in 0..(n - d) /\ s \notin held}
      BY <1>1, <1>7, <1>11 DEF Holes, Cur, Off
    <2>3. ASSUME NEW s \in Holes PROVE s \in Holes'
      <3>1. PICK o \in 0..n : s = Shift(c, o) /\ s \notin held /\ s \in SeqNos
        BY <1>6, <2>1, ShiftOff
      <3>2. o \in Gaps /\ o \in (-r)..n
        BY <1>4, <1>21, <3>1
      <3>3. d <= o
        BY <1>3, <3>2
      <3>4. SeqOff(e, s) = o - d
        BY <1>8, <3>1, <3>2
      <3>. QED  BY <1>5, <2>2, <3>1, <3>3, <3>4
    <2>4. ASSUME NEW s \in Holes' PROVE s \in Holes
      <3>1. PICK k \in 0..(n - d) : s = Shift(e, k) /\ s \notin held /\ s \in SeqNos
        BY <1>7, <2>2, ShiftOff
      <3>2. k \in 0..(RcvBufSize - 2) /\ k + d \in 0..n /\ k + d \in (-r)..n
        BY <1>4, <1>5, ListConstants
      <3>3. s = Shift(c, k + d)
        BY <1>20, <3>1, <3>2
      <3>4. SeqOff(c, s) = k + d
        BY <1>8, <3>2, <3>3
      <3>. QED  BY <2>1, <3>1, <3>2, <3>4
    <2>. QED  BY <2>3, <2>4
  <1>24. ListOK'
    <2>1. IsList(loss, c, Gaps) /\ loss.length = Cardinality(Holes)
      BY <1>2 DEF IInv, ListOK
    <2>2. d \in 0..(RcvBufSize - 1)
      BY <1>5
    <2>3. IsList(loss, Shift(c, d), {k \in 0..(RcvBufSize - 2) : k + d \in Gaps})
      BY <1>3, <1>6, <2>1, <2>2, ListMoves
    <2>. QED  BY <1>1, <1>7, <1>22, <1>23, <2>1, <2>3 DEF ListOK
  <1>. QED  BY <1>14, <1>15, <1>16, <1>17, <1>18, <1>19, <1>24 DEF IInv

LEMMA InitOK ==
    ASSUME Init
    PROVE  IInv
  <1>. DEFINE c == rcvLastAck
  <1>1. /\ c \in SeqNos /\ c \in Int /\ c >= 0 /\ c <= MaxSeqNo /\ rcvCurrSeqNo = c - 1
        /\ nextRead = c
    BY ReceiverAssumption, SeqNoAssumption DEF Init, SeqNos
  <1>2. Cur = -1
    <2>1. Cur = SeqOff(c, c - 1)
      BY <1>1 DEF Cur, Off
    <2>2. SeqOff(c, c - 1) = -1
      BY <1>1, ListConstants DEF SeqOff, Abs
    <2>. QED  BY <2>1, <2>2
  <1>3. Ready = 0
    <2>1. SeqOff(c, c) = 0
      BY <1>1, ListConstants DEF SeqOff, Abs
    <2>. QED  BY <1>1, <2>1 DEF Ready
  <1>4. 0 \in Slots /\ 0 \in 0..RcvBufSize
    BY ListConstants DEF Slots
  <1>5. Begin = 0 /\ Filled = 0 /\ (0 + 0) % RcvBufSize = 0
    <2>1. (0 - 0) % RcvBufSize = 0
      <3>1. (0 - 0) % RcvBufSize = IF 0 <= 0 THEN 0 - 0 ELSE 0 - 0 + RcvBufSize
        BY <1>4, SlotBetween
      <3>. QED  BY <3>1
    <2>2. (0 + 0) % RcvBufSize = 0
      <3>1. (0 + 0) % RcvBufSize = IF 0 + 0 < RcvBufSize THEN 0 + 0 ELSE 0 + 0 - RcvBufSize
        BY <1>4, SlotAt
      <3>. QED  BY <3>1, ListConstants
    <2>. QED  BY <2>1, <2>2 DEF Init, Begin, Filled
  <1>6. Typed
    <2>1. rcvCurrSeqNo \in -1..MaxSeqNo
      BY <1>1, SeqNoAssumption
    <2>2. maxPos \in -1..(RcvBufSize - 1)
      BY ListConstants DEF Init
    <2>. QED  BY <1>1, <1>4, <2>1, <2>2 DEF Init, Typed
  <1>7. WindowOK
    <2>1. nextRead = Shift(c, -Ready)
      <3>1. Shift(c, 0) = c
        BY <1>1, SeqNoAssumption DEF Shift
      <3>2. \A r \in Int : -r = 0 - r
        OBVIOUS
      <3>3. PICK r \in Int : r = Ready
        BY <1>3
      <3>4. -r = 0 - r /\ -Ready = -r
        BY <3>2, <3>3
      <3>5. 0 - r = 0
        BY <1>3, <3>3
      <3>. QED  BY <1>1, <3>1, <3>4, <3>5
    <2>2. rcvCurrSeqNo = -1 => c = 0
      BY <1>1
    <2>3. Filled + Cur <= RcvBufSize - 2
      BY <1>2, <1>5, ListConstants
    <2>4. lastAckPos = (Begin + Ready) % RcvBufSize
      BY <1>3, <1>5 DEF Init
    <2>5. readPc # "reading"
      BY DEF Init
    <2>. QED  BY <1>2, <1>3, <1>5, <2>1, <2>2, <2>3, <2>4, <2>5 DEF WindowOK
  <1>8. HeldOK
    <2>1. 0..(Ready - 1) = {}
      BY <1>3
    <2>. QED  BY <1>2, <2>1 DEF Init, HeldOK
  <1>9. RingIsStream
    <2>1. ASSUME NEW d \in 0..(RcvBufSize - 1) PROVE unit[(Begin + d) % RcvBufSize] = NULL
      <3>1. d \in 0..RcvBufSize
        BY ListConstants
      <3>2. (Begin + d) % RcvBufSize \in Slots
        BY <1>4, <1>5, <3>1, SlotAt
      <3>. QED  BY <3>2 DEF Init
    <2>2. held = {}
      BY DEF Init
    <2>. QED  BY <2>1, <2>2, RingAt
  <1>10. NotchOK /\ PacketOK
    BY <1>3 DEF Init, NotchOK, PacketOK
  <1>11. ListOK
    <2>1. Gaps = {} /\ Holes = {}
      <3>1. 0..-1 = {}
        OBVIOUS
      <3>. QED  BY <1>2, <3>1 DEF Gaps, Holes, Cur
    <2>2. loss = EmptyLoss
      BY DEF Init
    <2>3. EmptyLoss.length = 0 /\ In(EmptyLoss) = {} /\ \A i \in Nodes : IsClear(EmptyLoss, i)
      BY DEF EmptyLoss, In, IsClear
    <2>4. EmptyLoss \in LossLists
      BY DEF EmptyLoss, LossLists
    <2>5. IsChain(EmptyLoss, c, {})
      BY <2>3 DEF IsChain, AreRuns, AreInPlace, EndsOK, NextOK, PriorOK
    <2>6. IsList(EmptyLoss, c, {})
      BY <2>3, <2>4, <2>5 DEF IsList
    <2>. QED  BY <2>1, <2>2, <2>3, <2>6, FS_EmptySet DEF ListOK
  <1>. QED  BY <1>6, <1>7, <1>8, <1>9, <1>10, <1>11 DEF IInv

LEMMA StepOK ==
    ASSUME IInv, [Next]_vars
    PROVE  IInv'
  <1>1. ASSUME NEW pkt \in Arrivals, DataArrives(pkt) PROVE IInv'
    BY <1>1, DataArrivesStep
  <1>2. ASSUME NEW len \in ReadSizes, ReadStart(len) PROVE IInv'
    BY <1>2, ReadStartStep
  <1>3. CASE DataHandled
    BY <1>3, DataHandledStep
  <1>4. CASE SendAck
    BY <1>4, SendAckStep
  <1>5. CASE ReadUnit
    BY <1>5, ReadUnitStep
  <1>6. CASE ReadEnd
    BY <1>6, ReadEndStep
  <1>7. CASE UNCHANGED vars
    BY <1>7, StutterStep
  <1>. QED  BY <1>1, <1>2, <1>3, <1>4, <1>5, <1>6, <1>7 DEF Next

(* The receiver's invariant (buffer.cpp, list.cpp, core.cpp): the window,  *)
(* the ring, the bytes read and the loss list fit each other at every step *)
(* of the two threads.                                                     *)
THEOREM Invariance == Spec => []IInv
  <1>1. Init => IInv
    BY InitOK
  <1>2. IInv /\ [Next]_vars => IInv'
    BY StepOK
  <1>. QED  BY <1>1, <1>2, PTL DEF Spec

-----------------------------------------------------------------------------
LEMMA TypesHold ==
    ASSUME IInv
    PROVE  TypeOK
  <1>1. Typed /\ loss \in LossLists
    BY DEF IInv, ListOK, IsList
  <1>2. PICK n \in -1..(RcvBufSize - 2) : n = Cur
    BY Numbers DEF IInv
  <1>3. Holes = HolesOf(rcvLastAck, n, held) /\ rcvLastAck \in SeqNos
    BY <1>1, <1>2 DEF Holes, HolesOf, Cur, Off, Typed
  <1>4. loss.length \in 0..RcvBufSize
    BY <1>3, HolesAreGaps DEF IInv, ListOK
  <1>. QED  BY <1>1, <1>4 DEF Typed, LossLists, TypeOK

LEMMA ListHolds ==
    ASSUME IInv
    PROVE  ListIsHoles
  <1>. DEFINE c == rcvLastAck
  <1>1. PICK n \in -1..(RcvBufSize - 2) : n = Cur
    BY Numbers DEF IInv
  <1>2. PICK H : H = Gaps
    OBVIOUS
  <1>3. /\ IsList(loss, c, H) /\ IsChain(loss, c, H) /\ loss.length = Cardinality(Holes)
        /\ c \in SeqNos /\ loss \in LossLists
    BY <1>2 DEF IInv, ListOK, IsList, Typed
  <1>4. H = GapsOf(c, n, held) /\ Holes = HolesOf(c, n, held)
    BY <1>1, <1>2 DEF Gaps, GapsOf, Holes, HolesOf, Cur, Off
  <1>5. IsFiniteSet(Holes) /\ (Holes = {} <=> H = {})
    BY <1>3, <1>4, HolesAreGaps
  <1>6. loss.length = 0 <=> H = {}
    BY <1>3, <1>5, FS_EmptySet
  <1>7. Used = In(loss)
    BY DEF Used, In
  <1>8. ASSUME NEW i \in Used
        PROVE  /\ i \in Nodes /\ i \in In(loss)
               /\ Off(loss.data1[i]) = First(loss, c, i) /\ Off(LastOf(i)) = Last(loss, c, i)
               /\ First(loss, c, i) \in H /\ Last(loss, c, i) \in H
               /\ First(loss, c, i) \in 0..(RcvBufSize - 2)
               /\ Last(loss, c, i) \in 0..(RcvBufSize - 2)
               /\ First(loss, c, i) <= Last(loss, c, i)
    <2>1. i \in In(loss)
      BY <1>7
    <2>2. Off(loss.data1[i]) = First(loss, c, i) /\ Off(LastOf(i)) = Last(loss, c, i)
      BY DEF Off, LastOf, First, Last
    <2>3. First(loss, c, i) <= Last(loss, c, i)
      BY <1>3, <2>1, NodeFacts
    <2>. QED  BY <1>3, <2>1, <2>2, <2>3, NodeNumbers
  <1>9. ASSUME NEW i \in Used, NEW j \in Used
        PROVE  Precedes(i, j) <=> Last(loss, c, i) < First(loss, c, j)
    BY <1>8 DEF Precedes
  <1>10. UNION {Covers(i) : i \in Used} = Holes
    <2>1. ASSUME NEW i \in Used, NEW s \in Covers(i) PROVE s \in Holes
      <3>1. s \in SeqNos /\ First(loss, c, i) <= SeqOff(c, s) /\ SeqOff(c, s) <= Last(loss, c, i)
        BY <1>8, <2>1 DEF Covers, Off
      <3>2. PICK k \in Int : k = SeqOff(c, s) /\ s = Shift(c, k)
        BY <1>3, <3>1, ShiftOff
      <3>3. k \in H
        BY <1>3, <1>8, <3>1, <3>2, NodeFacts
      <3>. QED  BY <1>4, <3>1, <3>2, <3>3 DEF GapsOf, HolesOf
    <2>2. ASSUME NEW s \in Holes PROVE \E i \in Used : s \in Covers(i)
      <3>1. /\ s \in SeqNos /\ s = Shift(c, SeqOff(c, s)) /\ SeqOff(c, s) \in H
        BY <1>3, <1>4, ShiftOff DEF GapsOf, HolesOf
      <3>2. PICK i \in In(loss) : First(loss, c, i) <= SeqOff(c, s) /\ SeqOff(c, s) <= Last(loss, c, i)
        BY <1>3, <3>1 DEF IsChain, AreRuns
      <3>. QED  BY <1>7, <1>8, <3>1, <3>2 DEF Covers, Off
    <2>. QED  BY <2>1, <2>2
  <1>11. ASSUME NEW i \in Used, NEW j \in Used, i # j
         PROVE  Precedes(i, j) \/ Precedes(j, i)
    <2>1. PICK a, b, x, y \in 0..(RcvBufSize - 2) :
             /\ a = First(loss, c, i) /\ b = Last(loss, c, i) /\ a <= b
             /\ x = First(loss, c, j) /\ y = Last(loss, c, j) /\ x <= y
      BY <1>8
    <2>2. ASSUME a <= x, x <= b PROVE FALSE
      BY <1>3, <1>8, <1>11, <2>1, <2>2, NodesDisjoint
    <2>3. ASSUME x <= a, a <= y PROVE FALSE
      BY <1>3, <1>8, <1>11, <2>1, <2>3, NodesDisjoint
    <2>4. b < x \/ y < a
      BY <2>1, <2>2, <2>3
    <2>. QED  BY <1>9, <2>1, <2>4
  <1>12. \A i \in Nodes \ Used :
            loss.data2[i] = -1 /\ loss.next[i] = Unset /\ loss.prior[i] = Unset
    BY <1>3, <1>7 DEF IsList, IsClear
  <1>13. loss.length > 0 => loss.head \in Used /\ loss.tail \in Used
    <2>1. ASSUME loss.length > 0 PROVE H # {}
      <3>1. loss.length # 0
        BY <2>1
      <3>. QED  BY <1>6, <3>1
    <2>. QED  BY <1>3, <1>7, <2>1 DEF IsChain, EndsOK
  <1>14. ASSUME NEW i \in Used PROVE i = LossPos(loss, loss.data1[i])
    <2>1. loss.head \in In(loss) /\ i \in In(loss) /\ i \in Nodes
      BY <1>3, <1>8 DEF IsChain, EndsOK
    <2>2. PICK o \in 0..(RcvBufSize - 2) : o = First(loss, c, i) /\ loss.data1[i] = Shift(c, o)
      BY <1>3, <2>1, NodeNumbers
    <2>3. /\ LossPos(loss, Shift(c, o)) \in Nodes
          /\ Apart(LossPos(loss, Shift(c, o)), i, o - First(loss, c, i))
      BY <1>3, <2>1, PlaceOfNumber
    <2>4. o - First(loss, c, i) = 0
      BY <2>2
    <2>. QED  BY <2>1, <2>2, <2>3, <2>4, ApartNone
  <1>15. ASSUME NEW i \in Used
         PROVE  LET after == {j \in Used : Precedes(i, j)}
                IN  IF after = {} THEN i = loss.tail /\ loss.next[i] = -1
                    ELSE loss.next[i] \in after
                         /\ \A j \in after : j = loss.next[i] \/ Precedes(loss.next[i], j)
    <2>. DEFINE after == {j \in Used : Precedes(i, j)}
    <2>1. i \in In(loss) /\ (loss.next[i] = -1 <=> i = loss.tail)
      BY <1>3, <1>7 DEF IsChain, EndsOK
    <2>2. CASE loss.next[i] = -1
      <3>1. \A k \in H : k <= Last(loss, c, i)
        BY <1>3, <2>1, <2>2 DEF IsChain, NextOK
      <3>2. after = {}
        <4>1. ASSUME NEW j \in Used, Precedes(i, j) PROVE FALSE
          BY <1>8, <1>9, <3>1, <4>1
        <4>. QED  BY <4>1
      <3>. QED  BY <2>1, <2>2, <3>2
    <2>3. CASE loss.next[i] # -1
      <3>1. PICK m \in Used : m = loss.next[i]
        BY <1>3, <1>7, <2>1, <2>3, NextFacts
      <3>2. /\ Last(loss, c, i) < First(loss, c, m)
            /\ \A k \in H : k <= Last(loss, c, i) \/ First(loss, c, m) <= k
        BY <1>3, <2>1, <2>3, <3>1, NextFacts
      <3>3. m \in after
        BY <1>9, <3>2
      <3>4. ASSUME NEW j \in after PROVE j = m \/ Precedes(m, j)
        <4>1. j \in Used /\ Last(loss, c, i) < First(loss, c, j)
          BY <1>9
        <4>2. First(loss, c, m) <= First(loss, c, j)
          BY <1>8, <3>2, <4>1
        <4>3. ~Precedes(j, m)
          BY <1>8, <1>9, <4>1, <4>2
        <4>. QED  BY <1>11, <4>1, <4>3
      <3>. QED  BY <3>1, <3>3, <3>4
    <2>. QED  BY <2>2, <2>3
  <1>16. ASSUME NEW i \in Used
         PROVE  LET before == {j \in Used : Precedes(j, i)}
                IN  IF before = {} THEN i = loss.head /\ loss.prior[i] = -1
                    ELSE loss.prior[i] \in before /\ loss.next[loss.prior[i]] = i
    <2>. DEFINE before == {j \in Used : Precedes(j, i)}
    <2>1. i \in In(loss) /\ (loss.prior[i] = -1 <=> i = loss.head)
      BY <1>3, <1>7 DEF IsChain, EndsOK
    <2>2. CASE loss.prior[i] = -1
      <3>1. \A k \in H : First(loss, c, i) <= k
        BY <1>3, <2>1, <2>2 DEF IsChain, PriorOK
      <3>2. before = {}
        <4>1. ASSUME NEW j \in Used, Precedes(j, i) PROVE FALSE
          BY <1>8, <1>9, <3>1, <4>1
        <4>. QED  BY <4>1
      <3>. QED  BY <2>1, <2>2, <3>2
    <2>3. CASE loss.prior[i] # -1
      <3>1. PICK m \in Used : m = loss.prior[i] /\ loss.next[m] = i
        BY <1>3, <1>7, <2>1, <2>3 DEF IsChain, PriorOK
      <3>2. i # -1
        BY <1>8, ListConstants
      <3>3. Last(loss, c, m) < First(loss, c, i)
        BY <1>3, <1>7, <3>1, <3>2, NextFacts
      <3>4. m \in before
        BY <1>9, <3>3
      <3>. QED  BY <3>1, <3>4
    <2>. QED  BY <2>2, <2>3
  <1>17. LinksAreOrder
    BY <1>12, <1>13, <1>14, <1>15, <1>16 DEF LinksAreOrder
  <1>. QED  BY <1>3, <1>10, <1>11, <1>17 DEF ListIsHoles

LEMMA ReadHolds ==
    ASSUME IInv
    PROVE  ReadsTheNextByte
  BY UnitToRead DEF ReadsTheNextByte

LEMMA RoomHolds ==
    ASSUME IInv
    PROVE  RoomNeverOverstated
  <1>1. SUFFICES ASSUME rcvPc = "room" PROVE AvailBufSize <= RcvBufSize - 1 - Ready
    BY DEF RoomNeverOverstated, Ready
  <1>2. PICK f, r, z \in Int : f = Filled /\ r = Ready /\ z = DataSize /\ f <= z /\ r <= f
    BY <1>1, DataSizeBounds, Numbers DEF IInv
  <1>3. AvailBufSize = RcvBufSize - z - 1
    BY <1>2 DEF AvailBufSize
  <1>. QED  BY <1>2, <1>3, ListConstants

-----------------------------------------------------------------------------
(* Numbers stay on the circle, positions in the ring, nodes in the list.   *)
THEOREM TypeCorrect == Spec => []TypeOK
  <1>1. IInv => TypeOK
    BY TypesHold
  <1>. QED  BY <1>1, Invariance, PTL

(* In whatever order packets arrive, CRcvLossList holds the missing        *)
(* numbers, each once, in order, where insert and remove look for them.    *)
THEOREM ListCorrect == Spec => []ListIsHoles
  <1>1. IInv => ListIsHoles
    BY ListHolds
  <1>. QED  BY <1>1, Invariance, PTL

(* The ring of CRcvBuffer is the stream: a packet taken and not yet read   *)
(* is at its distance from the packet to read, and nothing else is there.  *)
THEOREM RingCorrect == Spec => []RingIsStream
  <1>1. IInv => RingIsStream
    BY DEF IInv
  <1>. QED  BY <1>1, Invariance, PTL

(* readBuffer and readBufferToFile read the bytes of the stream in order.  *)
THEOREM ReadCorrect == Spec => []ReadsTheNextByte
  <1>1. IInv => ReadsTheNextByte
    BY ReadHolds
  <1>. QED  BY <1>1, Invariance, PTL

(* The two reads of m_iStartPos in getRcvDataSize, with the application    *)
(* moving it in between, never show more room than there is.               *)
THEOREM RoomCorrect == Spec => []RoomNeverOverstated
  <1>1. IInv => RoomNeverOverstated
    BY RoomHolds
  <1>. QED  BY <1>1, Invariance, PTL
====
