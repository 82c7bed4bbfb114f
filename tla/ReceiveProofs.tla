---------------------------- MODULE ReceiveProofs ----------------------------
(***************************************************************************)
(* Proofs about reception, for every ring length, chunk length, number of  *)
(* bytes, line length and content of the stream: RxRing first, LinePoll    *)
(* over it after.                                                          *)
(*                                                                         *)
(* The ring.  The inductive invariant RingInv adds to the checked          *)
(* invariants what a pop knows between its guard and its store             *)
(* (PopGuarded), how the two positions relate to the number of unread      *)
(* bytes (Positions), and what the unread cells hold (CellsIntact).        *)
(* Positions and CellsIntact are linear: no modulo is needed because an    *)
(* unread run wraps at most once while no increment is lost.               *)
(*                                                                         *)
(* The lines.  protocol_poll uses the ring as RxRing assumes main does:    *)
(* each of its steps is a step of the ring or leaves the ring alone.  The  *)
(* one step that needs an invariant is Peek, whose pop has no guard of its *)
(* own: the counter was positive a step ago and interrupts only ever       *)
(* increase it.                                                            *)
(***************************************************************************)
EXTENDS LinePoll, FiniteSetsExt, WellFoundedInduction, TLAPS

(***************************************************************************)
(* Least and greatest elements of sets of naturals.                        *)
(***************************************************************************)

(* Every set of naturals that is not empty has a least element. *)
LEMMA LeastNatural ==
  ASSUME NEW S \in SUBSET Nat, S # {}
  PROVE  \E m \in S : \A k \in S : m <= k
<1>1. PICK R : IsWellFoundedOn(R, Nat) /\ \A x, y \in Nat : x < y => <<x, y>> \in R
  <2>1. \A x, y \in Nat : x < y => <<x, y>> \in OpToRel(<, Nat)
    BY Zenon DEF OpToRel
  <2> QED
    BY <2>1, NatLessThanWellFounded, Zenon
<1>2. PICK m \in S : \A y \in S : ~ (<<y, m>> \in R)
  <2>1. IsWellFoundedOn(R, Nat) /\ S \subseteq Nat
    BY <1>1
  <2> QED
    BY <2>1, WFMin, Zenon
<1>3. \A k \in S : ~ (k < m)
  BY <1>1, <1>2, Zenon
<1>4. \A k \in S : m <= k
  BY <1>3
<1> QED
  BY <1>4

(* Min of a set of naturals is in it and below the others. *)
LEMMA MinIsLeast ==
  ASSUME NEW S \in SUBSET Nat, S # {}
  PROVE  Min(S) \in S /\ \A k \in S : Min(S) <= k
<1>1. \E m \in S : \A k \in S : m <= k
  BY LeastNatural
<1> QED
  BY <1>1, Zenon DEF Min

(* Max of a bounded set of naturals is in it and above the others. *)
LEMMA MaxIsGreatest ==
  ASSUME NEW n \in Nat, NEW S \in SUBSET (0..n), S # {}
  PROVE  Max(S) \in S /\ \A k \in S : Max(S) >= k
<1> DEFINE Below == {d \in Nat : n - d \in S}
<1>1. Below \in SUBSET Nat /\ Below # {}
  <2>1. PICK k \in S : TRUE
    OBVIOUS
  <2>2. n - k \in Nat /\ n - (n - k) = k
    BY <2>1
  <2>3. n - k \in Below
    BY <2>1, <2>2
  <2> QED
    BY <2>3
<1>2. PICK d \in Below : \A e \in Below : d <= e
  <2> HIDE DEF Below
  <2> QED
    BY <1>1, LeastNatural
<1>3. n - d \in S
  BY <1>2
<1>4. ASSUME NEW k \in S PROVE n - d >= k
  <2>1. n - k \in Nat /\ n - (n - k) = k /\ k \in Nat
    BY <1>4
  <2>2. n - k \in Below
    BY <2>1
  <2>3. d <= n - k /\ d \in Nat
    BY <1>2, <2>2
  <2> QED
    BY <2>1, <2>3
<1>5. \E m \in S : \A k \in S : m >= k
  BY <1>3, <1>4
<1> QED
  BY <1>5, Zenon DEF Max

-----------------------------------------------------------------------------
(* Inside a pop the ring is known not to be empty, and the register holds  *)
(* a value that pushes can only have made too small.                       *)
PopGuarded ==
  /\ pc # "poll" => RemainCount >= 1
  /\ pc = "store" => count >= 1 /\ count <= RemainCount

(* The distance from SendPos to RecvPos is the number of unread bytes, or  *)
(* differs from it by one lap.  The lap is negative when RecvPos stayed at *)
(* RingLen and main has read everything.                                   *)
Positions ==
  lost = 0 =>
    \/ pushed - popped = RecvPos - SendPos
    \/ pushed - popped = RecvPos - SendPos + RingLen
    \/ pushed - popped = RecvPos - SendPos - RingLen

CellsIntact ==
  lost = 0 =>
    \A i \in 0..RingLen - 1 :
      i < pushed - popped => buffer[CellAt(i)] = popped + 1 + i

RingInv ==
  /\ RingTypeOK
  /\ CountAccounted
  /\ PopGuarded
  /\ Positions
  /\ CellsIntact
  /\ InOrder

LEMMA InitRingInv == RingInit => RingInv
BY RingAssumption
   DEF RingInit, RingInv, RingTypeOK, CountAccounted, PopGuarded, Positions,
       CellsIntact, InOrder, InFlight, CellAt, Cells

(* The clamp never lets a push take more than the counter says is free. *)
LEMMA AcceptedBounds ==
  ASSUME RingTypeOK, NEW len \in 0..ChunkLen
  PROVE  /\ Accepted(len) \in Nat
         /\ Accepted(len) <= RingLen - RemainCount
         /\ Accepted(len) <= RingLen
BY RingAssumption DEF RingTypeOK, Accepted

(* With no increment lost, at most RingLen bytes are unread. *)
LEMMA UnreadBound ==
  ASSUME RingInv
  PROVE  /\ pushed - popped = RemainCount + lost - InFlight
         /\ pushed - popped \in Nat
         /\ lost = 0 => pushed - popped <= RingLen
BY RingAssumption DEF RingInv, RingTypeOK, CountAccounted, PopGuarded, InFlight

(* Where the i-th unread byte lies relative to RecvPos: an unread byte is   *)
(* outside the free run that starts at RecvPos, and the cells of that run  *)
(* follow each other, wrapping at the end of the array.                    *)
LEMMA Window ==
  ASSUME RingInv, lost = 0,
         NEW i \in 0..RingLen - 1
  PROVE  LET d == pushed - popped
         IN  /\ CellAt(i) \in Cells
             /\ i < d => CellAt(i) < RecvPos \/ CellAt(i) >= RecvPos + (RingLen - d)
             /\ i < d => CellAt(i) >= RecvPos - d
             /\ i >= d => \/ CellAt(i) = RecvPos + (i - d)
                          \/ CellAt(i) = RecvPos + (i - d) - RingLen
<1> DEFINE d == pushed - popped
<1>1. d \in Nat /\ d <= RingLen
  BY UnreadBound
<1>2. /\ RecvPos \in 0..RingLen
      /\ SendPos \in 0..RingLen - 1
      /\ RingLen \in Nat
  BY RingAssumption DEF RingInv, RingTypeOK, Cells
<1>3. d = RecvPos - SendPos \/ d = RecvPos - SendPos + RingLen
      \/ d = RecvPos - SendPos - RingLen
  BY DEF RingInv, Positions
<1>4. CellAt(i) = IF SendPos + i < RingLen THEN SendPos + i
                  ELSE SendPos + i - RingLen
  BY DEF CellAt
<1> HIDE DEF d
<1>5. /\ CellAt(i) \in 0..RingLen - 1
      /\ i < d => CellAt(i) < RecvPos \/ CellAt(i) >= RecvPos + (RingLen - d)
      /\ i < d => CellAt(i) >= RecvPos - d
      /\ i >= d => \/ CellAt(i) = RecvPos + (i - d)
                   \/ CellAt(i) = RecvPos + (i - d) - RingLen
  BY <1>1, <1>2, <1>3, <1>4
<1> QED
  BY <1>5 DEF d, Cells

LEMMA PushRingInv ==
  ASSUME RingInv, NEW len \in 0..ChunkLen, Push(len)
  PROVE  RingInv'
<1> DEFINE n == Accepted(len)
<1>1. /\ n \in Nat
      /\ n <= RingLen - RemainCount
      /\ n <= RingLen
  BY AcceptedBounds DEF RingInv
<1>2. /\ pushed + n <= MaxBytes
      /\ CopyStraight(n) \/ CopyWrapped(n)
      /\ RemainCount' = RemainCount + n
      /\ pushed' = pushed + n
      /\ UNCHANGED <<SendPos, pc, count, byte, popped, lost>>
  BY DEF Push
<1> HIDE DEF n
<1>3. /\ pushed - popped = RemainCount + lost - InFlight
      /\ pushed - popped \in Nat
  BY UnreadBound
<1>4. RingTypeOK'
  <2>1. CASE CopyStraight(n)
    BY <1>1, <1>2, <2>1, RingAssumption
       DEF RingInv, RingTypeOK, CopyStraight, Cells
  <2>2. CASE CopyWrapped(n)
    BY <1>1, <1>2, <2>2, RingAssumption
       DEF RingInv, RingTypeOK, CopyWrapped, Cells
  <2> QED
    BY <1>2, <2>1, <2>2
<1>5. CountAccounted' /\ PopGuarded' /\ InOrder'
  BY <1>1, <1>2
     DEF RingInv, RingTypeOK, CountAccounted, PopGuarded, InOrder, InFlight
<1>6. Positions'
  <2>1. CASE CopyStraight(n)
    BY <1>1, <1>2, <2>1, RingAssumption
       DEF RingInv, RingTypeOK, Positions, CopyStraight, Cells
  <2>2. CASE CopyWrapped(n)
    BY <1>1, <1>2, <1>3, <2>2, RingAssumption
       DEF RingInv, RingTypeOK, Positions, CopyWrapped, Cells, InFlight,
           PopGuarded
  <2> QED
    BY <1>2, <2>1, <2>2
<1>7. CellsIntact'
  <2> SUFFICES ASSUME lost = 0, NEW i \in 0..RingLen - 1,
                      i < pushed' - popped
               PROVE  buffer'[CellAt(i)'] = popped + 1 + i
    BY <1>2, Zenon DEF CellsIntact
  <2>1. CellAt(i)' = CellAt(i) /\ CellAt(i) \in Cells
    BY <1>2, RingAssumption DEF RingInv, RingTypeOK, CellAt, Cells
  <2>2. i < pushed + n - popped /\ pushed + n - popped <= RingLen
    BY <1>1, <1>2, <1>3, RingAssumption
       DEF RingInv, RingTypeOK, PopGuarded, InFlight
  <2>3. i < pushed - popped => buffer[CellAt(i)] = popped + 1 + i
    BY DEF RingInv, CellsIntact
  <2>4. /\ i < pushed - popped =>
             \/ CellAt(i) < RecvPos
             \/ CellAt(i) >= RecvPos + (RingLen - (pushed - popped))
        /\ i < pushed - popped => CellAt(i) >= RecvPos - (pushed - popped)
        /\ i >= pushed - popped =>
             \/ CellAt(i) = RecvPos + (i - (pushed - popped))
             \/ CellAt(i) = RecvPos + (i - (pushed - popped)) - RingLen
    BY Window
  <2>5. /\ RecvPos \in 0..RingLen
        /\ pushed \in Nat
        /\ popped \in Nat
        /\ RingLen \in Nat
        /\ CellAt(i) \in 0..RingLen - 1
    BY <2>1, RingAssumption DEF RingInv, RingTypeOK, Cells
  <2>6. CASE CopyStraight(n)
    <3>1. buffer'[CellAt(i)] = IF CellAt(i) >= RecvPos /\ CellAt(i) < RecvPos + n
                               THEN pushed + 1 + (CellAt(i) - RecvPos)
                               ELSE buffer[CellAt(i)]
      BY <2>1, <2>6 DEF CopyStraight
    <3>2. RecvPos + n <= RingLen
      BY <2>6, <1>1, RingAssumption DEF CopyStraight, RingInv, RingTypeOK
    <3> QED
      BY <1>1, <1>3, <2>1, <2>2, <2>3, <2>4, <2>5, <3>1, <3>2
  <2>7. CASE CopyWrapped(n)
    <3> DEFINE size == RingLen - RecvPos
    <3>1. buffer'[CellAt(i)] = IF CellAt(i) >= RecvPos
                               THEN pushed + 1 + (CellAt(i) - RecvPos)
                               ELSE IF CellAt(i) < n - size
                               THEN pushed + 1 + size + CellAt(i)
                               ELSE buffer[CellAt(i)]
      BY <2>1, <2>7 DEF CopyWrapped
    <3>2. size < n
      BY <2>7 DEF CopyWrapped
    <3> QED
      BY <1>1, <1>3, <2>1, <2>2, <2>3, <2>4, <2>5, <3>1, <3>2
  <2> QED
    BY <1>2, <2>1, <2>6, <2>7
<1> QED
  BY <1>4, <1>5, <1>6, <1>7 DEF RingInv

LEMMA PopReadRingInv ==
  ASSUME RingInv, PopRead
  PROVE  RingInv'
<1>1. pushed - popped = RemainCount + lost /\ RemainCount >= 1
  BY UnreadBound DEF RingInv, RingTypeOK, PopGuarded, PopRead, InFlight
<1>2. RingTypeOK'
  BY <1>1, RingAssumption DEF RingInv, RingTypeOK, PopRead, Cells
<1>3. CountAccounted' /\ PopGuarded'
  BY <1>1
     DEF RingInv, RingTypeOK, CountAccounted, PopGuarded, PopRead, InFlight
<1>4. InOrder'
  <2> SUFFICES ASSUME lost = 0
               PROVE  buffer[SendPos] = popped + 1
    BY DEF InOrder, PopRead
  <2>1. 0 \in 0..RingLen - 1 /\ 0 < pushed - popped
    BY <1>1, RingAssumption DEF RingInv, RingTypeOK
  <2>2. buffer[CellAt(0)] = popped + 1 + 0
    BY <2>1 DEF RingInv, CellsIntact
  <2>3. CellAt(0) = SendPos
    BY RingAssumption DEF RingInv, RingTypeOK, CellAt, Cells
  <2> QED
    BY <2>2, <2>3 DEF RingInv, RingTypeOK
<1>5. Positions'
  BY <1>1, RingAssumption
     DEF RingInv, RingTypeOK, Positions, PopRead, Cells
<1>6. CellsIntact'
  <2> SUFFICES ASSUME lost = 0, NEW i \in 0..RingLen - 1,
                      i < pushed - (popped + 1)
               PROVE  buffer[CellAt(i)'] = popped + 2 + i
    BY DEF CellsIntact, PopRead, RingInv, RingTypeOK
  <2>1. i + 1 \in 0..RingLen - 1 /\ i + 1 < pushed - popped
    BY <1>1, RingAssumption DEF RingInv, RingTypeOK
  <2>2. CellAt(i)' = CellAt(i + 1)
    BY <2>1, RingAssumption DEF RingInv, RingTypeOK, PopRead, CellAt, Cells
  <2> QED
    BY <2>1, <2>2, RingAssumption DEF RingInv, RingTypeOK, CellsIntact
<1> QED
  BY <1>2, <1>3, <1>4, <1>5, <1>6 DEF RingInv

LEMMA NextRingInv == RingInv /\ [RingNext]_ringVars => RingInv'
<1> SUFFICES ASSUME RingInv, [RingNext]_ringVars
             PROVE  RingInv'
  OBVIOUS
<1>1. CASE PollGuard
  BY <1>1, RingAssumption
     DEF RingInv, RingTypeOK, CountAccounted, PopGuarded, Positions,
         CellsIntact, InOrder, InFlight, CellAt, Cells, PollGuard
<1>2. CASE PopRead
  BY <1>2, PopReadRingInv
<1>3. CASE PopLoad
  BY <1>3, RingAssumption
     DEF RingInv, RingTypeOK, CountAccounted, PopGuarded, Positions,
         CellsIntact, InOrder, InFlight, CellAt, Cells, PopLoad
<1>4. CASE PopStore
  <2>1. RingTypeOK' /\ PopGuarded'
    BY <1>4, RingAssumption
       DEF RingInv, RingTypeOK, PopGuarded, PopStore, Cells
  <2>2. CountAccounted'
    BY <1>4
       DEF RingInv, RingTypeOK, CountAccounted, PopGuarded, InFlight, PopStore
  <2>3. lost' = 0 => lost = 0
    BY <1>4 DEF RingInv, RingTypeOK, PopGuarded, PopStore
  <2>4. Positions' /\ InOrder'
    BY <1>4, <2>3 DEF RingInv, Positions, InOrder, PopStore
  <2>5. CellsIntact'
    BY <1>4, <2>3 DEF RingInv, CellsIntact, CellAt, PopStore
  <2> QED
    BY <2>1, <2>2, <2>4, <2>5 DEF RingInv
<1>5. ASSUME NEW len \in 0..ChunkLen, Push(len)
      PROVE  RingInv'
  BY <1>5, PushRingInv
<1>6. CASE UNCHANGED ringVars
  BY <1>6
     DEF RingInv, RingTypeOK, CountAccounted, PopGuarded, Positions,
         CellsIntact, InOrder, InFlight, CellAt, Cells, ringVars
<1> QED
  BY <1>1, <1>2, <1>3, <1>4, <1>5, <1>6 DEF RingNext, MainStep

(* The inductive invariant holds in every reachable state. *)
THEOREM RingInvariant == RingSpec => []RingInv
BY InitRingInv, NextRingInv, PTL DEF RingSpec, RingSafety

(* Indices stay inside the array and RemainCount inside 0..RingLen,        *)
(* wherever a receive interrupt lands inside ring_buffer_pop.              *)
THEOREM RingTypeCorrect == RingSpec => []RingTypeOK
<1>1. RingInv => RingTypeOK
  BY DEF RingInv
<1> QED
  BY <1>1, RingInvariant, PTL

(* RemainCount falls short of the occupancy by exactly the increments that *)
(* landed inside RemainCount--.                                            *)
THEOREM CountIsAccounted == RingSpec => []CountAccounted
<1>1. RingInv => CountAccounted
  BY DEF RingInv
<1> QED
  BY <1>1, RingInvariant, PTL

(* protocol_poll never consumes a byte that was not received. *)
THEOREM NoPhantomBytes == RingSpec => []NoPhantom
<1>1. RingInv => NoPhantom
  BY UnreadBound DEF RingInv, RingTypeOK, NoPhantom
<1> QED
  BY <1>1, RingInvariant, PTL

(* Until an increment is lost, bytes are read in the order and with the    *)
(* values in which they were accepted.                                     *)
THEOREM BytesInOrder == RingSpec => []InOrder
<1>1. RingInv => InOrder
  BY DEF RingInv
<1> QED
  BY <1>1, RingInvariant, PTL
-----------------------------------------------------------------------------
(* Refinement.  While no increment is lost, the queue the refinement       *)
(* mapping reads out of the cells is a run of consecutive byte numbers.    *)
Run(start, n) == [i \in 1..n |-> start + i]

LEMMA RunConcat ==
  ASSUME NEW s \in Int, NEW m \in Nat, NEW n \in Nat
  PROVE  Run(s, m) \o Run(s + m, n) = Run(s, m + n)
BY DEF Run

LEMMA RunTail ==
  ASSUME NEW s \in Int, NEW n \in Nat, n > 0
  PROVE  /\ Run(s, n) # <<>>
         /\ Tail(Run(s, n)) = Run(s + 1, n - 1)
         /\ Len(Run(s, n)) = n
BY DEF Run

LEMMA RunLen ==
  ASSUME NEW s \in Int, NEW n \in Nat
  PROVE  Len(Run(s, n)) = n /\ Run(s, 0) = <<>> /\ Run(s, 1) = <<s + 1>>
BY DEF Run

HeldIsRun == lost = 0 => Held = Run(popped - InFlight, RemainCount)

HeldIsEmpty == lost # 0 => Held = <<>> /\ lost > 0

LEMMA HeldRun == RingInv => HeldIsRun
<1> SUFFICES ASSUME RingInv, lost = 0
             PROVE  Held = Run(popped - InFlight, RemainCount)
  BY DEF HeldIsRun
<1>1. /\ pushed - popped \in Nat
      /\ pushed - popped <= RingLen
      /\ RemainCount = InFlight + (pushed - popped)
      /\ popped \in Nat
  BY UnreadBound DEF RingInv, RingTypeOK, CountAccounted, InFlight
<1>2. Unread = Run(popped, pushed - popped)
  <2>1. ASSUME NEW i \in 1..pushed - popped
        PROVE  buffer[CellAt(i - 1)] = popped + i
    <3>1. i - 1 \in 0..RingLen - 1 /\ i - 1 < pushed - popped
      BY <1>1, RingAssumption
    <3>2. buffer[CellAt(i - 1)] = popped + 1 + (i - 1)
      BY <3>1 DEF RingInv, CellsIntact
    <3> QED
      BY <1>1, <3>2
  <2> QED
    BY <2>1 DEF Unread, Run
<1>3. CASE InFlight = 1
  <2>1. byte = popped
    BY DEF RingInv, InOrder
  <2>2. popped - 1 \in Int /\ (popped - 1) + 1 = popped
    BY <1>1
  <2>3. Run(popped - 1, 1) = <<(popped - 1) + 1>>
    BY <2>2, RunLen
  <2>4. Held = Run(popped - 1, 1) \o Run((popped - 1) + 1, pushed - popped)
    <3>1. Held = <<byte>> \o Unread
      BY <1>3 DEF Held
    <3> QED
      BY <1>2, <2>1, <2>2, <2>3, <3>1
  <2>5. Held = Run(popped - 1, 1 + (pushed - popped))
    BY <1>1, <2>2, <2>4, RunConcat
  <2> QED
    BY <1>1, <1>3, <2>5
<1>4. CASE InFlight = 0
  <2>1. Held = <<>> \o Run(popped, pushed - popped)
    BY <1>2, <1>4 DEF Held
  <2>2. Held = Run(popped, pushed - popped)
    <3>1. Run(popped, 0) = <<>>
      BY <1>1, RunLen
    <3>2. popped + 0 = popped /\ 0 + (pushed - popped) = pushed - popped
      BY <1>1
    <3> QED
      BY <1>1, <2>1, <3>1, <3>2, RunConcat
  <2> QED
    BY <1>1, <1>4, <2>2
<1> QED
  BY <1>3, <1>4 DEF InFlight

LEMMA HeldLost == RingInv => HeldIsEmpty
BY DEF RingInv, RingTypeOK, Held, HeldIsEmpty

LEMMA HeldNext == RingInv' => HeldIsRun' /\ HeldIsEmpty'
BY HeldRun, HeldLost, PTL

(* A push is an Offer, or a stutter once an increment was lost. *)
LEMMA PushRefines ==
  ASSUME RingInv, RingInv', NEW len \in 0..ChunkLen, Push(len)
  PROVE  [Fifo!FifoNext]_Fifo!fifoVars
<1> DEFINE n == Accepted(len)
<1>1. /\ n \in Nat
      /\ RemainCount' = RemainCount + n
      /\ pushed' = pushed + n
      /\ UNCHANGED <<popped, lost, pc>>
  BY AcceptedBounds DEF Push, RingInv
<1>2. InFlight' = InFlight
  BY <1>1 DEF InFlight
<1>3. CASE lost = 0
  <2>1. /\ Held = Run(popped - InFlight, RemainCount)
        /\ Held' = Run(popped - InFlight, RemainCount + n)
    BY <1>1, <1>2, <1>3, HeldRun, HeldNext DEF HeldIsRun, HeldIsEmpty
  <2>2. /\ popped - InFlight \in Int
        /\ RemainCount \in Nat
        /\ popped - InFlight + RemainCount = pushed
    BY <1>3 DEF RingInv, RingTypeOK, CountAccounted, InFlight
  <2>3. Held' = Held \o Run(pushed, n)
    BY <1>1, <2>1, <2>2, RunConcat
  <2>4. Len(Held) = RemainCount
    BY <2>1, <2>2, RunLen
  <2>5. n = IF RingLen - Len(Held) < len THEN RingLen - Len(Held) ELSE len
    BY <2>4 DEF Accepted
  <2>6. Fifo!Offer(len)
    BY <1>1, <1>3, <2>3, <2>5 DEF Fifo!Offer, Run
  <2> QED
    BY <2>6 DEF Fifo!FifoNext
<1>4. CASE lost # 0
  BY <1>1, <1>4, HeldLost, HeldNext DEF Fifo!fifoVars, RingInv, RingTypeOK, HeldIsRun, HeldIsEmpty
<1> QED
  BY <1>3, <1>4

(* The step that stores the decremented counter is a Take, unless a push   *)
(* came in between: then it is the Degrade that ends the promise.          *)
LEMMA PopStoreRefines ==
  ASSUME RingInv, RingInv', PopStore
  PROVE  [Fifo!FifoNext]_Fifo!fifoVars
<1>1. /\ RemainCount' = count - 1
      /\ lost' = lost + (RemainCount - count)
      /\ UNCHANGED <<pushed, popped>>
      /\ InFlight = 1
      /\ InFlight' = 0
  BY DEF PopStore, InFlight
<1>2. /\ count \in Nat /\ count >= 1 /\ count <= RemainCount
      /\ RemainCount \in Nat
      /\ popped \in Nat
      /\ lost \in Nat /\ lost' \in Nat
  BY DEF RingInv, RingTypeOK, PopGuarded, PopStore
<1>3. CASE lost' = 0
  <2>1. lost = 0 /\ RemainCount = count
    BY <1>1, <1>2, <1>3
  <2>2. Held = Run(popped - 1, RemainCount)
    BY <1>1, <2>1, HeldRun, HeldNext DEF HeldIsRun, HeldIsEmpty
  <2>3. Held' = Run(popped - 0, RemainCount - 1)
    BY <1>1, <1>3, <2>1, HeldRun, HeldNext DEF HeldIsRun, HeldIsEmpty
  <2>4. popped - 1 \in Int /\ (popped - 1) + 1 = popped - 0
    BY <1>2
  <2>5. Held # <<>> /\ Held' = Tail(Held)
    <3>1. RemainCount > 0 /\ RemainCount \in Nat
      BY <1>2, <2>1
    <3>2. /\ Run(popped - 1, RemainCount) # <<>>
          /\ Tail(Run(popped - 1, RemainCount))
               = Run((popped - 1) + 1, RemainCount - 1)
      BY <2>4, <3>1, RunTail
    <3> QED
      BY <2>2, <2>3, <2>4, <3>2
  <2>6. Fifo!Take
    BY <1>1, <1>3, <2>1, <2>5 DEF Fifo!Take
  <2> QED
    BY <2>6 DEF Fifo!FifoNext
<1>4. CASE lost' # 0 /\ lost = 0
  BY <1>4, HeldLost, HeldNext DEF Fifo!FifoNext, Fifo!Degrade, RingInv, RingTypeOK, HeldIsRun, HeldIsEmpty
<1>5. CASE lost' # 0 /\ lost # 0
  BY <1>5, HeldLost, HeldNext DEF Fifo!fifoVars, HeldIsRun, HeldIsEmpty
<1> QED
  BY <1>2, <1>3, <1>4, <1>5

(* The other instructions of a pop leave the queue as it is: the byte that *)
(* PopRead takes out of its cell stays at the head until the store.        *)
LEMMA PopStutters ==
  ASSUME RingInv, RingInv', PollGuard \/ PopRead \/ PopLoad
  PROVE  UNCHANGED Fifo!fifoVars
<1>1. /\ RemainCount' = RemainCount
      /\ lost' = lost
      /\ pushed' = pushed
      /\ popped' - InFlight' = popped - InFlight
  <2>1. popped \in Nat
    BY DEF RingInv, RingTypeOK
  <2>2. CASE PollGuard
    BY <2>1, <2>2 DEF PollGuard, InFlight
  <2>3. CASE PopRead
    BY <2>1, <2>3 DEF PopRead, InFlight
  <2>4. CASE PopLoad
    BY <2>1, <2>4 DEF PopLoad, InFlight
  <2> QED
    BY <2>2, <2>3, <2>4
<1>2. Held' = Held
  <2>1. CASE lost = 0
    BY <1>1, <2>1, HeldRun, HeldNext DEF HeldIsRun, HeldIsEmpty
  <2>2. CASE lost # 0
    BY <1>1, <2>2, HeldLost, HeldNext DEF HeldIsRun, HeldIsEmpty
  <2> QED
    BY <2>1, <2>2
<1> QED
  BY <1>1, <1>2 DEF Fifo!fifoVars

(* Step by step: every step of the ring is a step of the queue or a        *)
(* stutter on it.                                                          *)
LEMMA RingSafetyImplementsFifo == RingSafety => Fifo!FifoSafety
<1>1. RingInit => Fifo!FifoInit
  <2> SUFFICES ASSUME RingInit PROVE Fifo!FifoInit
    OBVIOUS
  <2>1. RingInv
    BY InitRingInv
  <2>2. lost = 0 /\ RemainCount = 0 /\ popped = 0 /\ pushed = 0 /\ InFlight = 0
    BY DEF RingInit, InFlight
  <2>3. Held = Run(0 - 0, 0)
    BY <2>1, <2>2, HeldRun, HeldNext DEF HeldIsRun, HeldIsEmpty
  <2>4. Held = <<>>
    BY <2>3 DEF Run
  <2> QED
    BY <2>2, <2>4 DEF Fifo!FifoInit
<1>2. RingInv /\ RingInv' /\ [RingNext]_ringVars
        => [Fifo!FifoNext]_Fifo!fifoVars
  <2> SUFFICES ASSUME RingInv, RingInv', [RingNext]_ringVars
               PROVE  [Fifo!FifoNext]_Fifo!fifoVars
    OBVIOUS
  <2>1. CASE UNCHANGED ringVars
    <3>1. RemainCount' = RemainCount /\ lost' = lost /\ pushed' = pushed
          /\ popped' - InFlight' = popped - InFlight
      BY <2>1 DEF ringVars, InFlight
    <3>2. Held' = Held
      BY <3>1, HeldRun, HeldLost, HeldNext DEF HeldIsRun, HeldIsEmpty
    <3> QED
      BY <3>1, <3>2 DEF Fifo!fifoVars
  <2>2. CASE PollGuard \/ PopRead \/ PopLoad
    BY <2>2, PopStutters
  <2>3. CASE PopStore
    BY <2>3, PopStoreRefines
  <2>4. ASSUME NEW len \in 0..ChunkLen, Push(len)
        PROVE  [Fifo!FifoNext]_Fifo!fifoVars
    BY <2>4, PushRefines
  <2> QED
    BY <2>1, <2>2, <2>3, <2>4 DEF RingNext, MainStep
<1>3. RingSafety => []RingInv
  BY InitRingInv, NextRingInv, PTL DEF RingSafety
<1> QED
  BY <1>1, <1>2, <1>3, PTL DEF RingSafety, Fifo!FifoSafety

(* ring_buffer_push_huge and ring_buffer_pop implement the bounded FIFO of *)
(* BoundedFifo, for every ring and chunk length and every landing of the   *)
(* interrupts, up to the first lost increment.                             *)
THEOREM RingImplementsFifo == RingSpec => Fifo!FifoSafety
BY RingSafetyImplementsFifo, PTL DEF RingSpec

-----------------------------------------------------------------------------
PeekGuarded ==
  /\ at \in {"peek", "next"} => pc = "poll"
  /\ at = "next" => RemainCount > 0

LineInv == RingInv /\ PeekGuarded

(* Every step of the poll loop is a step of the ring or stutters on it. *)
LEMMA LineStepIsRingStep ==
  ASSUME PeekGuarded, [LineNext]_lineVars
  PROVE  [RingNext]_ringVars
<1>1. CASE LoopGuard
  BY <1>1 DEF LoopGuard, RingNext, MainStep
<1>2. CASE PopByte
  BY <1>2 DEF PopByte, RingNext, MainStep
<1>3. CASE PopEnd
  BY <1>3 DEF PopEnd, RingNext, MainStep
<1>4. CASE PeekGuard
  BY <1>4 DEF PeekGuard
<1>5. CASE Peek
  <2>1. pc = "poll" /\ RemainCount > 0
    BY <1>5 DEF Peek, PeekGuarded
  <2> QED
    BY <1>5, <2>1 DEF Peek, RingNext, MainStep, PollGuard
<1>6. CASE Receive
  BY <1>6 DEF Receive, RingNext
<1>7. CASE UNCHANGED lineVars
  BY <1>7 DEF lineVars
<1> QED
  BY <1>1, <1>2, <1>3, <1>4, <1>5, <1>6, <1>7 DEF LineNext, PollStep

LEMMA LineStepKeepsInv ==
  ASSUME LineInv, [LineNext]_lineVars
  PROVE  LineInv'
<1>1. RingInv'
  BY LineStepIsRingStep, NextRingInv DEF LineInv
<1>2. PeekGuarded'
  <2>1. CASE LoopGuard
    BY <2>1 DEF LoopGuard, Keep, PeekGuarded
  <2>2. CASE PopByte
    <3>1. pc # "poll" /\ UNCHANGED at
      BY <2>2 DEF PopByte, PopRead, PopLoad, Keep
    <3> QED
      BY <3>1 DEF LineInv, PeekGuarded
  <2>3. CASE PopEnd
    <3>1. pc' = "poll" /\ at' \in {"loop", "peek"}
      BY <2>3 DEF PopEnd, PopStore, Gather, Finish
    <3> QED
      BY <3>1 DEF PeekGuarded
  <2>4. CASE PeekGuard
    <3>1. UNCHANGED <<pc, RemainCount>>
      BY <2>4 DEF PeekGuard, ringVars
    <3> QED
      BY <2>4, <3>1 DEF PeekGuard, Finish, LineInv, PeekGuarded
  <2>5. CASE Peek
    BY <2>5 DEF Peek, Finish, PeekGuarded
  <2>6. CASE Receive
    <3>1. UNCHANGED <<pc, at>>
      BY <2>6 DEF Receive, Push, Keep
    <3>2. PICK len \in 0..ChunkLen : Push(len)
      BY <2>6 DEF Receive
    <3>3. Accepted(len) >= 0 /\ Accepted(len) \in Int
      BY RingAssumption DEF LineInv, RingInv, RingTypeOK, Accepted
    <3>4. RemainCount' = RemainCount + Accepted(len)
      BY <3>2 DEF Push
    <3>5. RemainCount > 0 => RemainCount' > 0
      BY <3>3, <3>4 DEF LineInv, RingInv, RingTypeOK
    <3> QED
      BY <3>1, <3>5 DEF LineInv, PeekGuarded
  <2>7. CASE UNCHANGED lineVars
    BY <2>7 DEF lineVars, ringVars, LineInv, PeekGuarded
  <2> QED
    BY <2>1, <2>2, <2>3, <2>4, <2>5, <2>6, <2>7 DEF LineNext, PollStep
<1> QED
  BY <1>1, <1>2 DEF LineInv

(* The poll loop implements main's side of the ring, and the ring's        *)
(* invariants, order of the bytes included, hold under it.                 *)
THEOREM LinePollImplementsRing == LineSpec => RingSafety /\ []RingInv
<1>1. LineInit => RingInit /\ LineInv
  BY InitRingInv DEF LineInit, LineInv, PeekGuarded
<1>2. LineInv /\ [LineNext]_lineVars => LineInv' /\ [RingNext]_ringVars
  BY LineStepKeepsInv, LineStepIsRingStep DEF LineInv
<1>3. LineInv => RingInv
  BY DEF LineInv
<1> QED
  BY <1>1, <1>2, <1>3, PTL DEF LineSpec, RingSafety

(* So the bytes protocol_poll sees come out of a bounded FIFO: the two     *)
(* refinements compose.                                                    *)
THEOREM LinePollReadsFifo == LineSpec => Fifo!FifoSafety
BY LinePollImplementsRing, RingSafetyImplementsFifo, PTL

LEMMA LineStepKeepsTypes ==
  ASSUME LineInv, LineTypeOK, [LineNext]_lineVars
  PROVE  LineInv' /\ LineTypeOK'
<1>1. LineInv'
  BY LineStepKeepsInv
<1>2. byte \in 0..MaxBytes
  BY DEF LineInv, RingInv, RingTypeOK
<1>3. at' \in {"loop", "peek", "next", "pair"}
  BY DEF LineTypeOK, LineNext, PollStep, LoopGuard, PopByte, PopEnd, PeekGuard, Peek,
     Receive, Keep, Gather, Finish, lineVars
<1>4. line' \in Seq(0..MaxBytes) /\ Len(line') <= LineMax
  <2>1. line' = line \/ line' = <<>> \/ (Len(line) < LineMax /\ line' = Append(line, byte))
    BY DEF LineNext, PollStep, LoopGuard, PopByte, PopEnd, PeekGuard, Peek,
       Receive, Keep, Gather, Finish, lineVars
  <2>2. line \in Seq(0..MaxBytes) /\ Len(line) <= LineMax
    BY DEF LineTypeOK
  <2>3. Append(line, byte) \in Seq(0..MaxBytes) /\ Len(Append(line, byte)) = Len(line) + 1
    BY <1>2, <2>2
  <2>4. LineMax \in Nat /\ LineMax >= 0 /\ Len(line) \in Nat
    BY <2>2, LineAssumption DEF LineAssumption
  <2>5. Len(<<>>) = 0 /\ <<>> \in Seq(0..MaxBytes)
    OBVIOUS
  <2>6. CASE line' = line
    BY <2>2, <2>6
  <2>7. CASE line' = <<>>
    BY <2>4, <2>5, <2>7
  <2>8. CASE Len(line) < LineMax /\ line' = Append(line, byte)
    <3>1. Len(line) + 1 <= LineMax
      BY <2>4, <2>8
    <3> QED
      BY <2>3, <2>8, <3>1
  <2> QED
    BY <2>1, <2>6, <2>7, <2>8
<1> QED
  BY <1>1, <1>3, <1>4 DEF LineTypeOK, LineInv, PeekGuarded

(* line_pos never passes the buffer, and the pair is looked for in a cell  *)
(* that is filled.                                                         *)
THEOREM LineTypesHold == LineSpec => []LineTypeOK
<1>1. LineInit => LineInv /\ LineTypeOK
  BY InitRingInv, LineAssumption
  DEF LineInit, LineInv, PeekGuarded, LineTypeOK, LineAssumption
<1>2. LineInv /\ LineTypeOK /\ [LineNext]_lineVars => LineInv' /\ LineTypeOK'
  BY LineStepKeepsTypes
<1> QED
  BY <1>1, <1>2, PTL DEF LineSpec
-----------------------------------------------------------------------------
(* The lines.  The stream never changes; the definitions of the reference  *)
(* are given it as a parameter, so that a step only has to say so.         *)
DelimIn(st, k) == k # 0 /\ st[k] \in {"cr", "lf"}
StringIn(st, s) ==
  LET nul == {i \in 1..Len(s) : st[s[i]] = "nul"}
  IN  SubSeq(s, 1, Min(nul \union {Len(s) + 1}) - 1)
LastIn(st, n) == Max({k \in 1..n : DelimIn(st, k)} \union {0})
LineIn(st, k) == StringIn(st, Piece(LastIn(st, k - 1), k - 1))
EndsIn(st, n) == {k \in 1..n : DelimIn(st, k) /\ LineIn(st, k) # <<>>}

(* What was returned and what is gathered is right for the first n bytes.  *)
Returned(st, ret, n) ==
  /\ {ret[i] : i \in DOMAIN ret} = {LineIn(st, k) : k \in EndsIn(st, n)}
  /\ \A i, j \in DOMAIN ret : i < j => ret[i][1] < ret[j][1]

Cut(st, ret, ln, n) == Returned(st, ret, n) /\ ln = Piece(LastIn(st, n), n)

LEMMA SameReference ==
  /\ \A k : Delimiter(k) <=> DelimIn(stream, k)
  /\ \A s : CString(s) = StringIn(stream, s)
  /\ \A n : LastDelimiter(n) = LastIn(stream, n)
  /\ \A k : LineAt(k) = LineIn(stream, k)
  /\ \A n : Ends(n) = EndsIn(stream, n)
<1>1. \A k : Delimiter(k) <=> DelimIn(stream, k)
  BY DEF Delimiter, Kind, DelimIn
<1>2. \A s : CString(s) = StringIn(stream, s)
  BY DEF CString, StringIn
<1>3. \A n : LastDelimiter(n) = LastIn(stream, n)
  <2> TAKE n
  <2>1. {k \in 1..n : Delimiter(k)} = {k \in 1..n : DelimIn(stream, k)}
    BY <1>1
  <2> QED
    BY <2>1 DEF LastDelimiter, LastIn
<1>4. \A k : LineAt(k) = LineIn(stream, k)
  BY <1>2, <1>3 DEF LineAt, LineIn
<1>5. \A n : Ends(n) = EndsIn(stream, n)
  BY <1>1, <1>4 DEF Ends, EndsIn
<1> QED
  BY <1>1, <1>2, <1>3, <1>4, <1>5

(* The last delimiter of the first n bytes: 0 if there is none. *)
LEMMA LastIs ==
  ASSUME NEW st, NEW n \in Nat
  PROVE  /\ LastIn(st, n) \in 0..n
         /\ LastIn(st, n) # 0 => DelimIn(st, LastIn(st, n))
         /\ \A k \in 1..n : DelimIn(st, k) => k <= LastIn(st, n)
<1> DEFINE S == {k \in 1..n : DelimIn(st, k)} \union {0}
<1>1. S \in SUBSET (0..n) /\ S # {}
  OBVIOUS
<1>2. Max(S) \in S /\ \A k \in S : Max(S) >= k
  <2> HIDE DEF S
  <2> QED
    BY <1>1, MaxIsGreatest
<1> QED
  BY <1>2 DEF LastIn

LEMMA LastStep ==
  ASSUME NEW st, NEW n \in Nat
  PROVE  LastIn(st, n + 1) = IF DelimIn(st, n + 1) THEN n + 1 ELSE LastIn(st, n)
<1>1. n + 1 \in Nat
  OBVIOUS
<1>2. /\ LastIn(st, n) \in 0..n
      /\ LastIn(st, n) # 0 => DelimIn(st, LastIn(st, n))
      /\ \A k \in 1..n : DelimIn(st, k) => k <= LastIn(st, n)
  BY LastIs
<1>3. /\ LastIn(st, n + 1) \in 0..n + 1
      /\ LastIn(st, n + 1) # 0 => DelimIn(st, LastIn(st, n + 1))
      /\ \A k \in 1..n + 1 : DelimIn(st, k) => k <= LastIn(st, n + 1)
  BY <1>1, LastIs
<1> QED
  BY <1>2, <1>3

(* A C string is a prefix of what it is cut from. *)
LEMMA StringIs ==
  ASSUME NEW st, NEW s \in Seq(Nat)
  PROVE  /\ StringIn(st, s) \in Seq(Nat)
         /\ StringIn(st, s) # <<>> => s # <<>> /\ StringIn(st, s)[1] = s[1]
<1> DEFINE S == {i \in 1..Len(s) : st[s[i]] = "nul"} \union {Len(s) + 1}
<1>1. S \in SUBSET Nat /\ S # {} /\ S \subseteq 1..Len(s) + 1
  OBVIOUS
<1>2. Min(S) \in S
  <2> HIDE DEF S
  <2> QED
    BY <1>1, MinIsLeast
<1>3. PICK m \in 0..Len(s) : Min(S) - 1 = m
  <2>1. Min(S) \in 1..Len(s) + 1
    BY <1>1, <1>2
  <2>2. Min(S) - 1 \in 0..Len(s)
    <3> HIDE DEF S
    <3> QED
      BY <2>1
  <2> QED
    BY <2>2, Zenon
<1>4. StringIn(st, s) = SubSeq(s, 1, m)
  BY <1>3 DEF StringIn
<1> QED
  BY <1>3, <1>4

(* Pieces are runs of byte numbers, and grow by a byte until they are full. *)
LEMMA PieceIs ==
  ASSUME NEW a \in Nat, NEW b \in Nat, a <= b
  PROVE  /\ Piece(a, b) \in Seq(Nat)
         /\ Len(Piece(a, b)) = (IF b - a < LineMax THEN b - a ELSE LineMax)
         /\ Piece(a, b) # <<>> => Piece(a, b)[1] = a + 1
         /\ Piece(a, a) = <<>>
         /\ Piece(a, b + 1) = IF Len(Piece(a, b)) < LineMax THEN Append(Piece(a, b), b + 1)
                              ELSE Piece(a, b)
<1>1. \A d \in Nat : Min({d, LineMax}) = IF d < LineMax THEN d ELSE LineMax
  <2> TAKE d \in Nat
  <2>1. {d, LineMax} \in SUBSET Nat /\ {d, LineMax} # {}
    BY LineAssumption DEF LineAssumption
  <2>2. Min({d, LineMax}) \in {d, LineMax} /\ \A k \in {d, LineMax} : Min({d, LineMax}) <= k
    BY <2>1, MinIsLeast
  <2> QED
    BY <2>1, <2>2
<1>2. b - a \in Nat /\ b + 1 - a \in Nat /\ a - a \in Nat /\ LineMax \in Nat \ {0}
  BY LineAssumption DEF LineAssumption
<1> DEFINE n == IF b - a < LineMax THEN b - a ELSE LineMax
           m == IF b + 1 - a < LineMax THEN b + 1 - a ELSE LineMax
<1>3. Piece(a, b) = [i \in 1..n |-> a + i] /\ Piece(a, b + 1) = [i \in 1..m |-> a + i]
  BY <1>1, <1>2 DEF Piece
<1>4. n \in Nat /\ m \in Nat
  BY <1>2
<1>5. Piece(a, a) = <<>>
  <2>1. Piece(a, a) = [i \in 1..0 |-> a + i]
    BY <1>1, <1>2 DEF Piece
  <2> QED
    BY <2>1
<1>6. Piece(a, b) \in Seq(Nat) /\ Len(Piece(a, b)) = n
  BY <1>3, <1>4
<1>7. Piece(a, b) # <<>> => Piece(a, b)[1] = a + 1
  BY <1>3, <1>4
<1>8. CASE n < LineMax
  <2>1. m = n + 1 /\ a + m = b + 1
    BY <1>2, <1>8
  <2>2. Append(Piece(a, b), b + 1) = [i \in 1..m |-> a + i]
    BY <1>3, <1>4, <1>6, <2>1
  <2> QED
    BY <1>3, <1>5, <1>6, <1>7, <1>8, <2>2
<1>9. CASE ~(n < LineMax)
  <2>1. m = n
    BY <1>2, <1>9
  <2> QED
    BY <1>3, <1>5, <1>6, <1>7, <1>9, <2>1
<1> QED
  BY <1>8, <1>9

(* The line a delimiter ends starts behind the delimiter before it. *)
LEMMA LineStart ==
  ASSUME NEW st, NEW k \in Nat \ {0}, LineIn(st, k) # <<>>
  PROVE  LineIn(st, k)[1] = LastIn(st, k - 1) + 1
<1> DEFINE a == LastIn(st, k - 1)
           s == Piece(a, k - 1)
<1>1. k - 1 \in Nat
  OBVIOUS
<1>2. a \in Nat /\ a <= k - 1
  BY <1>1, LastIs
<1>3. s \in Seq(Nat) /\ (s # <<>> => s[1] = a + 1)
  <2> HIDE DEF a
  <2> QED
    BY <1>1, <1>2, PieceIs
<1>4. LineIn(st, k) = StringIn(st, s)
  BY DEF LineIn
<1> HIDE DEF a, s
<1>5. StringIn(st, s) # <<>> => s # <<>> /\ StringIn(st, s)[1] = s[1]
  BY <1>3, StringIs
<1>6. LineIn(st, k)[1] = a + 1
  BY <1>3, <1>4, <1>5
<1> QED
  BY <1>6 DEF a

(* A byte that is no delimiter joins the line. *)
LEMMA GatherCuts ==
  ASSUME NEW st, NEW ret, NEW ln, NEW n \in Nat,
         Cut(st, ret, ln, n), ~DelimIn(st, n + 1)
  PROVE  Cut(st, ret, IF Len(ln) < LineMax THEN Append(ln, n + 1) ELSE ln, n + 1)
<1>1. LastIn(st, n + 1) = LastIn(st, n) /\ LastIn(st, n) \in 0..n
  BY LastStep, LastIs
<1>2. EndsIn(st, n + 1) = EndsIn(st, n)
  BY DEF EndsIn
<1>3. Piece(LastIn(st, n), n + 1) =
        IF Len(ln) < LineMax THEN Append(ln, n + 1) ELSE ln
  <2>1. ln = Piece(LastIn(st, n), n)
    BY DEF Cut
  <2>2. LastIn(st, n) \in Nat /\ LastIn(st, n) <= n
    BY <1>1
  <2> QED
    BY <2>1, <2>2, PieceIs
<1> QED
  BY <1>1, <1>2, <1>3 DEF Cut, Returned

(* A delimiter ends the line: it is returned behind all others, or, when   *)
(* its string is empty, forgotten.                                         *)
LEMMA FinishCuts ==
  ASSUME NEW st, NEW ret \in Seq(Seq(Nat)), NEW ln, NEW n \in Nat,
         Cut(st, ret, ln, n), DelimIn(st, n + 1)
  PROVE  Cut(st,
             IF StringIn(st, ln) = <<>> THEN ret ELSE Append(ret, StringIn(st, ln)),
             <<>>, n + 1)
<1> DEFINE new == StringIn(st, ln)
<1>1. n + 1 \in Nat \ {0} /\ (n + 1) - 1 = n
  OBVIOUS
<1>2. LastIn(st, n + 1) = n + 1 /\ Piece(n + 1, n + 1) = <<>>
  <2>1. LastIn(st, n + 1) = n + 1
    BY LastStep
  <2> QED
    BY <1>1, <2>1, PieceIs
<1>3. LineIn(st, n + 1) = new
  BY <1>1 DEF LineIn, Cut
<1>4. EndsIn(st, n + 1) = EndsIn(st, n) \union (IF new = <<>> THEN {} ELSE {n + 1})
  <2>1. 1..n + 1 = (1..n) \union {n + 1}
    OBVIOUS
  <2> QED
    BY <1>3, <2>1 DEF EndsIn
<1> HIDE DEF new
<1>5. CASE new = <<>>
  <2>1. EndsIn(st, n + 1) = EndsIn(st, n)
    BY <1>4, <1>5
  <2> QED
    BY <1>2, <1>5, <2>1 DEF Cut, Returned, new
<1>6. CASE new # <<>>
  <2> DEFINE all == Append(ret, new)
  <2>1. /\ Len(all) = Len(ret) + 1 /\ DOMAIN all = 1..Len(ret) + 1 /\ DOMAIN ret = 1..Len(ret)
        /\ all[Len(ret) + 1] = new /\ \A i \in 1..Len(ret) : all[i] = ret[i]
    <3>1. new \in Seq(Nat)
      <4>1. LastIn(st, n) \in Nat /\ LastIn(st, n) <= n
        BY LastIs
      <4>2. ln \in Seq(Nat)
        BY <4>1, PieceIs DEF Cut
      <4> QED
        BY <4>2, StringIs DEF new
    <3> QED
      BY <3>1
  <2>2. EndsIn(st, n + 1) = EndsIn(st, n) \union {n + 1}
    BY <1>4, <1>6
  <2> HIDE DEF all
  <2>3. {all[i] : i \in DOMAIN all} = {LineIn(st, k) : k \in EndsIn(st, n + 1)}
    <3>1. {all[i] : i \in DOMAIN all} = {ret[i] : i \in DOMAIN ret} \union {new}
      <4>1. DOMAIN all = DOMAIN ret \union {Len(ret) + 1}
        <5>1. Len(ret) \in Nat
          OBVIOUS
        <5>2. \A m \in Nat : 1..m + 1 = (1..m) \union {m + 1}
          OBVIOUS
        <5> QED
          BY <2>1, <5>1, <5>2
      <4>2. \A i \in DOMAIN ret : all[i] = ret[i]
        BY <2>1
      <4>3. all[Len(ret) + 1] = new
        BY <2>1
      <4> QED
        BY <4>1, <4>2, <4>3, Zenon
    <3>2. {LineIn(st, k) : k \in EndsIn(st, n + 1)} =
            {LineIn(st, k) : k \in EndsIn(st, n)} \union {new}
      BY <1>3, <2>2
    <3> QED
      BY <3>1, <3>2 DEF Cut, Returned
  <2>4. ASSUME NEW i \in DOMAIN all, NEW j \in DOMAIN all, i < j
        PROVE  all[i][1] < all[j][1]
    <3>1. i \in 1..Len(ret) /\ all[i] = ret[i] /\ Len(ret) \in Nat
      BY <2>1, <2>4
    <3>2. CASE j \in 1..Len(ret)
      BY <2>1, <2>4, <3>1, <3>2 DEF Cut, Returned
    <3>3. CASE j \notin 1..Len(ret)
      <4>1. all[j] = new /\ new[1] = LastIn(st, n) + 1
        <5>1. j = Len(ret) + 1
          BY <2>1, <3>1, <3>3
        <5> QED
          BY <1>1, <1>3, <1>6, <2>1, <5>1, LineStart
      <4>2. PICK k \in EndsIn(st, n) : ret[i] = LineIn(st, k)
        BY <2>1, <3>1 DEF Cut, Returned
      <4>3. k \in 1..n /\ DelimIn(st, k) /\ LineIn(st, k) # <<>>
        BY <4>2 DEF EndsIn
      <4>4. LineIn(st, k)[1] = LastIn(st, k - 1) + 1
        BY <4>3, LineStart
      <4>5. LastIn(st, k - 1) \in 0..k - 1 /\ LastIn(st, n) \in 0..n /\ k <= LastIn(st, n)
        <5>1. k - 1 \in Nat
          BY <4>3
        <5> QED
          BY <4>3, <5>1, LastIs
      <4> QED
        BY <3>1, <4>1, <4>2, <4>3, <4>4, <4>5
    <3> QED
      BY <3>2, <3>3
  <2>5. Returned(st, all, n + 1)
    BY <2>3, <2>4 DEF Returned
  <2> QED
    BY <1>2, <1>6, <2>5 DEF Cut, all, new
<1> QED
  BY <1>5, <1>6

(* The second half of a pair ends an empty line. *)
LEMMA PairCuts ==
  ASSUME NEW st, NEW ret, NEW n \in Nat,
         Cut(st, ret, <<>>, n), LastIn(st, n) = n, DelimIn(st, n + 1)
  PROVE  Cut(st, ret, <<>>, n + 1)
<1>1. n + 1 \in Nat /\ (n + 1) - 1 = n
  OBVIOUS
<1>2. LastIn(st, n + 1) = n + 1 /\ Piece(n + 1, n + 1) = <<>> /\ Piece(n, n) = <<>>
  <2>1. LastIn(st, n + 1) = n + 1
    BY LastStep
  <2> QED
    BY <1>1, <2>1, PieceIs
<1>3. LineIn(st, n + 1) = <<>>
  <2>1. LineIn(st, n + 1) = StringIn(st, <<>>)
    BY <1>1, <1>2 DEF LineIn
  <2>2. <<>> \in Seq(Nat)
    OBVIOUS
  <2> QED
    BY <2>1, <2>2, StringIs
<1>4. EndsIn(st, n + 1) = EndsIn(st, n)
  <2>1. 1..n + 1 = (1..n) \union {n + 1}
    OBVIOUS
  <2> QED
    BY <1>3, <2>1 DEF EndsIn
<1> QED
  BY <1>2, <1>4 DEF Cut, Returned
-----------------------------------------------------------------------------
(* Where the poll loop is with the byte at hand: it has cut the bytes      *)
(* before it; behind a delimiter the line is not ended yet, and at a pair  *)
(* both halves are known before the second is popped.                      *)
CutSoFar ==
  LET done == popped - InFlight
  IN  /\ at = "loop" => Cut(stream, returned, line, done)
      /\ at \in {"peek", "next"} =>
           DelimIn(stream, popped) /\ Cut(stream, returned, line, popped - 1)
      /\ at = "pair" =>
           /\ DelimIn(stream, done) /\ DelimIn(stream, done + 1)
           /\ Cut(stream, returned, line, done - 1)

CutInv ==
  /\ LineInv /\ LineTypeOK
  /\ returned \in Seq(Seq(Nat))
  /\ at = "pair" => pc # "poll"
  /\ InFlight = 1 => popped >= 1
  /\ lost = 0 => CutSoFar

LEMMA ReturnedIsSeq ==
  ASSUME CutInv
  PROVE  StringIn(stream, line) \in Seq(Nat)
<1>1. line \in Seq(Nat)
  <2>1. line \in Seq(0..MaxBytes) /\ MaxBytes \in Nat
    BY RingAssumption DEF CutInv, LineTypeOK
  <2> QED
    BY <2>1
<1> QED
  BY <1>1, StringIs

(* An increment that is lost stays lost. *)
LEMMA LostStays ==
  ASSUME LineInv, [LineNext]_lineVars, lost' = 0
  PROVE  lost = 0
<1>1. [RingNext]_ringVars
  BY LineStepIsRingStep DEF LineInv
<1>2. CASE PopStore
  BY <1>2 DEF PopStore, LineInv, RingInv, RingTypeOK, PopGuarded
<1>3. CASE ~PopStore
  BY <1>1, <1>3 DEF RingNext, MainStep, PollGuard, PopRead, PopLoad, Push, ringVars
<1> QED
  BY <1>2, <1>3

(* The next cell holds the next byte whenever the counter says there is one *)
(* and main is between two pops.                                           *)
LEMMA NextCell ==
  ASSUME RingInv, lost = 0, pc = "poll", RemainCount > 0
  PROVE  buffer[SendPos] = popped + 1
<1>1. pushed - popped = RemainCount /\ RemainCount \in Nat /\ popped \in Nat
  BY UnreadBound DEF RingInv, RingTypeOK, InFlight
<1>2. 0 \in 0..RingLen - 1 /\ 0 < pushed - popped
  BY <1>1, RingAssumption
<1>3. buffer[CellAt(0)] = popped + 1 + 0
  BY <1>2 DEF RingInv, CellsIntact
<1>4. CellAt(0) = SendPos
  BY RingAssumption DEF RingInv, RingTypeOK, CellAt, Cells
<1> QED
  BY <1>1, <1>3, <1>4

(* Steps that leave the line alone: pushes, guards, and the reads of a pop. *)
LEMMA KeepKeepsCut ==
  ASSUME CutInv, LineInv', LineTypeOK', lost' = 0 => lost = 0,
         LoopGuard \/ PopByte \/ Receive \/ UNCHANGED lineVars
  PROVE  CutInv'
<1>1. UNCHANGED <<stream, at, line, returned>>
  BY DEF LoopGuard, PopByte, Receive, Keep, lineVars
<1>2. popped \in Nat
  BY DEF CutInv, LineInv, RingInv, RingTypeOK
<1>3. CASE LoopGuard \/ Receive \/ UNCHANGED lineVars
  <2>1. UNCHANGED <<popped, InFlight>> /\ (at = "pair" => pc' = pc)
    BY <1>3 DEF LoopGuard, PollGuard, Receive, Push, lineVars, ringVars, InFlight
  <2> QED
    BY <1>1, <2>1 DEF CutInv, CutSoFar
<1>4. CASE PopByte
  <2>1. CASE PopRead
    <3>1. /\ popped' = popped + 1 /\ InFlight = 0 /\ InFlight' = 1
          /\ pc = "read" /\ pc' # "poll"
      BY <2>1 DEF PopRead, InFlight
    <3>2. popped' - InFlight' = popped - InFlight /\ popped' >= 1
      BY <1>2, <3>1
    <3>3. at \notin {"peek", "next"}
      BY <3>1 DEF CutInv, LineInv, PeekGuarded
    <3> QED
      BY <1>1, <3>1, <3>2, <3>3 DEF CutInv, CutSoFar
  <2>2. CASE PopLoad
    <3>1. UNCHANGED <<popped, InFlight>> /\ pc' # "poll"
      BY <2>2 DEF PopLoad, InFlight
    <3> QED
      BY <1>1, <3>1 DEF CutInv, CutSoFar
  <2> QED
    BY <1>4, <2>1, <2>2 DEF PopByte
<1> QED
  BY <1>3, <1>4

(* A line that ends at a delimiter, whatever was gathered. *)
LEMMA FinishReturns ==
  ASSUME CutInv, Finish
  PROVE  /\ returned' \in Seq(Seq(Nat))
         /\ line' = <<>> /\ stream' = stream /\ at' = "loop"
         /\ \A n \in Nat : Cut(stream, returned, line, n) /\ DelimIn(stream, n + 1)
                           => Cut(stream, returned', <<>>, n + 1)
<1> DEFINE new == StringIn(stream, line)
<1>1. returned' = IF new = <<>> THEN returned ELSE Append(returned, new)
  BY SameReference DEF Finish
<1>2. returned \in Seq(Seq(Nat)) /\ new \in Seq(Nat)
  BY ReturnedIsSeq DEF CutInv
<1>3. returned' \in Seq(Seq(Nat))
  <2> HIDE DEF new
  <2> QED
    BY <1>1, <1>2
<1>4. line' = <<>> /\ stream' = stream /\ at' = "loop"
  BY DEF Finish
<1>5. ASSUME NEW n \in Nat, Cut(stream, returned, line, n), DelimIn(stream, n + 1)
      PROVE  Cut(stream, returned', <<>>, n + 1)
  BY <1>1, <1>2, <1>5, FinishCuts
<1> QED
  BY <1>3, <1>4, <1>5

(* The store that ends a pop: the byte joins the line, or is a delimiter,  *)
(* or is the second half of a pair and ends the line with both halves.     *)
LEMMA PopEndKeepsCut ==
  ASSUME CutInv, LineInv', LineTypeOK', lost' = 0 => lost = 0, PopEnd
  PROVE  CutInv'
<1>1. /\ InFlight = 1 /\ InFlight' = 0 /\ UNCHANGED <<popped, byte, stream>>
      /\ pc' = "poll" /\ popped >= 1 /\ popped \in Nat
  <2>1. UNCHANGED stream
    BY DEF PopEnd, Gather, Finish
  <2> QED
    BY <2>1 DEF PopEnd, PopStore, InFlight, CutInv, LineInv, RingInv, RingTypeOK
<1>2. popped - 1 \in Nat /\ (popped - 1) + 1 = popped /\ popped - 0 = popped
  BY <1>1
<1>3. lost = 0 => byte = popped
  BY DEF CutInv, LineInv, RingInv, InOrder
<1>4. CASE at = "loop" /\ Gather
  <2>1. ~DelimIn(stream, byte) /\ UNCHANGED <<at, returned>>
        /\ line' = IF Len(line) < LineMax THEN Append(line, byte) ELSE line
    BY <1>4, SameReference DEF Gather
  <2>2. ASSUME lost = 0
        PROVE  Cut(stream, returned, line', popped)
    <3>1. Cut(stream, returned, line, popped - 1)
      BY <1>1, <1>4, <2>2 DEF CutInv, CutSoFar
    <3> QED
      BY <1>2, <1>3, <2>1, <2>2, <3>1, GatherCuts
  <2>3. returned' \in Seq(Seq(Nat))
    BY <2>1 DEF CutInv
  <2> QED
    BY <1>1, <1>2, <1>4, <2>1, <2>2, <2>3 DEF CutInv, CutSoFar
<1>5. CASE /\ at = "loop" /\ Delimiter(byte) /\ at' = "peek"
           /\ UNCHANGED <<stream, line, returned>>
  <2>1. lost = 0 => DelimIn(stream, popped) /\ Cut(stream, returned, line, popped - 1)
    BY <1>1, <1>3, <1>5, SameReference DEF CutInv, CutSoFar
  <2> QED
    BY <1>1, <1>5, <2>1 DEF CutInv, CutSoFar
<1>6. CASE at = "pair" /\ Finish
  <2>1. /\ returned' \in Seq(Seq(Nat)) /\ line' = <<>> /\ at' = "loop"
        /\ \A n \in Nat : Cut(stream, returned, line, n) /\ DelimIn(stream, n + 1)
                          => Cut(stream, returned', <<>>, n + 1)
    BY <1>6, FinishReturns
  <2>2. ASSUME lost = 0
        PROVE  Cut(stream, returned', <<>>, popped)
    <3>1. DelimIn(stream, popped - 1) /\ DelimIn(stream, popped)
          /\ Cut(stream, returned, line, (popped - 1) - 1)
      BY <1>1, <1>2, <1>6, <2>2 DEF CutInv, CutSoFar
    <3>2. (popped - 1) - 1 \in Nat /\ ((popped - 1) - 1) + 1 = popped - 1
      <4>1. popped - 1 # 0
        BY <3>1 DEF DelimIn
      <4> QED
        BY <1>2, <4>1
    <3>3. Cut(stream, returned', <<>>, popped - 1)
      BY <2>1, <3>1, <3>2
    <3>4. LastIn(stream, popped - 1) = popped - 1
      BY <3>1, <3>2, LastStep
    <3> QED
      BY <1>2, <3>1, <3>3, <3>4, PairCuts
  <2> QED
    BY <1>1, <1>2, <2>1, <2>2 DEF CutInv, CutSoFar
<1> QED
  BY <1>4, <1>5, <1>6 DEF PopEnd

(* The look at the next cell: it sees the next byte of the stream, and the *)
(* line ends at once, or once the second half of the pair is popped.       *)
LEMMA PeekKeepsCut ==
  ASSUME CutInv, LineInv', LineTypeOK', lost' = 0 => lost = 0, PeekGuard \/ Peek
  PROVE  CutInv'
<1>1. /\ at \in {"peek", "next"} /\ pc = "poll" /\ InFlight = 0 /\ InFlight' = 0
      /\ UNCHANGED <<popped, lost, stream>> /\ popped \in Nat
  <2>1. at \in {"peek", "next"} /\ UNCHANGED <<popped, lost, stream>>
    BY DEF PeekGuard, Peek, Finish, ringVars
  <2>2. pc = "poll" /\ popped \in Nat
    BY <2>1 DEF CutInv, LineInv, PeekGuarded, RingInv, RingTypeOK
  <2>3. pc' \in {"poll", "read"}
    BY <2>2 DEF PeekGuard, Peek, ringVars
  <2> QED
    BY <2>1, <2>2, <2>3 DEF InFlight
<1>2. lost = 0 => /\ DelimIn(stream, popped) /\ Cut(stream, returned, line, popped - 1)
                  /\ popped - 1 \in Nat /\ (popped - 1) + 1 = popped
  BY <1>1 DEF CutInv, CutSoFar, DelimIn
<1>3. CASE Finish
  <2>1. /\ returned' \in Seq(Seq(Nat)) /\ line' = <<>> /\ at' = "loop"
        /\ \A n \in Nat : Cut(stream, returned, line, n) /\ DelimIn(stream, n + 1)
                          => Cut(stream, returned', <<>>, n + 1)
    BY <1>3, FinishReturns
  <2>2. lost = 0 => Cut(stream, returned', <<>>, popped)
    BY <1>2, <2>1
  <2>3. popped' - InFlight' = popped
    BY <1>1
  <2> QED
    BY <1>1, <2>1, <2>2, <2>3 DEF CutInv, CutSoFar
<1>4. CASE PeekGuard /\ ~Finish
  <2>1. at' = "next" /\ UNCHANGED <<line, returned>>
    BY <1>4 DEF PeekGuard
  <2> QED
    BY <1>1, <2>1 DEF CutInv, CutSoFar
<1>5. CASE Peek /\ ~Finish
  <2>1. /\ at = "next" /\ at' = "pair" /\ pc' = "read" /\ UNCHANGED <<line, returned>>
        /\ Paired(byte, buffer[SendPos])
    BY <1>5 DEF Peek
  <2>2. lost = 0 => buffer[SendPos] = popped + 1
    BY <1>1, <2>1, NextCell DEF CutInv, LineInv, PeekGuarded
  <2>3. Delimiter(buffer[SendPos])
    BY <2>1 DEF Paired, Delimiter
  <2>4. lost = 0 => DelimIn(stream, popped + 1)
    BY <2>2, <2>3, SameReference
  <2>5. popped' - InFlight' = popped
    BY <1>1
  <2> QED
    BY <1>1, <1>2, <2>1, <2>4, <2>5 DEF CutInv, CutSoFar
<1> QED
  BY <1>3, <1>4, <1>5

(* The cut is right in every reachable state. *)
LEMMA CutAlways == LineSpec => []CutInv
<1>1. LineInit => CutInv
  <2> SUFFICES ASSUME LineInit PROVE CutInv
    OBVIOUS
  <2>1. LineInv /\ LineTypeOK
    BY InitRingInv, LineAssumption
    DEF LineInit, LineInv, PeekGuarded, LineTypeOK, LineAssumption
  <2>2. popped = 0 /\ InFlight = 0 /\ at = "loop" /\ line = <<>> /\ returned = <<>>
    BY DEF LineInit, RingInit, InFlight
  <2>3. LastIn(stream, 0) = 0 /\ Piece(0, 0) = <<>>
    BY LastIs, PieceIs
  <2>4. EndsIn(stream, 0) = {} /\ DOMAIN returned = {}
    BY <2>2 DEF EndsIn
  <2>5. Cut(stream, returned, line, 0)
    BY <2>2, <2>3, <2>4 DEF Cut, Returned
  <2> QED
    BY <2>1, <2>2, <2>5 DEF CutInv, CutSoFar
<1>2. CutInv /\ [LineNext]_lineVars => CutInv'
  <2> SUFFICES ASSUME CutInv, [LineNext]_lineVars PROVE CutInv'
    OBVIOUS
  <2>1. LineInv' /\ LineTypeOK'
    BY LineStepKeepsTypes DEF CutInv
  <2>2. lost' = 0 => lost = 0
    BY LostStays DEF CutInv
  <2>3. CASE LoopGuard \/ PopByte \/ Receive \/ UNCHANGED lineVars
    BY <2>1, <2>2, <2>3, KeepKeepsCut
  <2>4. CASE PopEnd
    BY <2>1, <2>2, <2>4, PopEndKeepsCut
  <2>5. CASE PeekGuard \/ Peek
    BY <2>1, <2>2, <2>5, PeekKeepsCut
  <2> QED
    BY <2>3, <2>4, <2>5 DEF LineNext, PollStep
<1> QED
  BY <1>1, <1>2, PTL DEF LineSpec

(* The lines returned are exactly the lines of the bytes read, each once   *)
(* and in their order, however the stream is cut into chunks and wherever  *)
(* the interrupts land, as long as no increment of RemainCount was lost.   *)
THEOREM LinesAreFaithful == LineSpec => []LinesFaithful
<1>1. CutInv => LinesFaithful
  <2> SUFFICES ASSUME CutInv, lost = 0, at = "loop", pc = "poll"
               PROVE  Cut(stream, returned, line, popped)
    BY SameReference, Zenon DEF LinesFaithful, Cut, Returned
  <2>1. popped - InFlight = popped
    BY DEF InFlight, CutInv, LineInv, RingInv, RingTypeOK
  <2> QED
    BY <2>1 DEF CutInv, CutSoFar
<1> QED
  BY <1>1, CutAlways, PTL

(* What main has returned when it finds the ring's counter at 0: short of  *)
(* the bytes accepted by those it lost count of, and by no other; if none, *)
(* every line that was accepted whole.                                     *)
WaitingForBytes == at = "loop" /\ pc = "poll" /\ RemainCount = 0
NothingLeftBehind ==
  WaitingForBytes =>
    /\ pushed - popped = lost
    /\ lost = 0 => {returned[i] : i \in DOMAIN returned} = {LineAt(k) : k \in Ends(pushed)}

(* A main that has nothing to do has returned every line, unless an        *)
(* increment was lost: the state LineReturned and Delivered lead to.       *)
THEOREM IdleMeansReturned == LineSpec => []NothingLeftBehind
<1>1. CutInv => NothingLeftBehind
  <2> SUFFICES ASSUME CutInv, WaitingForBytes PROVE NothingLeftBehind
    BY DEF NothingLeftBehind
  <2>1. /\ InFlight = 0 /\ CountAccounted /\ popped \in Nat /\ pushed \in Nat /\ lost \in Nat
        /\ RemainCount = 0
    BY DEF WaitingForBytes, InFlight, CutInv, LineInv, RingInv, RingTypeOK
  <2>2. pushed - popped = lost
    BY <2>1 DEF CountAccounted
  <2>3. ASSUME lost = 0
        PROVE  {returned[i] : i \in DOMAIN returned} = {LineAt(k) : k \in Ends(pushed)}
    <3>1. popped = pushed /\ popped - InFlight = pushed
      BY <2>1, <2>2, <2>3
    <3>2. Cut(stream, returned, line, pushed)
      BY <2>3, <3>1 DEF CutInv, CutSoFar, WaitingForBytes
    <3>3. Ends(pushed) = EndsIn(stream, pushed) /\ \A k : LineAt(k) = LineIn(stream, k)
      BY SameReference
    <3> QED
      BY <3>2, <3>3, Zenon DEF Cut, Returned
  <2> QED
    BY <2>2, <2>3 DEF NothingLeftBehind
<1> QED
  BY <1>1, CutAlways, PTL
=============================================================================
