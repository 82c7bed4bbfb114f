------------------------------- MODULE RxRing -------------------------------
(***************************************************************************)
(* The USART1 receive ring of Drivers/protocol.c (ring_buffer_push_huge,   *)
(* ring_buffer_pop), shared without any lock by two actors:                *)
(*                                                                         *)
(*   - the receive interrupts (USART1 IDLE, DMA1 channel 5 full), which    *)
(*     push a whole chunk.  Both run at preemption priority 1 and main     *)
(*     never preempts them, so a push is one step;                         *)
(*   - main, in protocol_poll(), which pops byte after byte.  A pop is a   *)
(*     handful of instructions and a push may land between any two of      *)
(*     them.  Each volatile access that the interrupt shares is a step.    *)
(*                                                                         *)
(* Bytes carry their number in the stream the ring accepted (1, 2, ...);   *)
(* 0 is the initial content of a cell.  pushed, popped and lost are        *)
(* history variables: the code has no such counters.                       *)
(***************************************************************************)
EXTENDS Integers, Sequences

CONSTANTS
  RingLen,   (* RING_BUFFER_LEN, 1024 in protocol.h *)
  ChunkLen,  (* RX_BUFFER_LEN, the longest chunk one interrupt pushes *)
  MaxBytes   (* bound of the model: bytes accepted over a behaviour *)

ASSUME RingAssumption ==
  /\ RingLen \in Nat \ {0}
  /\ ChunkLen \in 1..RingLen
  /\ MaxBytes \in Nat

VARIABLES
  buffer,       (* ring_buffer.buffer *)
  RecvPos,      (* ring_buffer.RecvPos, RingLen itself is a legal value *)
  SendPos,      (* ring_buffer.SendPos *)
  RemainCount,  (* ring_buffer.RemainCount *)
  pc,           (* where main is in "while (RemainCount > 0) pop()" *)
  count,        (* the register that holds RemainCount inside RemainCount-- *)
  byte,         (* the byte the last pop read *)
  pushed,       (* history: bytes accepted so far *)
  popped,       (* history: bytes read so far *)
  lost          (* history: bytes whose increment of RemainCount was lost *)

ringVars == <<buffer, RecvPos, SendPos, RemainCount, pc, count, byte,
              pushed, popped, lost>>

Cells == 0..RingLen - 1

RingInit ==
  /\ buffer = [i \in Cells |-> 0]
  /\ RecvPos = 0
  /\ SendPos = 0
  /\ RemainCount = 0
  /\ pc = "poll"
  /\ count = 0
  /\ byte = 0
  /\ pushed = 0
  /\ popped = 0
  /\ lost = 0
-----------------------------------------------------------------------------
(* ring_buffer_push_huge, called by the two receive interrupts.  A         *)
(* definition marked "Mutant" is a mistake one could make in the one after *)
(* it; no specification uses it, runs substitute it to see a property fail. *)

(* Mutant: the clamp is forgotten. *)
AcceptedUnclamped(len) == len

(* The length after the clamp to the free space the counter shows. *)
Accepted(len) ==
  IF RingLen - RemainCount < len THEN RingLen - RemainCount ELSE len

(* The chunk fits between RecvPos and the end.  RecvPos may become RingLen. *)
CopyStraight(n) ==
  /\ RingLen - RecvPos >= n
  /\ buffer' = [i \in Cells |-> IF i >= RecvPos /\ i < RecvPos + n
                                THEN pushed + 1 + (i - RecvPos)
                                ELSE buffer[i]]
  /\ RecvPos' = RecvPos + n

(* The chunk is cut at the end of the ring and continues at cell 0. *)
CopyWrapped(n) ==
  LET size == RingLen - RecvPos
  IN  /\ size < n
      /\ buffer' = [i \in Cells |->
                      IF i >= RecvPos THEN pushed + 1 + (i - RecvPos)
                      ELSE IF i < n - size THEN pushed + 1 + size + i
                      ELSE buffer[i]]
      /\ RecvPos' = n - size

(* Mutant: the counter grows by the length before the clamp. *)
PushCountsAll(len) ==
  LET n == Accepted(len)
  IN  /\ pushed + n <= MaxBytes
      /\ CopyStraight(n) \/ CopyWrapped(n)
      /\ RemainCount' = RemainCount + len
      /\ pushed' = pushed + n
      /\ UNCHANGED <<SendPos, pc, count, byte, popped, lost>>

(* Mutant: only the first branch counts what it copied. *)
PushCountsStraight(len) ==
  LET n == Accepted(len)
  IN  /\ pushed + n <= MaxBytes
      /\ \/ CopyStraight(n) /\ RemainCount' = RemainCount + n
         \/ CopyWrapped(n) /\ UNCHANGED RemainCount
      /\ pushed' = pushed + n
      /\ UNCHANGED <<SendPos, pc, count, byte, popped, lost>>

Push(len) ==
  LET n == Accepted(len)
  IN  /\ pushed + n <= MaxBytes
      /\ CopyStraight(n) \/ CopyWrapped(n)
      /\ RemainCount' = RemainCount + n
      /\ pushed' = pushed + n
      /\ UNCHANGED <<SendPos, pc, count, byte, popped, lost>>
-----------------------------------------------------------------------------
(* protocol_poll's guard and the instructions of ring_buffer_pop.          *)

(* Mutant: pop without looking at the counter. *)
PollUnguarded ==
  /\ pc = "poll"
  /\ popped < MaxBytes
  /\ pc' = "read"
  /\ UNCHANGED <<buffer, RecvPos, SendPos, RemainCount, count, byte,
                 pushed, popped, lost>>

PollGuard ==
  /\ pc = "poll"
  /\ RemainCount > 0
  /\ pc' = "read"
  /\ UNCHANGED <<buffer, RecvPos, SendPos, RemainCount, count, byte,
                 pushed, popped, lost>>

(* Only main touches SendPos, so reading the cell and moving on is a step. *)
PopRead ==
  /\ pc = "read"
  /\ byte' = buffer[SendPos]
  /\ SendPos' = IF SendPos + 1 >= RingLen THEN 0 ELSE SendPos + 1
  /\ popped' = popped + 1
  /\ pc' = "load"
  /\ UNCHANGED <<buffer, RecvPos, RemainCount, count, pushed, lost>>

(* RemainCount-- is a load, a decrement and a store. *)
PopLoad ==
  /\ pc = "load"
  /\ count' = RemainCount
  /\ pc' = "store"
  /\ UNCHANGED <<buffer, RecvPos, SendPos, RemainCount, byte,
                 pushed, popped, lost>>

PopStore ==
  /\ pc = "store"
  /\ RemainCount' = count - 1
  /\ lost' = lost + (RemainCount - count)
  /\ pc' = "poll"
  /\ UNCHANGED <<buffer, RecvPos, SendPos, count, byte, pushed, popped>>

MainStep == PollGuard \/ PopRead \/ PopLoad \/ PopStore

RingNext == MainStep \/ \E len \in 0..ChunkLen : Push(len)

(* main keeps polling (it never blocks inside a pop); the wire owes nothing. *)
RingSafety == RingInit /\ [][RingNext]_ringVars

RingSpec == RingSafety /\ WF_ringVars(MainStep)
-----------------------------------------------------------------------------
(* Properties.                                                             *)

(* Every index stays inside the array and every counter inside its range;  *)
(* in particular RemainCount never goes below 0 nor beyond the capacity,   *)
(* wherever the interrupts land.                                           *)
RingTypeOK ==
  /\ buffer \in [Cells -> 0..MaxBytes]
  /\ RecvPos \in 0..RingLen
  /\ SendPos \in Cells
  /\ RemainCount \in 0..RingLen
  /\ pc \in {"poll", "read", "load", "store"}
  /\ count \in 0..RingLen
  /\ byte \in 0..MaxBytes
  /\ pushed \in 0..MaxBytes
  /\ popped \in Nat
  /\ lost \in Nat

(* A byte main has read but whose decrement is not stored yet. *)
InFlight == IF pc \in {"load", "store"} THEN 1 ELSE 0

(* The counter is the real occupancy minus exactly the increments that a   *)
(* push lost by landing inside RemainCount--: a push anywhere else is      *)
(* counted, and nothing ever repairs a lost one.                           *)
CountAccounted == RemainCount + lost = pushed - popped + InFlight

(* main never reads a cell that holds no byte: the guard it evaluated      *)
(* before the pop cannot be undone by the interrupt.                       *)
NoPhantom == popped <= pushed

(* As long as no increment was lost, the k-th byte read is the k-th byte   *)
(* accepted, across wraps, full rings and clamped chunks.                  *)
InOrder == lost = 0 => byte = popped

(* Every accepted byte is eventually read, unless an increment is lost.    *)
Delivered ==
  \A k \in 1..MaxBytes :
    (pushed >= k /\ lost = 0) ~> (popped >= k \/ lost > 0)

(* Until an increment is lost the ring is a bounded FIFO: the queue is     *)
(* what the cells from SendPos on hold, preceded by the byte in flight.    *)
CellAt(i) ==
  IF SendPos + i < RingLen THEN SendPos + i ELSE SendPos + i - RingLen

Unread == [i \in 1..pushed - popped |-> buffer[CellAt(i - 1)]]

Held == IF lost > 0 THEN <<>>
        ELSE (IF InFlight = 1 THEN <<byte>> ELSE <<>>) \o Unread

Fifo == INSTANCE BoundedFifo WITH
  Capacity <- RingLen,
  MaxChunk <- ChunkLen,
  queue    <- Held,
  last     <- IF lost > 0 THEN 0 ELSE pushed,
  sound    <- lost = 0

ImplementsFifo == Fifo!FifoSpec
=============================================================================
