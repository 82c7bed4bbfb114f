---------------------------- MODULE BoundedFifo ----------------------------
(***************************************************************************)
(* What the receive ring promises its two users, with no positions and no  *)
(* counter: a queue of at most Capacity bytes that keeps their order.      *)
(*                                                                         *)
(* Bytes are numbered 1, 2, 3... in the order in which the queue accepts   *)
(* them.  A chunk that does not fit loses its tail.  The promise ends with *)
(* Degrade: from then on the queue guarantees nothing (sound is FALSE).    *)
(***************************************************************************)
EXTENDS Integers, Sequences

CONSTANTS
  Capacity,  (* bytes the queue holds *)
  MaxChunk   (* longest chunk offered at once *)

VARIABLES
  queue,     (* accepted bytes not yet taken, oldest first *)
  last,      (* number of the last byte accepted *)
  sound      (* the promise still holds *)

fifoVars == <<queue, last, sound>>

FifoInit ==
  /\ queue = <<>>
  /\ last = 0
  /\ sound = TRUE

(* A chunk of len bytes arrives; what exceeds the free space is dropped. *)
Offer(len) ==
  LET free == Capacity - Len(queue)
      n    == IF free < len THEN free ELSE len
  IN  /\ sound
      /\ queue' = queue \o [i \in 1..n |-> last + i]
      /\ last' = last + n
      /\ UNCHANGED sound

(* The reader removes the oldest byte. *)
Take ==
  /\ sound
  /\ queue # <<>>
  /\ queue' = Tail(queue)
  /\ UNCHANGED <<last, sound>>

(* The queue forgets what it holds and promises nothing more. *)
Degrade ==
  /\ sound
  /\ queue' = <<>>
  /\ last' = 0
  /\ sound' = FALSE

FifoNext ==
  \/ \E len \in 0..MaxChunk : Offer(len)
  \/ Take
  \/ Degrade

FifoSafety == FifoInit /\ [][FifoNext]_fifoVars

FifoSpec == FifoSafety /\ WF_fifoVars(Take)
=============================================================================
