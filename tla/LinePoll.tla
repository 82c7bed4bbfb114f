------------------------------ MODULE LinePoll ------------------------------
(***************************************************************************)
(* protocol_poll (Drivers/protocol.c): main pops bytes from the receive    *)
(* ring, gathers them in line_buf, swallows the second half of a \r\n or   *)
(* \n\r pair if it is already there, and returns each non-empty line.      *)
(*                                                                         *)
(* The ring, its pops and the pushes of the interrupts are those of        *)
(* RxRing; this module adds what main does with a byte once its pop has    *)
(* stored the counter, and the unguarded look at the next cell.  stream[k] *)
(* is the kind of the k-th byte the ring accepts.  A returned line is the  *)
(* C string the caller sees: it ends before the first NUL.                 *)
(***************************************************************************)
EXTENDS RxRing, FiniteSetsExt

CONSTANT LineMax  (* LINE_BUF_SIZE - 1, 255 *)

ASSUME LineAssumption == LineMax \in Nat \ {0}

VARIABLES
  stream,    (* the kind of every byte *)
  at,        (* main: "loop", "peek" (before the if), "next" (inside), "pair" *)
  line,      (* line_buf[0 .. line_pos - 1], by byte number *)
  returned   (* history: the lines returned to the caller *)

lineVars == <<ringVars, stream, at, line, returned>>

Kinds == {"cr", "lf", "nul", "chr"}
Kind(k) == IF k = 0 THEN "nul" ELSE stream[k]   (* 0: a cell never written *)
Delimiter(k) == Kind(k) \in {"cr", "lf"}
Paired(a, b) == {Kind(a), Kind(b)} = {"cr", "lf"}

LineInit ==
  /\ RingInit
  /\ stream \in [1..MaxBytes -> Kinds]
  /\ at = "loop"
  /\ line = <<>>
  /\ returned = <<>>

(* The bytes of s before its first NUL. *)
CString(s) ==
  LET nul == {i \in 1..Len(s) : stream[s[i]] = "nul"}
  IN  SubSeq(s, 1, Min(nul \union {Len(s) + 1}) - 1)

(* Mutant: line_pos is not reset. *)
FinishKeepsLine ==
  /\ UNCHANGED line
  /\ returned' = IF CString(line) = <<>> THEN returned
                 ELSE Append(returned, CString(line))
  /\ at' = "loop"
  /\ UNCHANGED stream

(* End the string, start the next line, and return unless it is blank. *)
Finish ==
  /\ line' = <<>>
  /\ returned' = IF CString(line) = <<>> THEN returned
                 ELSE Append(returned, CString(line))
  /\ at' = "loop"
  /\ UNCHANGED stream

Keep == UNCHANGED <<stream, at, line, returned>>

(* A byte that does not fit in line_buf is dropped. *)
Gather ==
  /\ ~Delimiter(byte)
  /\ line' = IF Len(line) < LineMax THEN Append(line, byte) ELSE line
  /\ UNCHANGED <<stream, at, returned>>

LoopGuard == at = "loop" /\ PollGuard /\ Keep

PopByte == (PopRead \/ PopLoad) /\ Keep

PopEnd ==
  /\ PopStore
  /\ \/ at = "loop" /\ Gather
     \/ /\ at = "loop" /\ Delimiter(byte)
        /\ at' = "peek"
        /\ UNCHANGED <<stream, line, returned>>
     \/ at = "pair" /\ Finish

(* Mutant: wait for the byte after the delimiter. *)
PeekWaits ==
  /\ at = "peek"
  /\ RemainCount > 0
  /\ at' = "next"
  /\ UNCHANGED <<ringVars, stream, line, returned>>

(* Mutant: look at the next cell whether or not it is filled. *)
PeekUnguarded ==
  /\ at = "peek"
  /\ at' = "next"
  /\ UNCHANGED <<ringVars, stream, line, returned>>

PeekGuard ==
  /\ at = "peek"
  /\ UNCHANGED ringVars
  /\ \/ RemainCount > 0 /\ at' = "next" /\ UNCHANGED <<stream, line, returned>>
     \/ RemainCount = 0 /\ Finish

(* The look at buffer[SendPos], then the unconditional pop of the pair. *)
Peek ==
  /\ at = "next"
  /\ \/ /\ Paired(byte, buffer[SendPos])
        /\ at' = "pair" /\ pc' = "read"
        /\ UNCHANGED <<buffer, RecvPos, SendPos, RemainCount, count, byte,
                       pushed, popped, lost, stream, line, returned>>
     \/ /\ ~Paired(byte, buffer[SendPos])
        /\ Finish
        /\ UNCHANGED ringVars

PollStep == LoopGuard \/ PopByte \/ PopEnd \/ PeekGuard \/ Peek

Receive == (\E len \in 0..ChunkLen : Push(len)) /\ Keep

LineNext == PollStep \/ Receive

(* main polls again and again; the wire owes nothing. *)
LineSpec == LineInit /\ [][LineNext]_lineVars /\ WF_lineVars(PollStep)
-----------------------------------------------------------------------------
(* Types; line_buf has room, and the look behind a delimiter finds a byte. *)
LineTypeOK ==
  /\ at \in {"loop", "peek", "next", "pair"}
  /\ line \in Seq(0..MaxBytes) /\ Len(line) <= LineMax
  /\ at \in {"peek", "next"} => pc = "poll"
  /\ at = "next" => RemainCount > 0

(* The reference: each delimiter ends the piece behind the one before it,  *)
(* the line keeps LineMax bytes of the piece and ends at a NUL, and an     *)
(* empty one is forgotten.                                                 *)
Piece(a, b) == [i \in 1..Min({b - a, LineMax}) |-> a + i]
LastDelimiter(n) == Max({k \in 1..n : Delimiter(k)} \union {0})
LineAt(k) == CString(Piece(LastDelimiter(k - 1), k - 1))
Ends(n) == {k \in 1..n : Delimiter(k) /\ LineAt(k) # <<>>}

(* Whatever the interrupts interleave, and wherever a \r\n is cut between  *)
(* two chunks, the lines returned are exactly the lines of the bytes read, *)
(* each once and in their order, as long as no increment of RemainCount    *)
(* was lost.                                                               *)
LinesFaithful ==
  (lost = 0 /\ at = "loop" /\ pc = "poll") =>
     /\ {returned[i] : i \in DOMAIN returned} = {LineAt(k) : k \in Ends(popped)}
     /\ \A i, j \in DOMAIN returned : i < j => returned[i][1] < returned[j][1]
     /\ line = Piece(LastDelimiter(popped), popped)

(* A line the ring accepted whole is returned, unless an increment is lost. *)
LineReturned ==
  \A k \in 1..MaxBytes :
    (pushed >= k /\ Delimiter(k) /\ lost = 0)
      ~> (lost > 0 \/ (popped >= k /\ at = "loop"))

(* protocol_poll drives the ring as RxRing says main does, so what is      *)
(* proved of the ring holds under it.                                      *)
ImplementsRing == RingSpec

(* protocol.h: "If a full line is available" it is returned.  After a lost *)
(* increment the end of a line stays in the ring until more bytes arrive.  *)
EveryLineReturned ==
  \A k \in 1..MaxBytes :
    (pushed >= k /\ Delimiter(k)) ~> (popped >= k)
=============================================================================
