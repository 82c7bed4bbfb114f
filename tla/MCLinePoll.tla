----------------------------- MODULE MCLinePoll -----------------------------
(* A ring of 3 cells and 5 bytes: lines wrap around the ring, fill it, are *)
(* cut in any place by chunks of up to 2 bytes, and outgrow a line of 2.   *)
EXTENDS LinePoll
=============================================================================
