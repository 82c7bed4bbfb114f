------------------------------ MODULE MCRxRing ------------------------------
(* A ring of 4 cells fed by chunks of up to 3 bytes, over 10 bytes: two     *)
(* and a half laps, so every wrap, the position RecvPos = RingLen and every *)
(* landing of a push inside a pop occur, with the ring empty, full and in   *)
(* between.                                                                 *)
EXTENDS RxRing
=============================================================================
