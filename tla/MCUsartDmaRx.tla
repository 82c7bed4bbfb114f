---------------------------- MODULE MCUsartDmaRx ----------------------------
(* Halves of 3 bytes and 8 bytes on the wire: the channel fills a half, is *)
(* caught in the middle of one, and swaps often enough for stale content   *)
(* of both halves to show.                                                 *)
EXTENDS UsartDmaRx
=============================================================================
