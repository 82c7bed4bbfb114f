--------------------------- MODULE MCFaultHistory ---------------------------
(* One MOS channel, a latch at the second fault, a cooldown of one cycle:  *)
(* the shortest run in which the comment fails.                            *)
EXTENDS FaultHistory
=============================================================================
