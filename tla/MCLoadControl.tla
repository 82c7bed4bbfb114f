--------------------------- MODULE MCLoadControl ---------------------------
(* The load with the code's latch at the fifth fault and a cooldown of     *)
(* three cycles: enough for retries, a latch, and alarms and commands      *)
(* inside a cooldown.  The host sends a current and a voltage inside and   *)
(* beyond the range, a negative current, and every kind of mode code.      *)
EXTENDS LoadControl

MCCurrents == {-1, 1, 2}
MCVoltages == {1, 2}
MCCodes == {11, 12, 20, 99}
=============================================================================
