---------------------------- MODULE MCFanControl ----------------------------
(* A shorted sensor, 50.6 degrees above the target, and a reading half as  *)
(* far below it; the gains as built, and a set with all three terms, whose *)
(* output reaches past PidMax and keeps off the low limit with a negative  *)
(* integral, down to where IntegralNotWound is tight.  Time-outs, counters *)
(* and widths are in the order of the real ones.                           *)
EXTENDS FanControl

MCGains == {[kp |-> 0, ki |-> 0, kd |-> 0], [kp |-> 1, ki |-> 1, kd |-> 1]}
MCAdc == {AdcMin, 2090}
=============================================================================
