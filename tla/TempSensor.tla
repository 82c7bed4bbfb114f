------------------------------ MODULE TempSensor ------------------------------
(***************************************************************************)
(* Drivers/temp_sensor.c: the temperature, in tenths of a degree, that     *)
(* temp_sensor_read makes of a 12-bit ADC reading.                         *)
(***************************************************************************)
EXTENDS Integers, Sequences

(* ntc_temp_table, in tenths above -40 degrees. *)
NtcTable == <<
  2129, 1847, 1687, 1576, 1492, 1425, 1369, 1321, 1279, 1242,
  1209, 1179, 1151, 1125, 1102, 1079, 1058, 1039, 1020, 1002,
   985,  969,  954,  939,  924,  911,  897,  884,  872,  859,
   847,  836,  824,  813,  802,  792,  781,  771,  761,  751,
   741,  732,  722,  713,  703,  694,  685,  676,  667,  658,
   649,  641,  632,  623,  615,  606,  597,  589,  580,  572,
   563,  554,  546,  537,  528,  519,  511,  502,  493,  484,
   475,  465,  456,  446,  437,  427,  417,  407,  396,  386,
   375,  364,  352,  340,  328,  315,  302,  288,  273,  258,
   241,  224,  205,  185,  162,  137,  108,   74,   33,  -22 >>

AdcMin == 50
AdcMax == 4000
AdcStep == 40
Shorted == 1000   (* 100.0 degrees *)
Open == -400      (* -40.0 degrees *)

(* The clamp of the index to the table, like the byte it is stored in,      *)
(* never acts: a reading below AdcMax gives at most 98.                     *)
Reading(adc) ==
  IF adc <= AdcMin THEN Shorted
  ELSE IF adc >= AdcMax THEN Open
  ELSE NtcTable[(adc - AdcMin) \div AdcStep + 1] - 400
=============================================================================
