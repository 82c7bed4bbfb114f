---------------------------- MODULE MCI2cDrivers ----------------------------
(* The registers of one INA226 and the DAC.  A lap of 7 units and a         *)
(* time-out of 5 are in the proportion of 1398 ms to 1000 ms; the delay is  *)
(* one unit.  A wait of a read gives up at its second look; two call        *)
(* numbers in turn tell a call from the one before it.                      *)
EXTENDS I2cDrivers

MCRegs == {"cal", "cfg", "dac"}
=============================================================================
