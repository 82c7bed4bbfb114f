----------------------------- MODULE FanControl -----------------------------
(***************************************************************************)
(* Drivers/fan.c beside TIM3_IRQHandler (User/ch32v30x_it.c): the heatsink *)
(* temperature sets the duty of the fan through a PID, the interrupt       *)
(* measures the time between two tachometer edges, and fan_update raises   *)
(* fan_stall when a driven fan does not turn.                              *)
(*                                                                         *)
(* fan_update runs in main; the interrupt may land between any two of its  *)
(* accesses to the tachometer variables, so it is cut there (pc).  The     *)
(* capture is the counter of TIM3, which starts again after Lap ticks.     *)
(* At this commit main calls fan_init only, which leaves the capture       *)
(* interrupt off: fan_update is taken as its header says, once per cycle.  *)
(***************************************************************************)
EXTENDS Pid, TempSensor

CONSTANTS
  AdcValues,     (* readings the sensor may give *)
  Target,        (* FAN_TARGET_TEMP_C in tenths, 500 *)
  PidMax,        (* FAN_PID_MAX: the output that stands for full speed *)
  Arr,           (* the reload value TIM3_ARR of the duty conversion *)
  Lap,           (* ticks after which the counter of TIM3 starts again *)
  Wide,          (* 2^32, the width of a period *)
  RpmScale,      (* RPM_SCALE *)
  RpmWidth,      (* 2^16, the width of fan_rpm *)
  TachoMax,      (* TACHO_TIMEOUT_MAX, 5 *)
  TimeoutWidth,  (* 2^16, the width of tacho_timeout *)
  StallCycles,   (* FAN_STALL_CYCLES, 20 *)
  CounterWidth   (* 2^8, the width of stall_cycle_counter *)

ASSUME FanAssumption ==
  /\ AdcValues \subseteq Nat /\ Target \in Int
  /\ {PidMax, Arr, Lap, RpmScale, TachoMax, StallCycles} \subseteq Nat \ {0}
  /\ Wide \in Nat /\ Wide > Lap /\ Wide - Lap > RpmScale
  /\ RpmWidth \in Nat \ {0}
  /\ \A ticks \in 1..Lap - 1 : (RpmScale \div ticks) % RpmWidth # 0
  /\ TachoMax > 1
  /\ TimeoutWidth \in Nat /\ TimeoutWidth > TachoMax
  /\ CounterWidth \in Nat /\ CounterWidth > StallCycles

VARIABLES
  heatsink_temp_c,
  fan_duty_pct, ccr,   (* ccr is the compare register of the PWM *)
  tacho_last_capture, tacho_period_ticks, tacho_valid, tacho_timeout,
  fan_rpm, stall_cycle_counter, fan_stall,
  fan_stall_flag,      (* bit 14 of the fault register *)
  pc,                  (* where main is in fan_update *)
  period, loaded,      (* what fan_update has read and not yet used *)
  steady,  (* history: the last edge since the last update moved forward *)
  moved,   (* history: an edge came since the last update ended *)
  missed,  (* history: updates in a row that did not start steady *)
  silent,  (* history: updates in a row in which no edge came *)
  hot      (* history: updates in a row at or above the target *)

tacho   == <<tacho_last_capture, tacho_period_ticks, tacho_valid, tacho_timeout>>
stall   == <<stall_cycle_counter, fan_stall, fan_stall_flag>>
duty    == <<heatsink_temp_c, fan_duty_pct, ccr>>
locals  == <<period, loaded>>
history == <<steady, moved, missed, silent, hot>>
fanVars == <<pidVars, duty, tacho, fan_rpm, stall, pc, locals, history>>

FanInit ==
  /\ PidInit
  /\ heatsink_temp_c = 250
  /\ fan_duty_pct = 0 /\ ccr = 0
  /\ tacho_last_capture = 0 /\ tacho_period_ticks = 0
  /\ tacho_valid = FALSE /\ tacho_timeout = 0
  /\ fan_rpm = 0 /\ stall_cycle_counter = 0
  /\ fan_stall = FALSE /\ fan_stall_flag = FALSE
  /\ pc = "idle" /\ period = 0 /\ loaded = 0
  /\ steady = FALSE /\ moved = FALSE
  /\ missed = 0 /\ silent = 0 /\ hot = 0
-----------------------------------------------------------------------------
(* A definition marked "Mutant" is a mistake one could make in the one     *)
(* after it; no specification uses it.                                     *)

DutyMin == 30
DutyMax == 100
StallDuty == 25
Byte == 256

(* Mutant: the duty is not cut to the maximum. *)
DutyUncut(out) ==
  (DutyMin + (((out * (DutyMax - DutyMin)) \div PidMax) % Byte)) % Byte

(* The duty of a hot heatsink.  Both the conversion of the product and the *)
(* sum are kept in a byte, so an output above PidMax wraps before the cut. *)
Duty(out) ==
  LET pct == (DutyMin + (((out * (DutyMax - DutyMin)) \div PidMax) % Byte)) % Byte
  IN  IF pct > DutyMax THEN DutyMax ELSE pct

(* main reads the sensor and calls fan_update: steps A and B, and the read  *)
(* of the period that step C begins with.                                   *)
Regulate(adc) ==
  /\ pc = "idle"
  /\ heatsink_temp_c' = Reading(adc)
  /\ PidCompute(Target, Reading(adc))
  /\ fan_duty_pct' = IF Reading(adc) < Target THEN 0 ELSE Duty(output')
  /\ ccr' = (fan_duty_pct' * Arr) \div 100
  /\ period' = tacho_period_ticks
  /\ pc' = "speed"
  /\ UNCHANGED <<tacho, fan_rpm, stall, loaded, history>>

ReadSpeed ==
  /\ pc = "speed"
  /\ fan_rpm' = IF tacho_valid /\ period > 0 THEN (RpmScale \div period) % RpmWidth
                ELSE 0
  /\ pc' = "load"
  /\ period' = 0
  /\ UNCHANGED <<pidVars, duty, tacho, stall, loaded, history>>

(* tacho_timeout++ is a load and a store. *)
LoadTimeout ==
  /\ pc = "load"
  /\ loaded' = tacho_timeout
  /\ pc' = "store"
  /\ UNCHANGED <<pidVars, duty, tacho, fan_rpm, stall, period, history>>

StoreTimeout ==
  /\ pc = "store"
  /\ tacho_timeout' = (loaded + 1) % TimeoutWidth
  /\ pc' = "test"
  /\ loaded' = 0
  /\ UNCHANGED <<pidVars, duty, tacho_last_capture, tacho_period_ticks,
                 tacho_valid, fan_rpm, stall, period, history>>

(* Mutant: the flag is set where the message is printed, on the rise only. *)
DetectFlagOnce(rpm) ==
  IF fan_duty_pct >= StallDuty /\ rpm = 0
  THEN LET n == (stall_cycle_counter + 1) % CounterWidth
       IN  /\ stall_cycle_counter' = n
           /\ fan_stall' = (fan_stall \/ n >= StallCycles)
           /\ fan_stall_flag' = (fan_stall_flag \/ (n >= StallCycles /\ ~fan_stall))
  ELSE /\ stall_cycle_counter' = 0
       /\ fan_stall' = FALSE /\ fan_stall_flag' = FALSE

(* Mutant: one cycle too many. *)
DetectLate(rpm) ==
  IF fan_duty_pct >= StallDuty /\ rpm = 0
  THEN LET n == (stall_cycle_counter + 1) % CounterWidth
       IN  /\ stall_cycle_counter' = n
           /\ fan_stall' = (fan_stall \/ n > StallCycles)
           /\ fan_stall_flag' = (fan_stall_flag \/ n > StallCycles)
  ELSE /\ stall_cycle_counter' = 0
       /\ fan_stall' = FALSE /\ fan_stall_flag' = FALSE

(* Step D, with the speed the update ends with. *)
Detect(rpm) ==
  IF fan_duty_pct >= StallDuty /\ rpm = 0
  THEN LET n == (stall_cycle_counter + 1) % CounterWidth
       IN  /\ stall_cycle_counter' = n
           /\ fan_stall' = (fan_stall \/ n >= StallCycles)
           /\ fan_stall_flag' = (fan_stall_flag \/ n >= StallCycles)
  ELSE /\ stall_cycle_counter' = 0
       /\ fan_stall' = FALSE /\ fan_stall_flag' = FALSE

(* The history of an update that ends; counts stop at what is asked of them. *)
Counted(n, cap) == IF n < cap THEN n + 1 ELSE cap

Finished ==
  /\ missed' = IF steady THEN 0 ELSE Counted(missed, StallCycles)
  /\ silent' = IF moved THEN 0 ELSE Counted(silent, TachoMax + StallCycles)
  /\ hot' = IF heatsink_temp_c < Target THEN 0 ELSE Counted(hot, StallCycles)
  /\ steady' = FALSE /\ moved' = FALSE

(* The test reads tacho_timeout again; below the limit the update ends.    *)
InTime ==
  /\ pc = "test"
  /\ tacho_timeout < TachoMax
  /\ Detect(fan_rpm)
  /\ pc' = "idle"
  /\ Finished
  /\ UNCHANGED <<pidVars, duty, tacho, fan_rpm, locals>>

TimedOut ==
  /\ pc = "test"
  /\ tacho_timeout >= TachoMax
  /\ pc' = "expire"
  /\ UNCHANGED <<pidVars, duty, tacho, fan_rpm, stall, locals, history>>

(* Mutant: only the speed is cleared; the period stays valid. *)
ExpireSpeedOnly ==
  /\ pc = "expire"
  /\ fan_rpm' = 0
  /\ Detect(0)
  /\ pc' = "idle"
  /\ Finished
  /\ UNCHANGED <<pidVars, duty, tacho, locals>>

(* An edge that landed after the test is thrown away with the old ones.    *)
Expire ==
  /\ pc = "expire"
  /\ tacho_valid' = FALSE
  /\ fan_rpm' = 0
  /\ Detect(0)
  /\ pc' = "idle"
  /\ Finished
  /\ UNCHANGED <<pidVars, duty, tacho_last_capture, tacho_period_ticks,
                 tacho_timeout, locals>>

(* Mutant: the timeout runs on. *)
EdgeKeepsTimeout(capture) ==
  /\ tacho_period_ticks' = (capture - tacho_last_capture) % Wide
  /\ tacho_last_capture' = capture
  /\ tacho_valid' = TRUE
  /\ steady' = IF pc = "idle" THEN capture > tacho_last_capture ELSE steady
  /\ moved' = TRUE
  /\ UNCHANGED <<pidVars, duty, tacho_timeout, fan_rpm, stall, pc, locals,
                 missed, silent, hot>>

(* TIM3_IRQHandler.  The difference is a 32-bit one and the counter is     *)
(* shorter: a capture after a lap leaves a period close to Wide, speed 0.  *)
Edge(capture) ==
  /\ tacho_period_ticks' = (capture - tacho_last_capture) % Wide
  /\ tacho_last_capture' = capture
  /\ tacho_valid' = TRUE
  /\ tacho_timeout' = 0
  /\ steady' = IF pc = "idle" THEN capture > tacho_last_capture ELSE steady
  /\ moved' = TRUE
  /\ UNCHANGED <<pidVars, duty, fan_rpm, stall, pc, locals, missed, silent, hot>>

(* fault_clear zeroes the fault register, and the bit of the fan with it.  *)
FaultClear ==
  /\ pc = "idle"
  /\ fan_stall_flag' = FALSE
  /\ UNCHANGED <<pidVars, duty, tacho, fan_rpm, stall_cycle_counter, fan_stall,
                 pc, locals, history>>

(* fan.h exports fan_pid "for external tuning": a caller between updates   *)
(* resets it, or preloads the integral with the output as pid.h says.      *)
Tune ==
  /\ pc = "idle"
  /\ PidReset \/ PidSetIntegral(output)
  /\ UNCHANGED <<duty, tacho, fan_rpm, stall, pc, locals, history>>

Update ==
  \/ \E adc \in AdcValues : Regulate(adc)
  \/ ReadSpeed \/ LoadTimeout \/ StoreTimeout \/ InTime \/ TimedOut \/ Expire

FanNext ==
  \/ Update
  \/ \E capture \in 0..Lap - 1 : Edge(capture)
  \/ FaultClear
  \/ Tune

(* The loop of main comes round; nobody owes the fan an edge. *)
FanSpec == FanInit /\ [][FanNext]_fanVars /\ WF_fanVars(Update)
-----------------------------------------------------------------------------
(* Types, and the compare value of a duty of at most a hundred percent. *)
FanTypeOK ==
  /\ PidTypeOK
  /\ heatsink_temp_c \in Int
  /\ fan_duty_pct \in 0..DutyMax /\ ccr \in 0..Arr
  /\ tacho_last_capture \in 0..Lap - 1 /\ tacho_period_ticks \in 0..Wide - 1
  /\ tacho_valid \in BOOLEAN /\ tacho_timeout \in 0..TimeoutWidth - 1
  /\ fan_rpm \in 0..RpmWidth - 1
  /\ stall_cycle_counter \in 0..CounterWidth - 1
  /\ fan_stall \in BOOLEAN /\ fan_stall_flag \in BOOLEAN
  /\ pc \in {"idle", "speed", "load", "store", "test", "expire"}
  /\ period \in 0..Wide - 1 /\ loaded \in 0..TimeoutWidth - 1
  /\ steady \in BOOLEAN /\ moved \in BOOLEAN
  /\ missed \in 0..StallCycles /\ silent \in 0..TachoMax + StallCycles
  /\ hot \in 0..StallCycles

(* No false alarm: fan_stall stands only after StallCycles updates in a    *)
(* row, none of which began with a forward capture between it and the      *)
(* update before.  One good edge outside fan_update is enough for a cycle, *)
(* whatever the edges that race with the update itself do to the timeout.  *)
NoFalseStall == fan_stall => missed >= StallCycles

(* No missed alarm: with the gains as built, a heatsink hot for            *)
(* StallCycles and a fan still for TachoMax + StallCycles - 1 updates give *)
(* fan_stall, and keep it when stall_cycle_counter wraps.                  *)
StallSeen ==
  (/\ gain = [kp |-> 0, ki |-> 0, kd |-> 0]
   /\ hot >= StallCycles
   /\ silent >= TachoMax + StallCycles - 1) => fan_stall

(* A fan that has stopped shows speed 0 from the TachoMax-th update on,    *)
(* also after tacho_timeout has wrapped to 0.                              *)
NoStaleSpeed == (pc = "idle" /\ silent >= TachoMax) => fan_rpm = 0

(* The register and fan_stall agree again after fault_clear has zeroed the *)
(* register of a stalled fan, or the stall ends.                           *)
StallFlagReturns == (fan_stall /\ ~fan_stall_flag) ~> (fan_stall_flag \/ ~fan_stall)

(* Anti-windup at the low limit, whatever the gains: the integral goes     *)
(* below 0 by at most one step of an error, beyond what the proportional   *)
(* and the derivative term together can outweigh, however long the         *)
(* heatsink is hot: so the output comes back soon after it cools.          *)
Readings == {Reading(adc) : adc \in AdcValues}
Errors == {0} \union {Target - feedback : feedback \in Readings}
OtherTerms ==
  {0} \union {gain.kp * (Target - feedback) - gain.kd * (feedback - before) :
               feedback \in Readings, before \in {0} \union Readings}

IntegralNotWound ==
  \E last \in Errors, other \in OtherTerms : integral >= gain.ki * last - other
=============================================================================
