-------------------------- MODULE FanControlProofs --------------------------
(***************************************************************************)
(* The fan for every width, table of gains and time-out that FanControl    *)
(* admits: its types, the false alarm, the stale speed, and the integral.  *)
(***************************************************************************)
EXTENDS FanControl, TLAPS

LEMMA Remainder ==
  ASSUME NEW n \in Nat \ {0}, NEW x \in Int
  PROVE  /\ x % n \in 0..n - 1
         /\ x \in 0..n - 1 => x % n = x
OBVIOUS

LEMMA ClampRange ==
  ASSUME NEW x \in Int, NEW lo \in Int, NEW hi \in Int, lo <= hi
  PROVE  Clamp(x, lo, hi) \in lo..hi
BY DEF Clamp

LEMMA ReadingInt ==
  ASSUME NEW adc \in Nat
  PROVE  Reading(adc) \in Int
<1>1. NtcTable \in [1..100 -> Int]
  BY DEF NtcTable
<1>2. CASE adc <= AdcMin \/ adc >= AdcMax
  BY <1>2 DEF Reading, Shorted, Open
<1>3. CASE ~(adc <= AdcMin) /\ ~(adc >= AdcMax)
  <2>1. (adc - AdcMin) \div AdcStep + 1 \in 1..100
    BY <1>3 DEF AdcMin, AdcMax, AdcStep
  <2> QED
    BY <1>1, <1>3, <2>1 DEF Reading
<1> QED
  BY <1>2, <1>3

LEMMA Parameters ==
  /\ Target \in Int /\ AdcValues \subseteq Nat
  /\ PidMax \in Nat \ {0} /\ Arr \in Nat \ {0} /\ Lap \in Nat \ {0}
  /\ RpmScale \in Nat \ {0} /\ TachoMax \in Nat /\ StallCycles \in Nat \ {0}
  /\ Wide \in Nat /\ Wide > Lap /\ RpmWidth \in Nat \ {0}
  /\ TachoMax > 1 /\ TimeoutWidth \in Nat /\ TimeoutWidth > TachoMax
  /\ CounterWidth \in Nat /\ CounterWidth > StallCycles
  /\ OutMax \in Nat /\ IntMax \in Nat /\ Gains \subseteq [kp : Nat, ki : Nat, kd : Nat]
<1>0. {PidMax, Arr, Lap, RpmScale, TachoMax, StallCycles} \subseteq Nat \ {0}
  BY FanAssumption
<1>1. /\ PidMax \in Nat \ {0} /\ Arr \in Nat \ {0} /\ Lap \in Nat \ {0}
      /\ RpmScale \in Nat \ {0} /\ TachoMax \in Nat \ {0} /\ StallCycles \in Nat \ {0}
  BY <1>0
<1>2. /\ Target \in Int /\ AdcValues \subseteq Nat
      /\ Wide \in Nat /\ Wide > Lap /\ RpmWidth \in Nat \ {0}
      /\ TachoMax > 1 /\ TimeoutWidth \in Nat /\ TimeoutWidth > TachoMax
      /\ CounterWidth \in Nat /\ CounterWidth > StallCycles
  BY FanAssumption
<1>3. /\ OutMax \in Nat /\ IntMax \in Nat
      /\ Gains \subseteq [kp : Nat, ki : Nat, kd : Nat]
  BY PidAssumption
<1> QED
  BY <1>1, <1>2, <1>3

LEMMA DutyRange ==
  ASSUME NEW out \in Int
  PROVE  Duty(out) \in 0..DutyMax
<1> DEFINE share == (out * (DutyMax - DutyMin)) \div PidMax
           part == share % 256
           pct == (30 + part) % 256
<1>1. share \in Int
  <2>1. PidMax \in Nat \ {0}
    BY Parameters
  <2> QED
    BY <2>1 DEF DutyMax, DutyMin
<1>2. Duty(out) = IF pct > 100 THEN 100 ELSE pct
  BY DEF Duty, DutyMin, DutyMax, Byte
<1> HIDE DEF share
<1>3. part \in 0..255
  BY <1>1
<1> HIDE DEF part
<1>4. pct \in 0..255
  BY <1>3
<1> HIDE DEF pct
<1> QED
  BY <1>2, <1>4 DEF DutyMax

LEMMA PwmRange ==
  ASSUME NEW d \in 0..DutyMax
  PROVE  (d * Arr) \div 100 \in 0..Arr
<1>1. Arr \in Nat
  BY Parameters
<1> HIDE DEF DutyMax
<1>2. d \in 0..100
  BY DEF DutyMax
<1> QED
  BY <1>1, <1>2
-----------------------------------------------------------------------------
LEMMA InitTypes == FanInit => FanTypeOK
<1> SUFFICES ASSUME FanInit PROVE FanTypeOK
  OBVIOUS
<1>1. PidTypeOK
  <2>1. 0 \in -IntMax..IntMax /\ 0 \in 0..OutMax
    BY Parameters
  <2> QED
    BY <2>1 DEF FanInit, PidInit, PidTypeOK
<1>2. /\ fan_duty_pct \in 0..DutyMax /\ ccr \in 0..Arr
      /\ tacho_last_capture \in 0..Lap - 1 /\ tacho_period_ticks \in 0..Wide - 1
      /\ tacho_timeout \in 0..TimeoutWidth - 1 /\ fan_rpm \in 0..RpmWidth - 1
      /\ stall_cycle_counter \in 0..CounterWidth - 1
      /\ period \in 0..Wide - 1 /\ loaded \in 0..TimeoutWidth - 1
      /\ missed \in 0..StallCycles /\ silent \in 0..TachoMax + StallCycles
      /\ hot \in 0..StallCycles
  BY Parameters DEF FanInit, DutyMax
<1>3. /\ heatsink_temp_c \in Int /\ pc = "idle"
      /\ tacho_valid = FALSE /\ fan_stall = FALSE /\ fan_stall_flag = FALSE
      /\ steady = FALSE /\ moved = FALSE
  BY DEF FanInit
<1> QED
  BY <1>1, <1>2, <1>3 DEF FanTypeOK

LEMMA PidComputeTypes ==
  ASSUME PidTypeOK, NEW setpoint \in Int, NEW feedback \in Int,
         PidCompute(setpoint, feedback)
  PROVE  PidTypeOK'
<1> DEFINE error == setpoint - feedback
           sum == IF Frozen(error) THEN integral
                  ELSE Clamp(integral + gain.ki * error, -IntMax, IntMax)
           raw == gain.kp * error + sum - gain.kd * (feedback - last_feedback)
<1>0. gain \in [kp : Nat, ki : Nat, kd : Nat]
  BY Parameters DEF PidTypeOK
<1>1. /\ gain.kp \in Nat /\ gain.ki \in Nat /\ gain.kd \in Nat
      /\ integral \in -IntMax..IntMax /\ last_feedback \in Int
      /\ OutMax \in Nat /\ IntMax \in Nat
  BY <1>0, Parameters DEF PidTypeOK
<1>2. integral \in Int /\ integral + gain.ki * error \in Int
  BY <1>1
<1>3. sum \in -IntMax..IntMax
  <2>1. -IntMax \in Int /\ IntMax \in Int /\ -IntMax <= IntMax
    BY <1>1
  <2>2. Clamp(integral + gain.ki * error, -IntMax, IntMax) \in -IntMax..IntMax
    BY <1>2, <2>1, ClampRange
  <2> QED
    BY <1>1, <2>2
<1> HIDE DEF sum
<1>4. raw \in Int
  BY <1>1, <1>3
<1> HIDE DEF raw
<1>5. Clamp(raw, 0, OutMax) \in 0..OutMax
  <2>1. 0 \in Int /\ OutMax \in Int /\ 0 <= OutMax
    BY <1>1
  <2> QED
    BY <1>4, <2>1, ClampRange
<1>6. /\ integral' = sum /\ output' = Clamp(raw, 0, OutMax)
      /\ saturated' \in {"no", "low", "high"}
      /\ last_feedback' = feedback /\ UNCHANGED gain
  BY DEF PidCompute, sum, raw
<1> QED
  BY <1>3, <1>5, <1>6 DEF PidTypeOK

LEMMA TuneTypes ==
  ASSUME PidTypeOK, PidReset \/ PidSetIntegral(output)
  PROVE  PidTypeOK'
<1>1. OutMax \in Nat /\ IntMax \in Nat
  BY Parameters
<1>2. CASE PidReset
  BY <1>1, <1>2 DEF PidReset, PidTypeOK
<1>3. CASE PidSetIntegral(output)
  <2>1. Clamp(output, -IntMax, IntMax) \in -IntMax..IntMax
    BY <1>1, ClampRange DEF PidTypeOK
  <2> QED
    BY <1>3, <2>1 DEF PidSetIntegral, PidTypeOK
<1> QED
  BY <1>2, <1>3

(* Step D stays in its byte, whatever the speed. *)
LEMMA DetectTypes ==
  ASSUME FanTypeOK, NEW rpm, Detect(rpm)
  PROVE  /\ stall_cycle_counter' \in 0..CounterWidth - 1
         /\ fan_stall' \in BOOLEAN /\ fan_stall_flag' \in BOOLEAN
<1>1. CounterWidth \in Nat \ {0} /\ StallCycles \in Nat
  BY Parameters
<1>2. (stall_cycle_counter + 1) % CounterWidth \in 0..CounterWidth - 1
  BY <1>1 DEF FanTypeOK
<1>3. CASE fan_duty_pct >= StallDuty /\ rpm = 0
  <2> DEFINE n == (stall_cycle_counter + 1) % CounterWidth
  <2>1. /\ stall_cycle_counter' = n
        /\ fan_stall' = (fan_stall \/ n >= StallCycles)
        /\ fan_stall_flag' = (fan_stall_flag \/ n >= StallCycles)
    BY <1>3 DEF Detect
  <2> HIDE DEF n
  <2> QED
    BY <1>2, <2>1 DEF n
<1>4. CASE ~(fan_duty_pct >= StallDuty /\ rpm = 0)
  <2>1. stall_cycle_counter' = 0 /\ fan_stall' = FALSE /\ fan_stall_flag' = FALSE
    BY <1>4 DEF Detect
  <2>2. 0 \in 0..CounterWidth - 1 /\ FALSE \in BOOLEAN
    BY <1>1
  <2> QED
    BY <2>1, <2>2, Zenon
<1> QED
  BY <1>3, <1>4

LEMMA FinishedTypes ==
  ASSUME FanTypeOK, Finished
  PROVE  /\ missed' \in 0..StallCycles /\ silent' \in 0..TachoMax + StallCycles
         /\ hot' \in 0..StallCycles /\ steady' = FALSE /\ moved' = FALSE
BY Parameters DEF FanTypeOK, Finished, Counted

LEMMA TypesKept ==
  ASSUME FanTypeOK, [FanNext]_fanVars
  PROVE  FanTypeOK'
<1>1. CASE \E adc \in AdcValues : Regulate(adc)
  <2>1. PICK adc \in AdcValues : Regulate(adc)
    BY <1>1
  <2>2. Reading(adc) \in Int /\ Target \in Int
    <3>1. AdcValues \subseteq Nat /\ Target \in Int
      BY Parameters
    <3>2. adc \in Nat
      BY <2>1, <3>1
    <3>3. Reading(adc) \in Int
      BY <3>2, ReadingInt
    <3> QED
      BY <3>1, <3>3
  <2>3. PidTypeOK'
    BY <2>1, <2>2, PidComputeTypes DEF Regulate, FanTypeOK
  <2>4. fan_duty_pct' \in 0..DutyMax
    <3>1. output' \in Int
      BY <2>3, Parameters DEF PidTypeOK
    <3>2. Duty(output') \in 0..DutyMax /\ 0 \in 0..DutyMax
      BY <3>1, DutyRange DEF DutyMax
    <3> QED
      BY <2>1, <3>2 DEF Regulate
  <2>5. ccr' \in 0..Arr
    BY <2>1, <2>4, PwmRange DEF Regulate
  <2>6. heatsink_temp_c' \in Int /\ period' \in 0..Wide - 1 /\ pc' = "speed"
    BY <2>1, <2>2 DEF Regulate, FanTypeOK
  <2>7. UNCHANGED <<tacho, fan_rpm, stall, loaded, history>>
    BY <2>1 DEF Regulate
  <2> QED
    BY <2>3, <2>4, <2>5, <2>6, <2>7 DEF FanTypeOK, tacho, stall, history
<1>2. CASE ReadSpeed
  <2>1. (RpmScale \div period) % RpmWidth \in 0..RpmWidth - 1 \/ period = 0
    <3>1. /\ RpmScale \in Nat /\ RpmWidth \in Nat \ {0} /\ period \in Nat
      BY Parameters DEF FanTypeOK
    <3>2. CASE period # 0
      <4>1. RpmScale \div period \in Int
        BY <3>1, <3>2
      <4> QED
        BY <3>1, <4>1, Remainder
    <3> QED
      BY <3>2
  <2>2. fan_rpm' \in 0..RpmWidth - 1 /\ period' \in 0..Wide - 1
    BY <1>2, <2>1, Parameters DEF ReadSpeed
  <2>3. pc' = "load" /\ UNCHANGED <<pidVars, duty, tacho, stall, loaded, history>>
    BY <1>2 DEF ReadSpeed
  <2> QED
    BY <2>2, <2>3
    DEF FanTypeOK, PidTypeOK, pidVars, pidState, duty, tacho, stall, history
<1>3. CASE LoadTimeout
  BY <1>3
  DEF LoadTimeout, FanTypeOK, PidTypeOK, pidVars, pidState, duty, tacho, stall, history
<1>4. CASE StoreTimeout
  <2>1. tacho_timeout' \in 0..TimeoutWidth - 1 /\ loaded' \in 0..TimeoutWidth - 1
    <3>1. TimeoutWidth \in Nat \ {0} /\ loaded + 1 \in Int
      BY Parameters DEF FanTypeOK
    <3>2. (loaded + 1) % TimeoutWidth \in 0..TimeoutWidth - 1
      BY <3>1, Remainder
    <3> QED
      BY <1>4, <3>1, <3>2 DEF StoreTimeout
  <2>2. /\ pc' = "test"
        /\ UNCHANGED <<pidVars, duty, tacho_last_capture, tacho_period_ticks,
                       tacho_valid, fan_rpm, stall, period, history>>
    BY <1>4 DEF StoreTimeout
  <2> QED
    BY <2>1, <2>2 DEF FanTypeOK, PidTypeOK, pidVars, pidState, duty, stall, history
<1>5. CASE InTime
  <2>1. /\ stall_cycle_counter' \in 0..CounterWidth - 1
        /\ fan_stall' \in BOOLEAN /\ fan_stall_flag' \in BOOLEAN
    BY <1>5, DetectTypes DEF InTime
  <2>2. /\ missed' \in 0..StallCycles /\ silent' \in 0..TachoMax + StallCycles
        /\ hot' \in 0..StallCycles /\ steady' = FALSE /\ moved' = FALSE
    BY <1>5, FinishedTypes DEF InTime
  <2>3. pc' = "idle" /\ UNCHANGED <<pidVars, duty, tacho, fan_rpm, locals>>
    BY <1>5 DEF InTime
  <2> QED
    BY <2>1, <2>2, <2>3 DEF FanTypeOK, PidTypeOK, pidVars, pidState, duty, tacho, locals
<1>6. CASE TimedOut
  BY <1>6
  DEF TimedOut, FanTypeOK, PidTypeOK, pidVars, pidState, duty, tacho, stall, locals, history
<1>7. CASE Expire
  <2>1. /\ stall_cycle_counter' \in 0..CounterWidth - 1
        /\ fan_stall' \in BOOLEAN /\ fan_stall_flag' \in BOOLEAN
    BY <1>7, DetectTypes DEF Expire
  <2>2. /\ missed' \in 0..StallCycles /\ silent' \in 0..TachoMax + StallCycles
        /\ hot' \in 0..StallCycles /\ steady' = FALSE /\ moved' = FALSE
    BY <1>7, FinishedTypes DEF Expire
  <2>3. /\ pc' = "idle" /\ tacho_valid' = FALSE /\ fan_rpm' \in 0..RpmWidth - 1
        /\ UNCHANGED <<pidVars, duty, tacho_last_capture, tacho_period_ticks,
                       tacho_timeout, locals>>
    BY <1>7, Parameters DEF Expire
  <2> QED
    BY <2>1, <2>2, <2>3 DEF FanTypeOK, PidTypeOK, pidVars, pidState, duty, locals
<1>8. CASE \E capture \in 0..Lap - 1 : Edge(capture)
  <2>1. PICK capture \in 0..Lap - 1 : Edge(capture)
    BY <1>8
  <2>2. tacho_period_ticks' \in 0..Wide - 1
    <3>1. Wide \in Nat \ {0} /\ capture - tacho_last_capture \in Int
      BY Parameters DEF FanTypeOK
    <3>2. (capture - tacho_last_capture) % Wide \in 0..Wide - 1
      BY <3>1, Remainder
    <3> QED
      BY <2>1, <3>2 DEF Edge
  <2>3. /\ tacho_last_capture' \in 0..Lap - 1 /\ tacho_valid' = TRUE
        /\ tacho_timeout' \in 0..TimeoutWidth - 1 /\ moved' = TRUE
    BY <2>1, Parameters DEF Edge
  <2>4. steady' \in BOOLEAN
    <3>1. CASE pc = "idle"
      <4>1. steady' = (capture > tacho_last_capture)
        BY <2>1, <3>1 DEF Edge
      <4> QED
        BY <4>1
    <3>2. CASE pc # "idle"
      BY <2>1, <3>2 DEF Edge, FanTypeOK
    <3> QED
      BY <3>1, <3>2
  <2>5. UNCHANGED <<pidVars, duty, fan_rpm, stall, pc, locals, missed, silent, hot>>
    BY <2>1 DEF Edge
  <2> QED
    BY <2>2, <2>3, <2>4, <2>5 DEF FanTypeOK, PidTypeOK, pidVars, pidState, duty, stall, locals
<1>9. CASE FaultClear
  BY <1>9
  DEF FaultClear, FanTypeOK, PidTypeOK, pidVars, pidState, duty, tacho, locals, history
<1>10. CASE Tune
  <2>1. PidTypeOK'
    BY <1>10, TuneTypes DEF Tune, FanTypeOK
  <2> QED
    BY <1>10, <2>1 DEF Tune, FanTypeOK, duty, tacho, stall, locals, history
<1>11. CASE UNCHANGED fanVars
  BY <1>11
  DEF fanVars, FanTypeOK, PidTypeOK, pidVars, pidState, duty, tacho, stall, locals, history
<1> QED
  BY <1>1, <1>2, <1>3, <1>4, <1>5, <1>6, <1>7, <1>8, <1>9, <1>10, <1>11
  DEF FanNext, Update

THEOREM FanTypesHold == FanSpec => []FanTypeOK
BY InitTypes, TypesKept, PTL DEF FanSpec
-----------------------------------------------------------------------------
(* What a forward capture before the update makes of it: a speed, and a    *)
(* time-out that does not expire.                                          *)
Turning ==
  steady =>
    /\ pc \in {"idle", "speed"} => tacho_valid
    /\ pc = "idle" => tacho_period_ticks \in 1..Lap - 1
    /\ pc = "speed" => period \in 1..Lap - 1
    /\ pc \in {"load", "store", "test"} => fan_rpm # 0
    /\ pc \in {"idle", "speed", "load"} => tacho_timeout = 0
    /\ pc = "store" => loaded = 0
    /\ pc = "test" => tacho_timeout <= 1
    /\ pc # "expire"

(* The counter counts updates that did not begin steady. *)
StallCounted ==
  /\ ~fan_stall => stall_cycle_counter <= missed /\ stall_cycle_counter < StallCycles
  /\ fan_stall => missed >= StallCycles

LEMMA TurningKept ==
  ASSUME FanTypeOK, Turning, [FanNext]_fanVars
  PROVE  Turning'
<1>1. CASE \E adc \in AdcValues : Regulate(adc)
  BY <1>1 DEF Regulate, Turning, tacho, history
<1>2. CASE ReadSpeed
  <2>1. steady => fan_rpm' # 0
    <3>1. ASSUME steady PROVE fan_rpm' # 0
      <4>1. tacho_valid /\ period \in 1..Lap - 1
        BY <1>2, <3>1 DEF ReadSpeed, Turning
      <4>2. (RpmScale \div period) % RpmWidth # 0
        BY <4>1, FanAssumption
      <4>3. period > 0
        BY <4>1, Parameters
      <4> QED
        BY <1>2, <4>1, <4>2, <4>3 DEF ReadSpeed
    <3> QED
      BY <3>1
  <2>2. pc = "speed" /\ pc' = "load" /\ UNCHANGED <<tacho_timeout, steady>>
    BY <1>2 DEF ReadSpeed, tacho, history
  <2> QED
    BY <2>1, <2>2 DEF Turning
<1>3. CASE LoadTimeout
  BY <1>3 DEF LoadTimeout, Turning, tacho, history
<1>4. CASE StoreTimeout
  <2>1. pc = "store" /\ pc' = "test" /\ UNCHANGED <<fan_rpm, steady>>
    BY <1>4 DEF StoreTimeout, history
  <2>2. steady => tacho_timeout' <= 1
    <3>1. ASSUME steady PROVE tacho_timeout' <= 1
      <4>1. tacho_timeout' = 1 % TimeoutWidth
        BY <2>1, <1>4, <3>1 DEF StoreTimeout, Turning
      <4>2. 1 \in 0..TimeoutWidth - 1 /\ TimeoutWidth \in Nat \ {0}
        BY Parameters
      <4> QED
        BY <4>1, <4>2, Remainder
    <3> QED
      BY <3>1
  <2> QED
    BY <2>1, <2>2 DEF Turning
<1>5. CASE InTime \/ Expire
  BY <1>5 DEF InTime, Expire, Finished, Turning
<1>6. CASE TimedOut
  <2>1. ~steady
    <3>1. tacho_timeout \in Int /\ TachoMax \in Int /\ TachoMax > 1
      BY Parameters DEF FanTypeOK
    <3> QED
      BY <1>6, <3>1 DEF TimedOut, Turning
  <2> QED
    BY <1>6, <2>1 DEF TimedOut, Turning, history
<1>7. CASE \E capture \in 0..Lap - 1 : Edge(capture)
  <2>1. PICK capture \in 0..Lap - 1 : Edge(capture)
    BY <1>7
  <2>2. tacho_valid' /\ tacho_timeout' = 0 /\ UNCHANGED <<pc, fan_rpm, locals>>
    BY <2>1 DEF Edge
  <2>3. CASE pc = "idle"
    <3>1. steady' => tacho_period_ticks' \in 1..Lap - 1
      <4>1. ASSUME steady' PROVE tacho_period_ticks' \in 1..Lap - 1
        <5>1. capture > tacho_last_capture
          BY <2>1, <2>3, <4>1 DEF Edge
        <5>2. /\ Wide \in Nat \ {0}
              /\ capture - tacho_last_capture \in 1..Lap - 1
              /\ capture - tacho_last_capture \in 0..Wide - 1
          BY <5>1, Parameters DEF FanTypeOK
        <5>3. (capture - tacho_last_capture) % Wide = capture - tacho_last_capture
          BY <5>2, Remainder
        <5> QED
          BY <2>1, <5>2, <5>3 DEF Edge
      <4> QED
        BY <4>1
    <3> QED
      BY <2>2, <2>3, <3>1 DEF Turning
  <2>4. CASE pc # "idle"
    <3>1. UNCHANGED steady
      BY <2>1, <2>4 DEF Edge
    <3> QED
      BY <2>2, <2>4, <3>1 DEF Turning, locals
  <2> QED
    BY <2>3, <2>4
<1>8. CASE FaultClear \/ Tune \/ UNCHANGED fanVars
  <2>1. UNCHANGED <<tacho, fan_rpm, pc, locals, history>>
    BY <1>8 DEF FaultClear, Tune, fanVars
  <2> QED
    BY <2>1 DEF Turning, tacho, locals, history
<1> QED
  BY <1>1, <1>2, <1>3, <1>4, <1>5, <1>6, <1>7, <1>8 DEF FanNext, Update

(* One update more or less on the counter, and on what it has missed. *)
LEMMA DetectCounts ==
  ASSUME FanTypeOK, StallCounted, NEW rpm, Detect(rpm), Finished, steady => rpm # 0
  PROVE  StallCounted'
<1>1. /\ stall_cycle_counter \in Nat /\ missed \in 0..StallCycles
      /\ StallCycles \in Nat \ {0} /\ CounterWidth \in Nat /\ CounterWidth > StallCycles
  BY Parameters DEF FanTypeOK
<1>2. CASE ~(fan_duty_pct >= StallDuty /\ rpm = 0)
  <2>1. stall_cycle_counter' = 0 /\ ~fan_stall'
    BY <1>2 DEF Detect
  <2>2. missed' >= 0
    BY <1>1 DEF Finished, Counted
  <2> QED
    BY <1>1, <2>1, <2>2 DEF StallCounted
<1>3. CASE fan_duty_pct >= StallDuty /\ rpm = 0
  <2> DEFINE n == (stall_cycle_counter + 1) % CounterWidth
  <2>1. /\ stall_cycle_counter' = n
        /\ fan_stall' <=> (fan_stall \/ n >= StallCycles)
    BY <1>3 DEF Detect
  <2>2. missed' = (IF missed < StallCycles THEN missed + 1 ELSE StallCycles)
    BY <1>3 DEF Finished, Counted
  <2>3. CASE fan_stall
    BY <1>1, <2>1, <2>2, <2>3 DEF StallCounted
  <2>4. CASE ~fan_stall
    <3>1. stall_cycle_counter <= missed /\ stall_cycle_counter < StallCycles
      BY <2>4 DEF StallCounted
    <3>2. n = stall_cycle_counter + 1
      <4>1. stall_cycle_counter + 1 \in 0..CounterWidth - 1 /\ CounterWidth \in Nat \ {0}
        BY <1>1, <3>1
      <4> QED
        BY <4>1, Remainder
    <3> QED
      BY <1>1, <2>1, <2>2, <2>4, <3>1, <3>2 DEF StallCounted
  <2> QED
    BY <2>3, <2>4
<1> QED
  BY <1>2, <1>3

LEMMA StallCountedKept ==
  ASSUME FanTypeOK, Turning, StallCounted, [FanNext]_fanVars
  PROVE  StallCounted'
<1>1. CASE InTime
  <2>1. Detect(fan_rpm) /\ Finished /\ (steady => fan_rpm # 0)
    BY <1>1 DEF InTime, Turning
  <2> QED
    BY <2>1, DetectCounts
<1>2. CASE Expire
  <2>1. Detect(0) /\ Finished /\ ~steady
    BY <1>2 DEF Expire, Turning
  <2> QED
    BY <2>1, DetectCounts
<1>3. CASE ~InTime /\ ~Expire
  <2>1. UNCHANGED <<stall_cycle_counter, fan_stall, missed>>
    BY <1>3
    DEF FanNext, Update, Regulate, ReadSpeed, LoadTimeout, StoreTimeout, TimedOut, Edge,
        FaultClear, Tune, fanVars, stall, history
  <2> QED
    BY <2>1 DEF StallCounted
<1> QED
  BY <1>1, <1>2, <1>3

(* fan_stall is no false alarm: each of the updates that led to it began    *)
(* without a forward capture, wherever the edges landed in fan_update.     *)
THEOREM StallIsReal == FanSpec => []NoFalseStall
<1> DEFINE Inv == FanTypeOK /\ Turning /\ StallCounted
<1>1. FanInit => Inv
  <2>1. FanInit => Turning
    BY DEF FanInit, Turning
  <2>2. FanInit => StallCounted
    BY Parameters DEF FanInit, StallCounted
  <2> QED
    BY <2>1, <2>2, InitTypes
<1>2. Inv /\ [FanNext]_fanVars => Inv'
  BY TypesKept, TurningKept, StallCountedKept
<1>3. Inv => NoFalseStall
  BY DEF StallCounted, NoFalseStall
<1> QED
  BY <1>1, <1>2, <1>3, PTL DEF FanSpec
-----------------------------------------------------------------------------
(* A period still held valid is younger than the time-out, and as old as   *)
(* the updates that saw no edge.                                           *)
Aged ==
  /\ (pc \in {"idle", "speed", "load", "store"} /\ tacho_valid) =>
       tacho_timeout < TachoMax
  /\ ~moved =>
       /\ (pc \in {"idle", "speed", "load", "store"} /\ tacho_valid) =>
            tacho_timeout >= silent
       /\ (pc = "store" /\ tacho_valid) => loaded = tacho_timeout
       /\ (pc = "test" /\ tacho_valid) => tacho_timeout >= silent + 1
       /\ (pc \in {"load", "store", "test"} /\ ~tacho_valid) => fan_rpm = 0
  /\ (pc = "idle" /\ silent >= TachoMax) => fan_rpm = 0

(* How an update may end once TachoMax updates have seen no edge. *)
LEMMA StillAtEnd ==
  ASSUME FanTypeOK, Aged, InTime \/ Expire, silent' >= TachoMax
  PROVE  fan_rpm' = 0 /\ ~moved
<1>1. /\ silent \in Nat /\ tacho_timeout \in Nat /\ TachoMax \in Nat /\ TachoMax > 1
      /\ StallCycles \in Nat
  BY Parameters DEF FanTypeOK
<1>2. Finished
  BY DEF InTime, Expire
<1>3. ~moved
  <2>1. moved => silent' = 0
    BY <1>2 DEF Finished
  <2> QED
    BY <1>1, <2>1
<1>4. silent' \in Nat /\ silent + 1 >= silent'
  BY <1>1, <1>2, <1>3 DEF Finished, Counted
<1>5. CASE Expire
  BY <1>3, <1>5 DEF Expire
<1>6. CASE InTime
  <2>1. pc = "test" /\ tacho_timeout < TachoMax /\ UNCHANGED fan_rpm
    BY <1>6 DEF InTime
  <2>2. ~tacho_valid
    BY <1>1, <1>3, <1>4, <2>1 DEF Aged
  <2> QED
    BY <1>3, <2>1, <2>2 DEF Aged
<1> QED
  BY <1>5, <1>6

LEMMA AgedKept ==
  ASSUME FanTypeOK, Aged, [FanNext]_fanVars
  PROVE  Aged'
<1>1. /\ silent \in Nat /\ tacho_timeout \in Nat /\ loaded \in Nat
      /\ TachoMax \in Nat /\ TachoMax > 1
      /\ TimeoutWidth \in Nat \ {0} /\ TimeoutWidth > TachoMax /\ StallCycles \in Nat
  BY Parameters DEF FanTypeOK
<1>2. CASE \E adc \in AdcValues : Regulate(adc)
  BY <1>2 DEF Regulate, Aged, tacho, history
<1>3. CASE ReadSpeed
  BY <1>3 DEF ReadSpeed, Aged, tacho, history
<1>4. CASE LoadTimeout
  BY <1>4 DEF LoadTimeout, Aged, tacho, history
<1>5. CASE StoreTimeout
  <2>1. pc = "store" /\ pc' = "test" /\ UNCHANGED <<tacho_valid, fan_rpm, moved, silent>>
    BY <1>5 DEF StoreTimeout, history
  <2>2. ASSUME ~moved, tacho_valid PROVE tacho_timeout' >= silent + 1
    <3>1. loaded = tacho_timeout /\ tacho_timeout < TachoMax /\ tacho_timeout >= silent
      BY <2>1, <2>2 DEF Aged
    <3>2. /\ loaded + 1 \in 0..TimeoutWidth - 1 /\ loaded + 1 \in Int
          /\ TimeoutWidth \in Nat \ {0}
      BY <1>1, <3>1
    <3>3. (loaded + 1) % TimeoutWidth = loaded + 1
      BY <3>2, Remainder
    <3>4. tacho_timeout' = loaded + 1
      BY <1>5, <3>3 DEF StoreTimeout
    <3> QED
      BY <1>1, <3>1, <3>4
  <2> QED
    BY <2>1, <2>2 DEF Aged
<1>6. CASE InTime \/ Expire
  <2>1. pc' = "idle" /\ ~moved'
    BY <1>6 DEF InTime, Expire, Finished
  <2>2. silent' >= TachoMax => fan_rpm' = 0
    BY <1>6, StillAtEnd
  <2>3. tacho_valid' => tacho_timeout' < TachoMax /\ tacho_timeout' >= silent'
    <3>1. CASE Expire
      <4>1. tacho_valid' = FALSE
        BY <3>1 DEF Expire
      <4> QED
        BY <4>1
    <3>2. CASE InTime
      <4>1. /\ pc = "test" /\ tacho_timeout < TachoMax /\ Finished
            /\ UNCHANGED <<tacho_valid, tacho_timeout>>
        BY <3>2 DEF InTime, tacho
      <4>2. CASE moved
        BY <1>1, <4>1, <4>2 DEF Finished
      <4>3. CASE ~moved
        <5>1. silent' <= silent + 1
          BY <1>1, <4>1, <4>3 DEF Finished, Counted
        <5>2. silent' \in Int
          BY <1>1, <4>1 DEF Finished, Counted
        <5> QED
          BY <1>1, <4>1, <4>3, <5>1, <5>2 DEF Aged
      <4> QED
        BY <4>2, <4>3
    <3> QED
      BY <1>6, <3>1, <3>2
  <2> QED
    BY <2>1, <2>2, <2>3 DEF Aged
<1>7. CASE TimedOut
  BY <1>7 DEF TimedOut, Aged, history
<1>8. CASE \E capture \in 0..Lap - 1 : Edge(capture)
  <2>1. PICK capture \in 0..Lap - 1 : Edge(capture)
    BY <1>8
  <2>2. tacho_timeout' = 0 /\ moved' /\ UNCHANGED <<pc, fan_rpm, silent>>
    BY <2>1 DEF Edge
  <2> QED
    BY <1>1, <2>2 DEF Aged
<1>9. CASE FaultClear \/ Tune \/ UNCHANGED fanVars
  <2>1. UNCHANGED <<tacho, fan_rpm, pc, locals, history>>
    BY <1>9 DEF FaultClear, Tune, fanVars
  <2> QED
    BY <2>1 DEF Aged, tacho, locals, history
<1> QED
  BY <1>2, <1>3, <1>4, <1>5, <1>6, <1>7, <1>8, <1>9 DEF FanNext, Update

LEMMA InitAged == FanInit => Aged
BY Parameters DEF FanInit, Aged

(* From the TachoMax-th update without an edge on, the speed is 0: the     *)
(* time-out cannot be put off, nor forgotten when its counter wraps.       *)
THEOREM SpeedIsFresh == FanSpec => []NoStaleSpeed
<1> DEFINE Inv == FanTypeOK /\ Aged
<1>1. FanInit => Inv
  BY InitTypes, InitAged
<1>2. Inv /\ [FanNext]_fanVars => Inv'
  BY TypesKept, AgedKept
<1>3. Inv => NoStaleSpeed
  BY DEF Aged, NoStaleSpeed
<1> QED
  BY <1>1, <1>2, <1>3, PTL DEF FanSpec
-----------------------------------------------------------------------------
(* fan_update with the gains as built always drives a hot heatsink at the  *)
(* minimum, and counts the updates in which that does not turn the fan.    *)
AsBuilt == gain = [kp |-> 0, ki |-> 0, kd |-> 0]

Driven ==
  AsBuilt =>
    /\ integral = 0 /\ output = 0
    /\ (pc # "idle" /\ heatsink_temp_c >= Target) => fan_duty_pct >= StallDuty

StillCounted ==
  AsBuilt =>
    \A k \in 1..StallCycles :
      (hot >= k /\ silent >= TachoMax - 1 + k) => fan_stall \/ stall_cycle_counter >= k

LEMMA DrivenKept ==
  ASSUME FanTypeOK, Driven, [FanNext]_fanVars
  PROVE  Driven'
<1>1. OutMax \in Nat /\ IntMax \in Nat /\ Target \in Int /\ PidMax \in Nat \ {0}
  BY Parameters
<1>2. UNCHANGED gain
  BY DEF FanNext, Update, Regulate, ReadSpeed, LoadTimeout, StoreTimeout, InTime,
         TimedOut, Expire, Edge, FaultClear, Tune, PidCompute, PidReset,
         PidSetIntegral, fanVars, pidVars
<1>3. CASE ~AsBuilt
  BY <1>2, <1>3 DEF AsBuilt, Driven
<1>4. CASE AsBuilt
  <2>1. gain.kp = 0 /\ gain.ki = 0 /\ gain.kd = 0 /\ integral = 0 /\ output = 0
    BY <1>4 DEF AsBuilt, Driven
  <2>2. CASE \E adc \in AdcValues : Regulate(adc)
    <3>1. PICK adc \in AdcValues : Regulate(adc)
      BY <2>2
    <3>2. Reading(adc) \in Int /\ last_feedback \in Int
      <4>1. adc \in Nat
        BY <3>1, Parameters
      <4> QED
        BY <4>1, ReadingInt DEF FanTypeOK, PidTypeOK
    <3> DEFINE error == Target - Reading(adc)
               sum == IF Frozen(error) THEN integral
                      ELSE Clamp(integral + gain.ki * error, -IntMax, IntMax)
               raw == gain.kp * error + sum - gain.kd * (Reading(adc) - last_feedback)
    <3>3. integral' = sum /\ output' = Clamp(raw, 0, OutMax)
      BY <3>1 DEF Regulate, PidCompute
    <3>4. error \in Int /\ sum = 0
      BY <1>1, <2>1, <3>2 DEF Clamp
    <3>5. raw = 0
      BY <2>1, <3>2, <3>4
    <3> HIDE DEF sum, raw
    <3>6. integral' = 0 /\ output' = 0
      BY <1>1, <3>3, <3>4, <3>5 DEF Clamp
    <3>7. Duty(0) = 30
      BY <1>1 DEF Duty, DutyMin, DutyMax, Byte
    <3>8. heatsink_temp_c' >= Target => fan_duty_pct' >= StallDuty
      BY <1>1, <3>1, <3>2, <3>6, <3>7 DEF Regulate, StallDuty
    <3> QED
      BY <3>6, <3>8 DEF Driven
  <2>3. CASE Tune
    <3>1. integral' = 0 /\ output' = 0 /\ UNCHANGED <<duty, pc>>
      BY <1>1, <2>1, <2>3 DEF Tune, PidReset, PidSetIntegral, Clamp
    <3> QED
      BY <1>4, <2>3, <3>1 DEF Driven, Tune, duty
  <2>4. CASE ~(\E adc \in AdcValues : Regulate(adc)) /\ ~Tune
    <3>1. UNCHANGED <<integral, output, duty>> /\ (pc' # "idle" => pc # "idle")
      BY <2>4
      DEF FanNext, Update, ReadSpeed, LoadTimeout, StoreTimeout, InTime, TimedOut,
          Expire, Edge, FaultClear, fanVars, pidVars, pidState
    <3> QED
      BY <1>4, <3>1 DEF Driven, duty
  <2> QED
    BY <2>2, <2>3, <2>4
<1> QED
  BY <1>3, <1>4

LEMMA StillCountedKept ==
  ASSUME FanTypeOK, Aged, Driven, StallCounted, StillCounted, [FanNext]_fanVars
  PROVE  StillCounted'
<1>1. UNCHANGED gain
  BY DEF FanNext, Update, Regulate, ReadSpeed, LoadTimeout, StoreTimeout, InTime,
         TimedOut, Expire, Edge, FaultClear, Tune, PidCompute, PidReset,
         PidSetIntegral, fanVars, pidVars
<1>2. CASE ~InTime /\ ~Expire
  <2>1. UNCHANGED <<stall_cycle_counter, fan_stall, hot, silent>>
    BY <1>2
    DEF FanNext, Update, Regulate, ReadSpeed, LoadTimeout, StoreTimeout, TimedOut, Edge,
        FaultClear, Tune, fanVars, stall, history
  <2> QED
    BY <1>1, <2>1 DEF StillCounted, AsBuilt
<1>3. CASE InTime \/ Expire
  <2> SUFFICES ASSUME AsBuilt, NEW k \in 1..StallCycles,
                      hot' >= k, silent' >= TachoMax - 1 + k
               PROVE  fan_stall' \/ stall_cycle_counter' >= k
    BY <1>1 DEF StillCounted, AsBuilt
  <2>1. /\ silent \in 0..TachoMax + StallCycles /\ hot \in 0..StallCycles
        /\ stall_cycle_counter \in Nat /\ TachoMax \in Nat /\ TachoMax > 1
        /\ StallCycles \in Nat \ {0} /\ CounterWidth \in Nat /\ CounterWidth > StallCycles
        /\ Target \in Int /\ heatsink_temp_c \in Int
    BY Parameters DEF FanTypeOK
  <2>2. Finished /\ pc # "idle"
    BY <1>3 DEF InTime, Expire
  <2>3. silent' \in Nat /\ hot' \in Nat
    BY <2>1, <2>2 DEF Finished, Counted
  <2>4. silent' >= TachoMax
    BY <2>1, <2>3
  <2>5. fan_rpm' = 0 /\ ~moved
    BY <1>3, <2>4, StillAtEnd
  <2>6. Detect(fan_rpm')
    BY <1>3 DEF InTime, Expire
  <2>7. heatsink_temp_c >= Target /\ hot + 1 >= hot'
    <3>1. ~(heatsink_temp_c < Target)
      BY <2>1, <2>2 DEF Finished
    <3> QED
      BY <2>1, <2>2, <3>1 DEF Finished, Counted
  <2>8. silent + 1 >= silent'
    BY <2>1, <2>2, <2>5 DEF Finished, Counted
  <2>9. fan_duty_pct >= StallDuty
    BY <2>2, <2>7 DEF Driven
  <2> DEFINE n == (stall_cycle_counter + 1) % CounterWidth
  <2>10. stall_cycle_counter' = n /\ (fan_stall' <=> (fan_stall \/ n >= StallCycles))
    BY <2>5, <2>6, <2>9 DEF Detect
  <2>11. fan_stall \/ stall_cycle_counter >= k - 1
    <3>1. CASE k = 1
      BY <2>1, <3>1
    <3>2. CASE k # 1
      <4>1. k - 1 \in 1..StallCycles
        BY <2>1, <3>2
      <4>2. hot >= k - 1 /\ silent >= TachoMax - 1 + (k - 1)
        BY <2>1, <2>3, <2>7, <2>8
      <4> QED
        BY <4>1, <4>2 DEF StillCounted
    <3> QED
      BY <3>1, <3>2
  <2>12. CASE fan_stall
    BY <2>10, <2>12
  <2>13. CASE ~fan_stall
    <3>1. stall_cycle_counter < StallCycles
      BY <2>13 DEF StallCounted
    <3>2. stall_cycle_counter + 1 \in 0..CounterWidth - 1 /\ CounterWidth \in Nat \ {0}
      BY <2>1, <3>1
    <3>3. n = stall_cycle_counter + 1
      BY <3>2, Remainder
    <3> QED
      BY <2>1, <2>10, <2>11, <2>13, <3>3
  <2> QED
    BY <2>12, <2>13
<1> QED
  BY <1>2, <1>3

(* With the gains as built a fan that does not turn on a hot heatsink is   *)
(* reported, and stays reported while its counter wraps.                   *)
THEOREM StallIsSeen == FanSpec => []StallSeen
<1> DEFINE Inv == /\ FanTypeOK /\ Turning /\ StallCounted
                  /\ Aged /\ Driven /\ StillCounted
<1>1. FanInit => Inv
  <2> SUFFICES ASSUME FanInit PROVE Inv
    OBVIOUS
  <2>1. Turning /\ Driven
    BY DEF FanInit, PidInit, Turning, Driven
  <2>2. StallCounted /\ StillCounted
    BY Parameters DEF FanInit, StallCounted, StillCounted
  <2> QED
    BY <2>1, <2>2, InitTypes, InitAged
<1>2. Inv /\ [FanNext]_fanVars => Inv'
  BY TypesKept, TurningKept, StallCountedKept, AgedKept, DrivenKept, StillCountedKept
<1>3. Inv => StallSeen
  <2> SUFFICES ASSUME Inv, AsBuilt, hot >= StallCycles,
                      silent >= TachoMax + StallCycles - 1
               PROVE  fan_stall
    BY DEF StallSeen, AsBuilt
  <2>1. /\ StallCycles \in Nat \ {0} /\ TachoMax \in Nat
        /\ silent \in Int /\ stall_cycle_counter \in Int
    BY Parameters DEF FanTypeOK
  <2>2. StallCycles \in 1..StallCycles /\ silent >= TachoMax - 1 + StallCycles
    BY <2>1
  <2>3. fan_stall \/ stall_cycle_counter >= StallCycles
    BY <2>2 DEF StillCounted
  <2> QED
    BY <2>1, <2>3 DEF StallCounted
<1> QED
  BY <1>1, <1>2, <1>3, PTL DEF FanSpec
-----------------------------------------------------------------------------
(* An output above its low limit outweighs a negative integral by its      *)
(* other two terms, so that the next step down starts from there.          *)
Outweighed ==
  /\ IntegralNotWound
  /\ saturated # "low" => \E other \in OtherTerms : integral >= -other
  /\ last_feedback \in {0} \union Readings

LEMMA TermsInt ==
  ASSUME PidTypeOK
  PROVE  /\ Readings \subseteq Int
         /\ Errors \subseteq Int /\ 0 \in Errors
         /\ OtherTerms \subseteq Int /\ 0 \in OtherTerms
<1>1. Target \in Int /\ AdcValues \subseteq Nat
  BY Parameters
<1>2. Readings \subseteq Int
  BY <1>1, ReadingInt DEF Readings
<1>3. gain \in [kp : Nat, ki : Nat, kd : Nat]
  BY Parameters DEF PidTypeOK
<1>4. gain.kp \in Int /\ gain.kd \in Int
  BY <1>3
<1>5. Errors \subseteq Int /\ 0 \in Errors
  BY <1>1, <1>2 DEF Errors
<1>6. ASSUME NEW feedback \in Readings, NEW before \in {0} \union Readings
      PROVE  gain.kp * (Target - feedback) - gain.kd * (feedback - before) \in Int
  <2>1. feedback \in Int /\ before \in Int
    BY <1>2
  <2> QED
    BY <1>1, <1>4, <2>1
<1>7. OtherTerms \subseteq Int /\ 0 \in OtherTerms
  BY <1>6 DEF OtherTerms
<1> QED
  BY <1>2, <1>5, <1>7

(* The gains do not change, and neither do the terms they weigh. *)
LEMMA SameTerms ==
  ASSUME UNCHANGED gain
  PROVE  OtherTerms' = OtherTerms
BY DEF OtherTerms

LEMMA ComputeOutweighed ==
  ASSUME PidTypeOK, Outweighed, NEW adc \in AdcValues,
         PidCompute(Target, Reading(adc))
  PROVE  Outweighed'
<1> DEFINE error == Target - Reading(adc)
           sum == IF Frozen(error) THEN integral
                  ELSE Clamp(integral + gain.ki * error, -IntMax, IntMax)
           other == gain.kp * error - gain.kd * (Reading(adc) - last_feedback)
           raw == gain.kp * error + sum - gain.kd * (Reading(adc) - last_feedback)
           next == integral + gain.ki * error
<1>0. gain \in [kp : Nat, ki : Nat, kd : Nat]
  BY Parameters DEF PidTypeOK
<1>1. /\ gain.kp \in Nat /\ gain.ki \in Nat /\ gain.kd \in Nat
      /\ integral \in -IntMax..IntMax
      /\ integral \in Int /\ OutMax \in Nat /\ IntMax \in Nat /\ last_feedback \in Int
  BY <1>0, Parameters DEF PidTypeOK
<1>2. /\ Reading(adc) \in Readings /\ error \in Errors /\ other \in OtherTerms
      /\ error \in Int /\ other \in Int /\ Reading(adc) \in Int
  <2>1. Reading(adc) \in Readings
    BY DEF Readings
  <2>2. error \in Errors
    BY <2>1 DEF Errors
  <2>3. other \in OtherTerms
    BY <2>1 DEF OtherTerms, Outweighed
  <2> QED
    BY <2>1, <2>2, <2>3, TermsInt
<1>3. next \in Int
  BY <1>1, <1>2
<1>4. /\ integral' = sum /\ UNCHANGED gain /\ last_feedback' = Reading(adc)
      /\ saturated' = IF raw > OutMax THEN "high" ELSE IF raw < 0 THEN "low" ELSE "no"
  BY DEF PidCompute
<1> HIDE DEF error
<1>5. sum \in Int /\ raw = other + sum
  <2>1. sum \in Int
    BY <1>1, <1>3 DEF Clamp
  <2>2. gain.kp * error \in Int /\ gain.kd * (Reading(adc) - last_feedback) \in Int
    BY <1>1, <1>2
  <2> HIDE DEF sum
  <2> QED
    BY <2>1, <2>2
<1> HIDE DEF other
<1>6. \E last \in Errors, before \in OtherTerms : sum >= gain.ki * last - before
  <2>1. PICK last \in Errors, before \in OtherTerms :
          integral >= gain.ki * last - before
    BY DEF Outweighed, IntegralNotWound
  <2>2. gain.ki * last - before \in Int
    BY <1>1, <2>1, TermsInt
  <2>3. CASE sum >= integral
    BY <1>1, <1>5, <2>1, <2>2, <2>3
  <2>4. CASE ~(sum >= integral)
    <3>1. ~Frozen(error)
      BY <1>1, <2>4
    <3>2. sum = Clamp(next, -IntMax, IntMax)
      BY <3>1
    <3>3. sum >= next
      BY <1>1, <1>3, <2>4, <3>2 DEF Clamp
    <3>4. error < 0
      <4>1. ASSUME error >= 0 PROVE FALSE
        <5>1. gain.ki * error >= 0
          BY <1>1, <1>2, <4>1
        <5>2. next >= integral
          BY <1>1, <1>2, <5>1
        <5> HIDE DEF sum, next
        <5> QED
          BY <1>1, <1>3, <1>5, <2>4, <3>3, <5>2
      <4> QED
        BY <1>2, <4>1
    <3>5. saturated # "low"
      BY <3>1, <3>4 DEF Frozen
    <3>6. PICK prior \in OtherTerms : integral >= -prior
      BY <3>5 DEF Outweighed
    <3>7. prior \in Int /\ gain.ki * error \in Int
      BY <1>1, <1>2, <3>6, TermsInt
    <3>8. next >= gain.ki * error - prior
      BY <1>1, <3>6, <3>7
    <3> HIDE DEF sum, next
    <3>9. sum >= gain.ki * error - prior
      BY <1>3, <1>5, <3>3, <3>7, <3>8
    <3> QED
      BY <1>2, <3>6, <3>9
  <2> QED
    BY <2>3, <2>4
<1>7. saturated' # "low" => sum >= -other
  <2> HIDE DEF sum, raw
  <2>1. saturated' # "low" => raw >= 0
    BY <1>1, <1>2, <1>4, <1>5
  <2> QED
    BY <1>2, <1>5, <2>1
<1> HIDE DEF sum, raw, next
<1>8. Readings' = Readings /\ Errors' = Errors /\ OtherTerms' = OtherTerms
  BY <1>4, SameTerms DEF Errors, Readings
<1>9. IntegralNotWound'
  BY <1>4, <1>6, <1>8 DEF IntegralNotWound
<1> QED
  BY <1>2, <1>4, <1>7, <1>8, <1>9 DEF Outweighed

LEMMA OutweighedKept ==
  ASSUME FanTypeOK, Outweighed, [FanNext]_fanVars
  PROVE  Outweighed'
<1>0. PidTypeOK
  BY DEF FanTypeOK
<1>1. CASE \E adc \in AdcValues : Regulate(adc)
  BY <1>0, <1>1, ComputeOutweighed DEF Regulate
<1>2. CASE Tune
  <2>0. gain \in [kp : Nat, ki : Nat, kd : Nat]
    BY <1>0, Parameters DEF PidTypeOK
  <2>1. /\ output \in 0..OutMax /\ OutMax \in Nat /\ IntMax \in Nat
        /\ gain.ki \in Nat
    BY <1>0, <2>0, Parameters DEF PidTypeOK
  <2>2. integral' \in Nat /\ UNCHANGED gain /\ last_feedback' \in {0, last_feedback}
    BY <1>2, <2>1 DEF Tune, PidReset, PidSetIntegral, Clamp
  <2>3. integral' >= gain.ki * 0 - 0 /\ integral' >= -0
    BY <2>1, <2>2
  <2>4. Readings' = Readings /\ Errors' = Errors /\ OtherTerms' = OtherTerms
    BY <2>2, SameTerms DEF Errors, Readings
  <2>5. IntegralNotWound'
    BY <1>0, <2>2, <2>3, <2>4, TermsInt DEF IntegralNotWound
  <2>6. \E other \in OtherTerms' : integral' >= -other
    BY <1>0, <2>3, <2>4, TermsInt
  <2>7. last_feedback' \in {0} \union Readings'
    BY <2>2, <2>4 DEF Outweighed
  <2> QED
    BY <2>5, <2>6, <2>7 DEF Outweighed
<1>3. CASE ~(\E adc \in AdcValues : Regulate(adc)) /\ ~Tune
  <2>1. UNCHANGED <<gain, integral, saturated, last_feedback>>
    BY <1>3
    DEF FanNext, Update, ReadSpeed, LoadTimeout, StoreTimeout, InTime, TimedOut,
        Expire, Edge, FaultClear, fanVars, pidVars, pidState
  <2>2. Readings' = Readings /\ Errors' = Errors /\ OtherTerms' = OtherTerms
    BY <2>1, SameTerms DEF Errors, Readings
  <2> QED
    BY <2>1, <2>2 DEF Outweighed, IntegralNotWound
<1> QED
  BY <1>1, <1>2, <1>3

(* The anti-windup of pid_compute at its low limit, for every proportional,*)
(* integral and derivative gain and every set of readings.                 *)
THEOREM IntegralIsBounded == FanSpec => []IntegralNotWound
<1> DEFINE Inv == FanTypeOK /\ Outweighed
<1>1. FanInit => Inv
  <2> SUFFICES ASSUME FanInit PROVE Outweighed
    BY InitTypes
  <2>0. PidTypeOK
    BY InitTypes DEF FanTypeOK
  <2>1. gain \in [kp : Nat, ki : Nat, kd : Nat]
    BY Parameters DEF FanInit, PidInit
  <2>2. gain.ki \in Nat /\ integral = 0 /\ last_feedback = 0
    BY <2>1 DEF FanInit, PidInit
  <2>3. integral >= gain.ki * 0 - 0 /\ integral >= -0
    BY <2>2
  <2> QED
    BY <2>0, <2>2, <2>3, TermsInt DEF Outweighed, IntegralNotWound
<1>2. Inv /\ [FanNext]_fanVars => Inv'
  BY TypesKept, OutweighedKept
<1>3. Inv => IntegralNotWound
  BY DEF Outweighed
<1> QED
  BY <1>1, <1>2, <1>3, PTL DEF FanSpec
-----------------------------------------------------------------------------
(* The bit in the fault register.  fault_clear takes it from a fan that    *)
(* still stalls, and step D gives it back once the counter is at the       *)
(* limit: at the next update, or, since the byte has gone on counting and  *)
(* may wrap, after up to StallCycles more.                                 *)
FlagIsReal == fan_stall_flag => fan_stall

FlagDue ==
  IF stall_cycle_counter = CounterWidth - 1 THEN StallCycles + 1
  ELSE IF stall_cycle_counter < StallCycles THEN StallCycles - stall_cycle_counter
  ELSE 1

UpdateEnds == pc # "idle" /\ pc' = "idle"

FlagCatchesUp ==
  [][ fan_stall /\ ~fan_stall_flag =>
        /\ ~UpdateEnds => UNCHANGED stall
        /\ UpdateEnds => \/ fan_stall' = fan_stall_flag'
                         \/ fan_stall' /\ FlagDue \in 2..StallCycles + 1 /\ FlagDue' = FlagDue - 1
    ]_fanVars

LEMMA FlagStep ==
  ASSUME FanTypeOK, FanTypeOK', FlagIsReal, [FanNext]_fanVars
  PROVE  /\ FlagIsReal'
         /\ fan_stall /\ ~fan_stall_flag =>
              /\ ~UpdateEnds => UNCHANGED stall
              /\ UpdateEnds =>
                   \/ fan_stall' = fan_stall_flag'
                   \/ fan_stall' /\ FlagDue \in 2..StallCycles + 1 /\ FlagDue' = FlagDue - 1
<1>1. CASE InTime \/ Expire
  <2>1. UpdateEnds /\ (Detect(fan_rpm) \/ Detect(0))
    BY <1>1 DEF InTime, Expire, UpdateEnds
  <2> DEFINE n == (stall_cycle_counter + 1) % CounterWidth
  <2>2. CASE fan_stall' = FALSE /\ fan_stall_flag' = FALSE
    BY <2>1, <2>2 DEF FlagIsReal
  <2>3. CASE /\ stall_cycle_counter' = n
             /\ fan_stall' = (fan_stall \/ n >= StallCycles)
             /\ fan_stall_flag' = (fan_stall_flag \/ n >= StallCycles)
    <3>1. stall_cycle_counter \in 0..CounterWidth - 1 /\ CounterWidth \in Nat
          /\ StallCycles \in Nat \ {0} /\ CounterWidth > StallCycles
      BY FanAssumption DEF FanTypeOK
    <3>2. n = IF stall_cycle_counter = CounterWidth - 1 THEN 0 ELSE stall_cycle_counter + 1
      BY <3>1
    <3>3. FlagIsReal'
      BY <2>3 DEF FlagIsReal
    <3>4. CASE n >= StallCycles
      BY <2>1, <2>3, <3>3, <3>4
    <3>5. CASE ~(n >= StallCycles)
      <4>1. FlagDue \in 2..StallCycles + 1 /\ FlagDue' = FlagDue - 1
        BY <2>3, <3>1, <3>2, <3>5 DEF FlagDue
      <4>2. fan_stall => fan_stall'
        BY <2>3
      <4> QED
        BY <2>1, <3>3, <4>1, <4>2
    <3> QED
      BY <3>4, <3>5
  <2> QED
    BY <2>1, <2>2, <2>3 DEF Detect
<1>2. CASE FaultClear
  BY <1>2 DEF FaultClear, FlagIsReal, UpdateEnds, stall, FanTypeOK
<1>3. CASE ~InTime /\ ~Expire /\ ~FaultClear
  <2>1. UNCHANGED stall /\ ~UpdateEnds
    BY <1>3
    DEF FanNext, Update, Regulate, ReadSpeed, LoadTimeout, StoreTimeout, TimedOut,
        Edge, Tune, fanVars, UpdateEnds
  <2> QED
    BY <2>1 DEF stall, FlagIsReal
<1> QED
  BY <1>1, <1>2, <1>3

(* The register never reports a stall that is over, and a stalled fan      *)
(* whose bit fault_clear has taken has it again, or turns, after at most   *)
(* StallCycles + 1 updates: why StallFlagReturns holds.                    *)
THEOREM StallFlagIsDue == FanSpec => []FlagIsReal /\ FlagCatchesUp
<1> DEFINE Catches ==
      fan_stall /\ ~fan_stall_flag =>
        /\ ~UpdateEnds => UNCHANGED stall
        /\ UpdateEnds => \/ fan_stall' = fan_stall_flag'
                         \/ fan_stall' /\ FlagDue \in 2..StallCycles + 1 /\ FlagDue' = FlagDue - 1
<1>1. FanInit => FanTypeOK /\ FlagIsReal
  BY InitTypes DEF FanInit, FlagIsReal
<1>2. FanTypeOK /\ FlagIsReal /\ [FanNext]_fanVars
        => FanTypeOK' /\ FlagIsReal' /\ [Catches]_fanVars
  BY TypesKept, FlagStep
<1> QED
  BY <1>1, <1>2, PTL DEF FanSpec, FlagCatchesUp
=============================================================================
