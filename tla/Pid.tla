--------------------------------- MODULE Pid ---------------------------------
(***************************************************************************)
(* Drivers/pid.c: one PID instance.  All quantities are integers in the    *)
(* unit of the output; a gain has the time step folded in (kd is Kd / dt,  *)
(* ki is Ki * dt).  The setpoint the instance keeps is never read.         *)
(***************************************************************************)
EXTENDS Integers

CONSTANTS
  Gains,   (* the gains an instance may be given: records [kp, ki, kd] *)
  OutMax,  (* PID_OUTPUT_MAX; PID_OUTPUT_MIN is 0 *)
  IntMax   (* PID_INTEGRAL_MAX, and the negated PID_INTEGRAL_MIN *)

ASSUME PidAssumption ==
  /\ Gains \subseteq [kp : Nat, ki : Nat, kd : Nat]
  /\ OutMax \in Nat /\ IntMax \in Nat

VARIABLES
  gain, integral, last_feedback, output,
  saturated  (* "no", or the limit the last output was cut to *)

pidState == <<integral, last_feedback, output, saturated>>
pidVars  == <<gain, pidState>>

Clamp(x, lo, hi) == IF x > hi THEN hi ELSE IF x < lo THEN lo ELSE x

(* pid_init.  fan_pid is never given to it at this commit: a static         *)
(* instance starts the same way, with every gain 0.                         *)
PidInit ==
  /\ gain \in Gains
  /\ integral = 0 /\ last_feedback = 0 /\ output = 0 /\ saturated = "no"

(* Mutant: the low limit does not freeze the integral. *)
FrozenHighOnly(error) == saturated = "high" /\ error > 0

(* The integral stays while the output sits on the limit the error pushes   *)
(* it to.                                                                   *)
Frozen(error) ==
  \/ saturated = "high" /\ error > 0
  \/ saturated = "low" /\ error < 0

(* pid_compute. *)
PidCompute(setpoint, feedback) ==
  LET error == setpoint - feedback
      sum == IF Frozen(error) THEN integral
             ELSE Clamp(integral + gain.ki * error, -IntMax, IntMax)
      raw == gain.kp * error + sum - gain.kd * (feedback - last_feedback)
  IN  /\ integral' = sum
      /\ output' = Clamp(raw, 0, OutMax)
      /\ saturated' = IF raw > OutMax THEN "high" ELSE IF raw < 0 THEN "low" ELSE "no"
      /\ last_feedback' = feedback
      /\ UNCHANGED gain

PidReset ==
  /\ integral' = 0 /\ last_feedback' = 0 /\ output' = 0 /\ saturated' = "no"
  /\ UNCHANGED gain

PidSetIntegral(value) ==
  /\ integral' = Clamp(value, -IntMax, IntMax)
  /\ UNCHANGED <<gain, last_feedback, output, saturated>>
-----------------------------------------------------------------------------
PidTypeOK ==
  /\ gain \in Gains
  /\ integral \in -IntMax..IntMax
  /\ last_feedback \in Int
  /\ output \in 0..OutMax
  /\ saturated \in {"no", "low", "high"}
=============================================================================
