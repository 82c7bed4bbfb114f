------------------------------- MODULE Fault -------------------------------
(***************************************************************************)
(* Drivers/fault.c: the fault register, the two handlers, the state        *)
(* machine with its cooldown, and the explicit clear.                      *)
(*                                                                         *)
(* Everything here runs in main except Alert, the INA226 alarm interrupt,  *)
(* which may land between any two steps.  The handlers end with            *)
(* "fault_triggered = 0", the only store they share with the interrupt:    *)
(* it is a step of its own (HandlerDone) and main does nothing else before *)
(* it (busy).                                                              *)
(*                                                                         *)
(* No file under src/ calls the handlers at this commit.  They are taken   *)
(* as the phase plans call them: with system_mode = MODE_FAULT set by the  *)
(* caller, the hardware handler whenever fault_triggered is set, the       *)
(* over-power one only outside FAULT, the state machine once per cycle.    *)
(* The DAC write of fault_clear is left out: its status is dropped.  Bit   *)
(* 14 of the register belongs to fan.c.                                    *)
(***************************************************************************)
EXTENDS Integers

CONSTANTS
  Channels,       (* INA226 channels that can raise an alarm *)
  MaxRetry,       (* MAX_RETRY_COUNT, 5 *)
  CooldownCycles  (* COOLDOWN_CYCLES, 30 *)

ASSUME FaultAssumption ==
  /\ MaxRetry \in Nat \ {0}
  /\ CooldownCycles \in Nat \ {0}

VARIABLES
  mode,              (* system_mode *)
  overcurrent_mask,  (* fault_reg.bits, as a set of channels *)
  fault_type,
  retry_count,
  latched,
  auto_recovery,
  cooldown_counter,
  fault_triggered,
  fault_source_mask, (* channels the interrupt has seen *)
  busy               (* main is inside a handler, before its last store *)

register == <<overcurrent_mask, fault_type, retry_count, latched,
              auto_recovery>>
alarm == <<fault_triggered, fault_source_mask>>
faultVars == <<mode, register, cooldown_counter, alarm, busy>>

Modes == {"IDLE", "CV", "CC", "FAULT"}
MosChannels == 0..3   (* the bits "alert_mask & 0x0F" keeps *)

(* fault_reg.raw = 0, then auto_recovery = 1; the enumerator 0 is OC. *)
CleanRegister ==
  /\ overcurrent_mask = {}
  /\ fault_type = "OC"
  /\ retry_count = 0
  /\ latched = FALSE
  /\ auto_recovery = TRUE

FaultInit ==
  /\ mode = "IDLE"
  /\ CleanRegister
  /\ cooldown_counter = 0
  /\ fault_triggered = FALSE
  /\ fault_source_mask = {}
  /\ busy = FALSE
-----------------------------------------------------------------------------
(* A definition marked "Mutant" is a mistake one could make in the one     *)
(* after it; no specification uses it.                                     *)

(* EXTI4_IRQHandler, external: its body is only a comment under src/. *)
Alert ==
  /\ \E chans \in SUBSET Channels :
       chans # {} /\ fault_source_mask' = fault_source_mask \union chans
  /\ fault_triggered' = TRUE
  /\ UNCHANGED <<mode, register, cooldown_counter, busy>>

(* Mutant: the latch falls one fault too late. *)
CountFaultLate ==
  LET n == IF retry_count < MaxRetry THEN retry_count + 1 ELSE retry_count
  IN  /\ retry_count' = n
      /\ latched' = (latched \/ retry_count >= MaxRetry)
      /\ auto_recovery' = (auto_recovery /\ retry_count < MaxRetry)

(* Mutant: auto-recovery ends one fault before the latch. *)
CountFaultStopsEarly ==
  LET n == IF retry_count < MaxRetry THEN retry_count + 1 ELSE retry_count
  IN  /\ retry_count' = n
      /\ latched' = (latched \/ n >= MaxRetry)
      /\ auto_recovery' = (auto_recovery /\ n < MaxRetry - 1)

(* The retry and latch logic both handlers repeat. *)
CountFault ==
  LET n == IF retry_count < MaxRetry THEN retry_count + 1 ELSE retry_count
  IN  /\ retry_count' = n
      /\ latched' = (latched \/ n >= MaxRetry)
      /\ auto_recovery' = (auto_recovery /\ n < MaxRetry)

HandlerHw ==
  /\ ~busy
  /\ fault_triggered
  /\ mode' = "FAULT"
  /\ overcurrent_mask' = fault_source_mask \intersect MosChannels
  /\ fault_type' = IF fault_type = "OPP" THEN "BOTH" ELSE "OC"
  /\ CountFault
  /\ busy' = TRUE
  /\ UNCHANGED <<cooldown_counter, alarm>>

HandlerOpp ==
  /\ ~busy
  /\ mode # "FAULT"
  /\ mode' = "FAULT"
  /\ fault_type' = IF fault_type = "OC" THEN "BOTH" ELSE "OPP"
  /\ CountFault
  /\ busy' = TRUE
  /\ UNCHANGED <<overcurrent_mask, cooldown_counter, alarm>>

HandlerDone ==
  /\ busy
  /\ fault_triggered' = FALSE
  /\ busy' = FALSE
  /\ UNCHANGED <<mode, register, cooldown_counter, fault_source_mask>>

(* fault_state_machine, past its two early returns. *)
StateMachine ==
  /\ ~busy
  /\ mode = "FAULT"
  /\ ~latched
  /\ auto_recovery
  /\ IF cooldown_counter + 1 >= CooldownCycles
     THEN mode' = "IDLE" /\ cooldown_counter' = 0
     ELSE mode' = mode /\ cooldown_counter' = cooldown_counter + 1
  /\ UNCHANGED <<register, alarm, busy>>

(* Mutant: the cooldown is not reset. *)
CleanKeepsCooldown ==
  /\ overcurrent_mask' = {}
  /\ fault_type' = "OC"
  /\ retry_count' = 0
  /\ latched' = FALSE
  /\ auto_recovery' = TRUE
  /\ mode' = "IDLE"
  /\ UNCHANGED cooldown_counter

(* Mutant: only the latch is cleared, the count stays. *)
CleanKeepsCount ==
  /\ overcurrent_mask' = {}
  /\ fault_type' = "OC"
  /\ UNCHANGED retry_count
  /\ latched' = FALSE
  /\ auto_recovery' = TRUE
  /\ mode' = "IDLE"
  /\ cooldown_counter' = 0

(* The register, the mode and the cooldown as fault_clear leaves them. *)
Clean ==
  /\ overcurrent_mask' = {}
  /\ fault_type' = "OC"
  /\ retry_count' = 0
  /\ latched' = FALSE
  /\ auto_recovery' = TRUE
  /\ mode' = "IDLE"
  /\ cooldown_counter' = 0

(* fault_clear tests nothing: it may be called in any mode, and it leaves  *)
(* the interrupt's flag and mask alone.                                    *)
Clear == ~busy /\ Clean /\ UNCHANGED <<alarm, busy>>

(* HardFault_Handler resets the processor and nothing is kept. *)
Reboot ==
  /\ Clean
  /\ fault_triggered' = FALSE
  /\ fault_source_mask' = {}
  /\ busy' = FALSE

Handler == HandlerHw \/ HandlerOpp \/ HandlerDone

FaultFairness == WF_faultVars(HandlerDone) /\ WF_faultVars(StateMachine)
-----------------------------------------------------------------------------
FaultTypeOK ==
  /\ mode \in Modes
  /\ overcurrent_mask \subseteq MosChannels
  /\ fault_type \in {"OC", "OPP", "BOTH"}
  /\ retry_count \in 0..MaxRetry
  /\ latched \in BOOLEAN
  /\ auto_recovery \in BOOLEAN
  /\ cooldown_counter \in 0..CooldownCycles - 1
  /\ fault_triggered \in BOOLEAN
  /\ fault_source_mask \subseteq Channels
  /\ busy \in BOOLEAN
=============================================================================
