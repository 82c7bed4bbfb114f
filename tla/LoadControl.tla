---------------------------- MODULE LoadControl ----------------------------
(***************************************************************************)
(* The operating mode of the load and its two writers: the commands of     *)
(* protocol_process_command (Drivers/protocol.c), which engage CC or CV    *)
(* through engage_cc / engage_cv (User/main.c), and the fault logic of     *)
(* module Fault.                                                           *)
(*                                                                         *)
(* A command is one step: it runs in main, no interrupt writes what it     *)
(* reads.  Currents are mA, voltages mV (the integers atoi returns, before *)
(* the division by 1000.0f).  NoField is a field that is absent or is not  *)
(* a JSON string.  reply is what the step just taken sent back.            *)
(***************************************************************************)
EXTENDS Fault

CONSTANTS
  Currents, Voltages,  (* the integers the host may send *)
  Codes,               (* the mode codes the host may send *)
  NoField,
  MaxI, MaxV           (* HW_MAX_CURRENT and HW_MAX_VOLTAGE, 10000, 30000 *)

ASSUME LoadAssumption ==
  /\ Currents \subseteq Int
  /\ Voltages \subseteq Int
  /\ Codes \subseteq Int
  /\ NoField \notin Int
  /\ MaxI \in Nat /\ MaxV \in Nat

VARIABLES
  cc_target_current, cv_target_voltage,  (* what the regulators would follow *)
  stored_cc_target, stored_cv_target,    (* what command 101 left *)
  reply,
  autoRetries  (* history: FAULT left by the cooldown since the count was 0 *)

targets == <<cc_target_current, cv_target_voltage>>
stored  == <<stored_cc_target, stored_cv_target>>
loadVars == <<faultVars, targets, stored, reply, autoRetries>>

(* Replies: none, an acknowledgment, or an error code of protocol.h. *)
Silent == -1
Ok     == 0
ParseSyntax == 101
Missing == 201
OutOfRange == 202
BadMode == 203
UnknownCmd == 204
NotImplemented == 206
FaultActive == 303
Errors == {ParseSyntax, Missing, OutOfRange, BadMode, UnknownCmd,
           NotImplemented, FaultActive}

LoadInit ==
  /\ FaultInit
  /\ cc_target_current = 0 /\ cv_target_voltage = 0
  /\ stored_cc_target = 0 /\ stored_cv_target = 0
  /\ reply = Silent
  /\ autoRetries = 0
-----------------------------------------------------------------------------
EngageCC(i) == mode' = "CC" /\ cc_target_current' = i /\ UNCHANGED cv_target_voltage
EngageCV(v) == mode' = "CV" /\ cv_target_voltage' = v /\ UNCHANGED cc_target_current

(* What every command leaves alone: it runs in main, outside the handlers. *)
InMain ==
  /\ ~busy
  /\ UNCHANGED <<register, cooldown_counter, alarm, busy, autoRetries>>

(* The command ends without touching the mode or a target. *)
Answer(code) ==
  /\ reply' = code
  /\ UNCHANGED <<mode, targets, stored>>

(* A malformed frame, a 1xx frame for another chip, or an uplink response. *)
Ignore == InMain /\ Answer(Silent)

BadJson == InMain /\ Answer(ParseSyntax)

(* A command id other than 101, 102 and 200. *)
Unknown == InMain /\ Answer(UnknownCmd)

RefusedInFault == InMain /\ mode = "FAULT" /\ Answer(FaultActive)

(* Mutant: the target is stored before it is checked. *)
PowerSetCCStoresFirst(i) ==
  /\ InMain
  /\ mode = "CC"
  /\ \/ i = NoField /\ Answer(Missing)
     \/ /\ i # NoField
        /\ stored_cc_target' = i
        /\ UNCHANGED stored_cv_target
        /\ \/ i >= 0 /\ i <= MaxI /\ EngageCC(i) /\ reply' = Ok
           \/ /\ i < 0 \/ i > MaxI
              /\ UNCHANGED <<mode, targets>>
              /\ reply' = OutOfRange

(* Mutant: the target is engaged and not stored. *)
PowerSetCCForgets(i) ==
  /\ InMain
  /\ mode = "CC"
  /\ \/ i = NoField /\ Answer(Missing)
     \/ i # NoField /\ (i < 0 \/ i > MaxI) /\ Answer(OutOfRange)
     \/ /\ i # NoField /\ i >= 0 /\ i <= MaxI
        /\ EngageCC(i)
        /\ reply' = Ok
        /\ UNCHANGED stored

(* 101 in CC: I decides, V is ignored. *)
PowerSetCC(i) ==
  /\ InMain
  /\ mode = "CC"
  /\ \/ i = NoField /\ Answer(Missing)
     \/ i # NoField /\ (i < 0 \/ i > MaxI) /\ Answer(OutOfRange)
     \/ /\ i # NoField /\ i >= 0 /\ i <= MaxI
        /\ stored_cc_target' = i
        /\ EngageCC(i)
        /\ reply' = Ok
        /\ UNCHANGED stored_cv_target

(* Mutant: the voltage has no upper limit. *)
PowerSetCVUnbounded(v) ==
  /\ InMain
  /\ mode = "CV"
  /\ \/ v = NoField /\ Answer(Missing)
     \/ v # NoField /\ v < 0 /\ Answer(OutOfRange)
     \/ /\ v # NoField /\ v >= 0
        /\ stored_cv_target' = v
        /\ EngageCV(v)
        /\ reply' = Ok
        /\ UNCHANGED stored_cc_target

(* 101 in CV: V decides, I is ignored. *)
PowerSetCV(v) ==
  /\ InMain
  /\ mode = "CV"
  /\ \/ v = NoField /\ Answer(Missing)
     \/ v # NoField /\ (v < 0 \/ v > MaxV) /\ Answer(OutOfRange)
     \/ /\ v # NoField /\ v >= 0 /\ v <= MaxV
        /\ stored_cv_target' = v
        /\ EngageCV(v)
        /\ reply' = Ok
        /\ UNCHANGED stored_cc_target

(* Mutant: the gate on FAULT is gone and the last branch takes it. *)
PowerSetIdleUngated(i, v) ==
  /\ InMain
  /\ mode \in {"IDLE", "FAULT"}
  /\ stored_cc_target' = IF i # NoField THEN i ELSE stored_cc_target
  /\ stored_cv_target' = IF v # NoField THEN v ELSE stored_cv_target
  /\ \/ stored_cc_target' > 0 /\ EngageCC(stored_cc_target')
     \/ stored_cc_target' <= 0 /\ UNCHANGED <<mode, targets>>
  /\ reply' = Ok

(* 101 in IDLE: what is given is stored as it is, and a positive stored    *)
(* target engages at once, CC before CV.                                   *)
PowerSetIdle(i, v) ==
  /\ InMain
  /\ mode = "IDLE"
  /\ stored_cc_target' = IF i # NoField THEN i ELSE stored_cc_target
  /\ stored_cv_target' = IF v # NoField THEN v ELSE stored_cv_target
  /\ \/ stored_cc_target' > 0 /\ EngageCC(stored_cc_target')
     \/ /\ stored_cc_target' <= 0
        /\ stored_cv_target' > 0
        /\ EngageCV(stored_cv_target')
     \/ /\ stored_cc_target' <= 0 /\ stored_cv_target' <= 0
        /\ UNCHANGED <<mode, targets>>
  /\ reply' = Ok

ModeSet(code) ==
  /\ InMain
  /\ mode # "FAULT"
  /\ \/ code = NoField /\ Answer(Missing)
     \/ code = 11 /\ EngageCC(stored_cc_target) /\ reply' = Ok /\ UNCHANGED stored
     \/ code = 12 /\ EngageCV(stored_cv_target) /\ reply' = Ok /\ UNCHANGED stored
     \/ code \in {20, 21} /\ Answer(NotImplemented)
     \/ code \notin {NoField, 11, 12, 20, 21} /\ Answer(BadMode)

Command ==
  \/ Ignore
  \/ BadJson
  \/ Unknown
  \/ RefusedInFault
  \/ \E i \in Currents \union {NoField} : PowerSetCC(i)
  \/ \E v \in Voltages \union {NoField} : PowerSetCV(v)
  \/ \E i \in Currents \union {NoField}, v \in Voltages \union {NoField} :
       PowerSetIdle(i, v)
  \/ \E code \in Codes \union {NoField} : ModeSet(code)
-----------------------------------------------------------------------------
(* The retries taken on one count of faults: a step that zeroes the count  *)
(* begins them anew, whichever it is.                                      *)
Retried ==
  IF retry_count' = 0 THEN 0
  ELSE IF mode = "FAULT" /\ mode' = "IDLE" THEN autoRetries + 1
  ELSE autoRetries

(* The steps of fault.c, beside the variables of this module. *)
Protect ==
  /\ Alert \/ Handler \/ StateMachine \/ Clear
  /\ autoRetries' = Retried
  /\ reply' = Silent
  /\ UNCHANGED <<targets, stored>>

Reset ==
  /\ Reboot
  /\ cc_target_current' = 0 /\ cv_target_voltage' = 0
  /\ stored_cc_target' = 0 /\ stored_cv_target' = 0
  /\ reply' = Silent
  /\ autoRetries' = 0

LoadNext == Command \/ Protect \/ Reset

(* main reaches the end of a handler, and the state machine once per       *)
(* control cycle; nobody owes the load a command, an alarm or a clear.     *)
LoadSpec == LoadInit /\ [][LoadNext]_loadVars /\ FaultFairness
-----------------------------------------------------------------------------
(* Types, and where every counter stays. *)
LoadTypeOK ==
  /\ FaultTypeOK
  /\ cc_target_current \in Int /\ cv_target_voltage \in Int
  /\ stored_cc_target \in Int /\ stored_cv_target \in Int
  /\ reply \in Errors \union {Silent, Ok}
  /\ autoRetries \in Nat

(* The latch, the end of the auto-recovery and the count of faults agree,  *)
(* a latched load is in FAULT, and the cooldown only runs there: a fault   *)
(* always starts a full cooldown.                                          *)
LatchConsistent ==
  /\ latched <=> retry_count = MaxRetry
  /\ latched <=> ~auto_recovery
  /\ latched => mode = "FAULT"
  /\ mode = "FAULT" => retry_count > 0
  /\ mode # "FAULT" => cooldown_counter = 0

(* For as long as the count of faults is not zeroed, the load comes back   *)
(* by itself fewer than MaxRetry times (fault.h: "Maximum consecutive      *)
(* auto-retries before permanent latch"), whatever mix of over-current and *)
(* over-power faults, commands and alarms during a cooldown: none of these *)
(* earns it a retry.  In the code only fault_clear and a reset zero it:    *)
(* the "30-second fault-free retry counter reset" of fault.h:9 is nowhere, *)
(* so faults far apart add up; with it the bound would hold as well.       *)
BoundedRetries ==
  /\ autoRetries < MaxRetry
  /\ mode = "FAULT" => autoRetries < retry_count
  /\ autoRetries <= retry_count

(* The target of the engaged mode is the stored one, by whichever command  *)
(* it was engaged and in whichever mode it was stored: leaving the mode,   *)
(* by a fault or by 102, and engaging it again changes nothing.            *)
(* It does not say what an ok to command 101 means in IDLE: protocol.c:608 *)
(* has it stored "for later use by command 102", the branch engages it.    *)
ActiveTargetStored ==
  /\ mode = "CC" => cc_target_current = stored_cc_target
  /\ mode = "CV" => cv_target_voltage = stored_cv_target

(* Only command 101 in IDLE lets a target beyond the hardware limits in:   *)
(* once the stored targets and the engaged one are in range, no sequence   *)
(* of commands, faults and retries takes them out of it from another mode. *)
InRange ==
  /\ stored_cc_target \in 0..MaxI /\ stored_cv_target \in 0..MaxV
  /\ mode = "CC" => cc_target_current \in 0..MaxI
  /\ mode = "CV" => cv_target_voltage \in 0..MaxV

RangeChecked == [][ mode # "IDLE" /\ InRange => InRange' ]_loadVars

(* A command that answers an error has changed nothing (partial failure).  *)
NackMeansNoEffect ==
  [][ reply' \in Errors => UNCHANGED <<faultVars, targets, stored>> ]_loadVars

(* FAULT is left for IDLE only, by the end of the cooldown or with a clean *)
(* register; a latched load only with a clean register; and while FAULT    *)
(* lasts no command moves a target or a stored target.                     *)
FaultIsolation ==
  [][ /\ (mode = "FAULT" /\ mode' # "FAULT") =>
           /\ mode' = "IDLE" /\ cooldown_counter' = 0
           /\ CleanRegister' \/ (~latched /\ UNCHANGED register)
      /\ (mode = "FAULT" /\ mode' = "FAULT") => UNCHANGED <<targets, stored>>
      /\ (latched /\ ~latched') => CleanRegister' /\ mode' = "IDLE"
    ]_loadVars

(* A fault ends, by the retry or in the latch, however often alarms land. *)
FaultEnds == mode = "FAULT" ~> (mode # "FAULT" \/ latched)

(* The load implements the protection automaton. *)
Promise == INSTANCE Protection WITH
  MaxTrips <- MaxRetry,
  state    <- IF latched THEN "locked"
              ELSE IF mode = "FAULT" THEN "tripped" ELSE "running",
  trips    <- retry_count

ImplementsProtection == Promise!ProtectionSpec
=============================================================================
