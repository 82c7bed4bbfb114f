------------------------- MODULE LoadControlProofs -------------------------
(***************************************************************************)
(* Theorems about LoadControl for every latch threshold, cooldown, set of  *)
(* channels, hardware limit and set of values the host may send.  The      *)
(* inductive invariant is LoadInv: the latch and retry clauses only hold   *)
(* together, because BoundedRetries needs "not latched" to mean that the   *)
(* count is below MaxRetry.  The last section is about the alarms, which   *)
(* FaultHistory follows beside the same fault logic.                       *)
(***************************************************************************)
EXTENDS LoadControl, FaultHistory, TLAPS

FaultInv == LoadTypeOK /\ LatchConsistent /\ BoundedRetries
LoadInv  == FaultInv /\ ActiveTargetStored

(* What every command has in common: it leaves the fault logic alone and   *)
(* moves the mode, if at all, from outside FAULT to CC or CV, engaged with *)
(* the stored target.                                                      *)
CommandEffect ==
  /\ UNCHANGED <<register, cooldown_counter, alarm, busy, autoRetries>>
  /\ reply' \in Errors \union {Silent, Ok}
  /\ \/ reply' # Ok /\ UNCHANGED <<mode, targets, stored>>
     \/ /\ mode # "FAULT"
        /\ reply' = Ok
        /\ cc_target_current' \in Int /\ cv_target_voltage' \in Int
        /\ stored_cc_target' \in Int /\ stored_cv_target' \in Int
        /\ \/ mode' = "CC" /\ cc_target_current' = stored_cc_target'
           \/ mode' = "CV" /\ cv_target_voltage' = stored_cv_target'
           \/ mode' = "IDLE" /\ mode = "IDLE"

LEMMA AnswerEffect ==
  ASSUME InMain, NEW code \in Errors \union {Silent}, Answer(code)
  PROVE  CommandEffect
BY DEF InMain, Answer, CommandEffect, Errors, Silent, Ok, ParseSyntax, Missing,
       OutOfRange, BadMode, UnknownCmd, NotImplemented, FaultActive

(* Every command has that effect. *)
LEMMA CommandStep ==
  ASSUME LoadTypeOK, Command
  PROVE  CommandEffect
<1> USE DEF Errors, Silent, Ok, ParseSyntax, Missing, OutOfRange, BadMode,
            UnknownCmd, NotImplemented, FaultActive
<1>1. CASE Ignore
  BY <1>1, AnswerEffect DEF Ignore
<1>2. CASE BadJson
  BY <1>2, AnswerEffect DEF BadJson
<1>3. CASE Unknown
  BY <1>3, AnswerEffect DEF Unknown
<1>4. CASE RefusedInFault
  BY <1>4, AnswerEffect DEF RefusedInFault
<1>5. ASSUME NEW i \in Currents \union {NoField}, PowerSetCC(i)
      PROVE  CommandEffect
  <2>1. InMain /\ mode = "CC"
    BY <1>5 DEF PowerSetCC
  <2>2. CASE Answer(Missing)
    BY <2>1, <2>2, AnswerEffect
  <2>3. CASE Answer(OutOfRange)
    BY <2>1, <2>3, AnswerEffect
  <2>4. CASE /\ i # NoField /\ i >= 0 /\ i <= MaxI
             /\ stored_cc_target' = i
             /\ EngageCC(i)
             /\ reply' = Ok
             /\ UNCHANGED stored_cv_target
    BY <2>1, <2>4, LoadAssumption
       DEF CommandEffect, InMain, EngageCC, LoadTypeOK
  <2> QED
    BY <1>5, <2>2, <2>3, <2>4 DEF PowerSetCC
<1>6. ASSUME NEW v \in Voltages \union {NoField}, PowerSetCV(v)
      PROVE  CommandEffect
  <2>1. InMain /\ mode = "CV"
    BY <1>6 DEF PowerSetCV
  <2>2. CASE Answer(Missing)
    BY <2>1, <2>2, AnswerEffect
  <2>3. CASE Answer(OutOfRange)
    BY <2>1, <2>3, AnswerEffect
  <2>4. CASE /\ v # NoField /\ v >= 0 /\ v <= MaxV
             /\ stored_cv_target' = v
             /\ EngageCV(v)
             /\ reply' = Ok
             /\ UNCHANGED stored_cc_target
    BY <2>1, <2>4, LoadAssumption
       DEF CommandEffect, InMain, EngageCV, LoadTypeOK
  <2> QED
    BY <1>6, <2>2, <2>3, <2>4 DEF PowerSetCV
<1>7. ASSUME NEW i \in Currents \union {NoField},
             NEW v \in Voltages \union {NoField}, PowerSetIdle(i, v)
      PROVE  CommandEffect
  <2>1. stored_cc_target' \in Int /\ stored_cv_target' \in Int
    BY <1>7, LoadAssumption DEF PowerSetIdle, LoadTypeOK
  <2> QED
    BY <1>7, <2>1
       DEF PowerSetIdle, CommandEffect, InMain, EngageCC, EngageCV, LoadTypeOK,
           targets
<1>8. ASSUME NEW code \in Codes \union {NoField}, ModeSet(code)
      PROVE  CommandEffect
  <2>1. InMain /\ mode # "FAULT"
    BY <1>8 DEF ModeSet
  <2>2. CASE Answer(Missing) \/ Answer(NotImplemented) \/ Answer(BadMode)
    BY <2>1, <2>2, AnswerEffect
  <2>3. CASE EngageCC(stored_cc_target) /\ reply' = Ok /\ UNCHANGED stored
    BY <2>1, <2>3 DEF CommandEffect, InMain, EngageCC, LoadTypeOK, stored
  <2>4. CASE EngageCV(stored_cv_target) /\ reply' = Ok /\ UNCHANGED stored
    BY <2>1, <2>4 DEF CommandEffect, InMain, EngageCV, LoadTypeOK, stored
  <2> QED
    BY <1>8, <2>2, <2>3, <2>4 DEF ModeSet
<1> QED
  BY <1>1, <1>2, <1>3, <1>4, <1>5, <1>6, <1>7, <1>8 DEF Command
-----------------------------------------------------------------------------
(* The boot state is well-typed. *)
LEMMA FaultInitType == FaultInit => FaultTypeOK
<1> USE DEF FaultInit, CleanRegister
<1>1. FaultInit => mode \in Modes
  BY DEF Modes
<1>2. FaultInit => /\ overcurrent_mask \subseteq MosChannels
                   /\ fault_source_mask \subseteq Channels
                   /\ fault_type \in {"OC", "OPP", "BOTH"}
  OBVIOUS
<1>3. FaultInit => /\ retry_count \in 0..MaxRetry
                   /\ cooldown_counter \in 0..CooldownCycles - 1
  BY FaultAssumption
<1>4. FaultInit => /\ latched \in BOOLEAN /\ auto_recovery \in BOOLEAN
                   /\ fault_triggered \in BOOLEAN /\ busy \in BOOLEAN
  OBVIOUS
<1> QED
  BY <1>1, <1>2, <1>3, <1>4 DEF FaultTypeOK

(* The invariant holds initially and every step keeps it. *)
LEMMA LoadInitInv == LoadInit => LoadInv
<1>1. LoadInit => /\ cc_target_current \in Int /\ cv_target_voltage \in Int
                  /\ stored_cc_target \in Int /\ stored_cv_target \in Int
                  /\ autoRetries \in Nat
                  /\ reply \in Errors \union {Silent, Ok}
  BY DEF LoadInit
<1>2. LoadInit => LoadTypeOK
  BY <1>1, FaultInitType DEF LoadInit, LoadTypeOK
<1>3. LoadInit => LatchConsistent /\ BoundedRetries
  BY FaultAssumption
     DEF LoadInit, FaultInit, CleanRegister, LatchConsistent, BoundedRetries
<1>4. LoadInit => ActiveTargetStored
  BY DEF LoadInit, FaultInit, ActiveTargetStored
<1> QED
  BY <1>2, <1>3, <1>4 DEF LoadInv, FaultInv

(* Clean leaves the register well-typed. *)
LEMMA CleanType ==
  ASSUME Clean
  PROVE  /\ mode' \in Modes
         /\ overcurrent_mask' \subseteq MosChannels
         /\ fault_type' \in {"OC", "OPP", "BOTH"}
         /\ retry_count' \in 0..MaxRetry
         /\ latched' \in BOOLEAN /\ auto_recovery' \in BOOLEAN
         /\ cooldown_counter' \in 0..CooldownCycles - 1
<1> USE DEF Clean
<1>1. mode' \in Modes
  BY DEF Modes
<1>2. /\ overcurrent_mask' \subseteq MosChannels
      /\ fault_type' \in {"OC", "OPP", "BOTH"}
  OBVIOUS
<1>3. latched' \in BOOLEAN /\ auto_recovery' \in BOOLEAN
  OBVIOUS
<1>4. retry_count' \in 0..MaxRetry /\ cooldown_counter' \in 0..CooldownCycles - 1
  BY FaultAssumption
<1> QED
  BY <1>1, <1>2, <1>3, <1>4

(* CountFault adds a fault unless the latch is already there. *)
LEMMA CountFaultStep ==
  ASSUME FaultInv, CountFault
  PROVE  /\ retry_count' \in 0..MaxRetry /\ retry_count' > 0
         /\ latched' \in BOOLEAN /\ auto_recovery' \in BOOLEAN
         /\ latched' <=> retry_count' = MaxRetry
         /\ latched' <=> ~auto_recovery'
         /\ IF latched THEN retry_count' = retry_count
                       ELSE retry_count' = retry_count + 1
BY FaultAssumption
   DEF FaultInv, LoadTypeOK, FaultTypeOK, LatchConsistent, CountFault

LEMMA CommandKeepsInv ==
  ASSUME LoadInv, Command
  PROVE  LoadInv'
<1>1. CommandEffect
  BY CommandStep DEF LoadInv, FaultInv
<1>2. /\ mode' \in Modes /\ (mode' = "FAULT" <=> mode = "FAULT")
      /\ UNCHANGED <<overcurrent_mask, fault_type, retry_count, latched,
                     auto_recovery, cooldown_counter, fault_triggered,
                     fault_source_mask, busy, autoRetries>>
  BY <1>1 DEF CommandEffect, LoadInv, FaultInv, LoadTypeOK, FaultTypeOK, Modes,
              register, alarm
<1>3. LoadTypeOK'
  BY <1>1, <1>2 DEF CommandEffect, LoadInv, FaultInv, LoadTypeOK, FaultTypeOK,
                    targets, stored
<1>4. LatchConsistent' /\ BoundedRetries'
  BY <1>2 DEF LoadInv, FaultInv, LatchConsistent, BoundedRetries
<1>5. ActiveTargetStored'
  BY <1>1 DEF CommandEffect, LoadInv, ActiveTargetStored, targets, stored
<1> QED
  BY <1>3, <1>4, <1>5 DEF LoadInv, FaultInv

LEMMA ProtectKeepsInv ==
  ASSUME LoadInv, Protect
  PROVE  LoadInv'
<1> USE FaultAssumption
<1>1. /\ reply' = Silent
      /\ UNCHANGED <<cc_target_current, cv_target_voltage,
                     stored_cc_target, stored_cv_target>>
  BY DEF Protect, targets, stored
<1>2. mode' = mode \/ mode' \in {"IDLE", "FAULT"}
  BY DEF Protect, Alert, Handler, HandlerHw, HandlerOpp, HandlerDone,
         StateMachine, Clear, Clean
<1>3. ActiveTargetStored'
  BY <1>1, <1>2 DEF LoadInv, ActiveTargetStored
<1> USE DEF LoadInv, FaultInv
<1>4. /\ autoRetries' \in Nat
      /\ retry_count' = 0 => autoRetries' = 0
      /\ retry_count' # 0 =>
           autoRetries' = IF mode = "FAULT" /\ mode' = "IDLE" THEN autoRetries + 1
                          ELSE autoRetries
  BY DEF Protect, Retried, LoadTypeOK
<1>5. CASE Alert
  BY <1>1, <1>3, <1>5, <1>4
     DEF Alert, register, LoadTypeOK, FaultTypeOK, LatchConsistent, BoundedRetries
<1>6. CASE Handler
  <2>1. CASE HandlerDone
    <3>1. LoadTypeOK'
      BY <1>1, <1>4, <2>1 DEF HandlerDone, register, LoadTypeOK, FaultTypeOK
    <3>2. LatchConsistent' /\ BoundedRetries'
      BY <1>4, <2>1
         DEF HandlerDone, register, LatchConsistent, BoundedRetries, LoadTypeOK,
             FaultTypeOK
    <3> QED
      BY <1>3, <3>1, <3>2
  <2>2. CASE HandlerHw \/ HandlerOpp
    <3>1. CountFault /\ mode' = "FAULT" /\ busy' = TRUE
      BY <2>2 DEF HandlerHw, HandlerOpp
    <3>2. UNCHANGED <<cooldown_counter, fault_triggered, fault_source_mask>>
      BY <2>2 DEF HandlerHw, HandlerOpp, alarm
    <3>3. LoadTypeOK'
      <4>1. overcurrent_mask' \subseteq MosChannels
        BY <2>2 DEF HandlerHw, HandlerOpp, LoadTypeOK, FaultTypeOK
      <4>2. fault_type' \in {"OC", "OPP", "BOTH"}
        BY <2>2 DEF HandlerHw, HandlerOpp, LoadTypeOK, FaultTypeOK
      <4> QED
        BY <1>1, <1>4, <3>1, <3>2, <4>1, <4>2, CountFaultStep
           DEF LoadTypeOK, FaultTypeOK, Modes
    <3>4. LatchConsistent'
      BY <3>1, CountFaultStep DEF LatchConsistent
    <3>5. BoundedRetries'
      BY <1>4, <3>1, CountFaultStep
         DEF BoundedRetries, LatchConsistent, LoadTypeOK, FaultTypeOK
    <3> QED
      BY <1>3, <3>3, <3>4, <3>5
  <2> QED
    BY <1>6, <2>1, <2>2 DEF Handler
<1>7. CASE StateMachine
  <2>1. LoadTypeOK'
    BY <1>1, <1>7, <1>4 DEF StateMachine, register, alarm, LoadTypeOK, FaultTypeOK, Modes
  <2>2. LatchConsistent'
    BY <1>7 DEF StateMachine, register, LatchConsistent, LoadTypeOK, FaultTypeOK
  <2>3. BoundedRetries'
    BY <1>7, <1>4 DEF StateMachine, register, LatchConsistent, BoundedRetries,
                LoadTypeOK, FaultTypeOK
  <2> QED
    BY <1>3, <2>1, <2>2, <2>3
<1>8. CASE Clear
  <2>1. LoadTypeOK'
    <3>1. UNCHANGED <<fault_triggered, fault_source_mask, busy>>
      BY <1>8 DEF Clear, alarm
    <3>2. autoRetries' \in Nat
      BY <1>4
    <3> QED
      BY <1>1, <1>8, <3>1, <3>2, CleanType DEF Clear, LoadTypeOK, FaultTypeOK
  <2>2. LatchConsistent' /\ BoundedRetries'
    BY <1>8, <1>4 DEF Clear, Clean, LatchConsistent, BoundedRetries
  <2> QED
    BY <1>3, <2>1, <2>2
<1> QED
  BY <1>5, <1>6, <1>7, <1>8 DEF Protect

LEMMA ResetKeepsInv ==
  ASSUME LoadInv, Reset
  PROVE  LoadInv'
<1> USE DEF Reset, Reboot, Clean, Modes
<1>1. LoadTypeOK'
  <2>1. FaultTypeOK'
    BY CleanType DEF FaultTypeOK
  <2>2. /\ cc_target_current' \in Int /\ cv_target_voltage' \in Int
        /\ stored_cc_target' \in Int /\ stored_cv_target' \in Int
        /\ reply' \in Errors \union {Silent, Ok}
        /\ autoRetries' \in Nat
    OBVIOUS
  <2> QED
    BY <2>1, <2>2 DEF LoadTypeOK
<1>2. LatchConsistent' /\ BoundedRetries'
  BY FaultAssumption DEF LatchConsistent, BoundedRetries
<1>3. ActiveTargetStored'
  BY DEF ActiveTargetStored
<1> QED
  BY <1>1, <1>2, <1>3 DEF LoadInv, FaultInv

(* The inductive invariant holds in every reachable state. *)
THEOREM LoadInvariant == LoadSpec => []LoadInv
<1>1. LoadInv /\ [LoadNext]_loadVars => LoadInv'
  <2> SUFFICES ASSUME LoadInv, [LoadNext]_loadVars PROVE LoadInv'
    OBVIOUS
  <2>1. CASE UNCHANGED loadVars
    BY <2>1
       DEF loadVars, faultVars, register, alarm, targets, stored, LoadInv,
           FaultInv, LoadTypeOK, FaultTypeOK, LatchConsistent, BoundedRetries,
           ActiveTargetStored
  <2> QED
    BY <2>1, CommandKeepsInv, ProtectKeepsInv, ResetKeepsInv DEF LoadNext
<1> QED
  BY <1>1, LoadInitInv, PTL DEF LoadSpec
-----------------------------------------------------------------------------
(* Every counter stays in its range: the retry count never exceeds the     *)
(* threshold, the cooldown never reaches its length.                       *)
THEOREM LoadTypeCorrect == LoadSpec => []LoadTypeOK
<1>1. LoadInv => LoadTypeOK
  BY DEF LoadInv, FaultInv
<1> QED
  BY <1>1, LoadInvariant, PTL

(* The latch is consistent with the count and only ever holds in FAULT. *)
THEOREM LatchIsConsistent == LoadSpec => []LatchConsistent
<1>1. LoadInv => LatchConsistent
  BY DEF LoadInv, FaultInv
<1> QED
  BY <1>1, LoadInvariant, PTL

(* On one count of faults the load retries fewer than MaxRetry times. *)
THEOREM RetriesAreBounded == LoadSpec => []BoundedRetries
<1>1. LoadInv => BoundedRetries
  BY DEF LoadInv, FaultInv
<1> QED
  BY <1>1, LoadInvariant, PTL

(* The engaged target is the stored one. *)
THEOREM TargetsAreStored == LoadSpec => []ActiveTargetStored
<1>1. LoadInv => ActiveTargetStored
  BY DEF LoadInv
<1> QED
  BY <1>1, LoadInvariant, PTL

(* A command that answers an error has changed nothing. *)
THEOREM NackHasNoEffect == LoadSpec => NackMeansNoEffect
<1> DEFINE Nack == reply' \in Errors => UNCHANGED <<faultVars, targets, stored>>
<1>1. ASSUME LoadInv, [LoadNext]_loadVars
      PROVE  [Nack]_loadVars
  <2>1. CASE Command
    <3>1. CommandEffect
      BY <1>1, <2>1, CommandStep DEF LoadInv, FaultInv
    <3>2. Ok \notin Errors
      BY DEF Errors, Ok, ParseSyntax, Missing, OutOfRange, BadMode, UnknownCmd,
             NotImplemented, FaultActive
    <3> QED
      BY <3>1, <3>2 DEF CommandEffect, faultVars, register, alarm
  <2>2. CASE Protect \/ Reset
    <3>1. reply' = Silent
      BY <2>2 DEF Protect, Reset
    <3>2. Silent \notin Errors
      BY DEF Errors, Silent, ParseSyntax, Missing, OutOfRange, BadMode,
             UnknownCmd, NotImplemented, FaultActive
    <3> QED
      BY <3>1, <3>2
  <2>3. CASE UNCHANGED loadVars
    BY <2>3
  <2> QED
    BY <1>1, <2>1, <2>2, <2>3 DEF LoadNext
<1>2. []LoadInv /\ [][LoadNext]_loadVars => [][Nack]_loadVars
  BY <1>1, PTL
<1> QED
  BY <1>2, LoadInvariant, PTL DEF LoadSpec, NackMeansNoEffect
-----------------------------------------------------------------------------
(* Outside IDLE no step takes a target out of the hardware range: command  *)
(* 101 checks in CC and CV, command 102 engages what is stored, and the    *)
(* fault logic moves no target.                                            *)
THEOREM RangesAreKept == LoadSpec => RangeChecked
<1> DEFINE Kept == mode # "IDLE" /\ InRange => InRange'
<1>1. ASSUME LoadInv, [LoadNext]_loadVars, mode # "IDLE", InRange
      PROVE  InRange'
  <2> USE <1>1 DEF InRange
  <2>1. ASSUME reply' # Ok, Command PROVE InRange'
    BY <2>1, CommandStep DEF CommandEffect, LoadInv, FaultInv, targets, stored
  <2>2. ASSUME NEW i \in Currents \union {NoField}, PowerSetCC(i) PROVE InRange'
    <3>1. CASE reply' # Ok
      BY <2>1, <2>2, <3>1 DEF Command
    <3>2. CASE reply' = Ok
      <4>1. /\ i \in Int /\ i >= 0 /\ i <= MaxI /\ stored_cc_target' = i
            /\ EngageCC(i) /\ UNCHANGED stored_cv_target
        BY <2>2, <3>2, LoadAssumption
           DEF PowerSetCC, Answer, Ok, Missing, OutOfRange
      <4> QED
        BY <4>1 DEF EngageCC
    <3> QED
      BY <3>1, <3>2
  <2>3. ASSUME NEW v \in Voltages \union {NoField}, PowerSetCV(v) PROVE InRange'
    <3>1. CASE reply' # Ok
      BY <2>1, <2>3, <3>1 DEF Command
    <3>2. CASE reply' = Ok
      <4>1. /\ v \in Int /\ v >= 0 /\ v <= MaxV /\ stored_cv_target' = v
            /\ EngageCV(v) /\ UNCHANGED stored_cc_target
        BY <2>3, <3>2, LoadAssumption
           DEF PowerSetCV, Answer, Ok, Missing, OutOfRange
      <4> QED
        BY <4>1 DEF EngageCV
    <3> QED
      BY <3>1, <3>2
  <2>4. ASSUME NEW code \in Codes \union {NoField}, ModeSet(code) PROVE InRange'
    BY <2>4 DEF ModeSet, Answer, EngageCC, EngageCV, targets, stored
  <2>5. CASE Ignore \/ BadJson \/ Unknown \/ RefusedInFault
    BY <2>5 DEF Ignore, BadJson, Unknown, RefusedInFault, Answer, targets, stored
  <2>6. CASE \E i \in Currents \union {NoField}, v \in Voltages \union {NoField} :
               PowerSetIdle(i, v)
    BY <2>6 DEF PowerSetIdle
  <2>7. CASE Protect
    <3>1. mode' = mode \/ mode' \in {"IDLE", "FAULT"}
      BY <2>7 DEF Protect, Alert, Handler, HandlerHw, HandlerOpp, HandlerDone,
                  StateMachine, Clear, Clean
    <3> QED
      BY <2>7, <3>1 DEF Protect, targets, stored
  <2>8. CASE Reset
    BY <2>8, LoadAssumption DEF Reset, Reboot, Clean
  <2>9. CASE UNCHANGED loadVars
    BY <2>9 DEF loadVars, faultVars, targets, stored
  <2> QED
    BY <2>2, <2>3, <2>4, <2>5, <2>6, <2>7, <2>8, <2>9 DEF LoadNext, Command
<1>2. ASSUME LoadInv, [LoadNext]_loadVars PROVE [Kept]_loadVars
  BY <1>1, <1>2
<1>3. []LoadInv /\ [][LoadNext]_loadVars => [][Kept]_loadVars
  BY <1>2, PTL
<1> QED
  BY <1>3, LoadInvariant, PTL DEF LoadSpec, RangeChecked
-----------------------------------------------------------------------------
(* A load in FAULT is out of the reach of commands, and leaves FAULT, or   *)
(* the latch, only by the doors fault.c opens.                             *)
THEOREM FaultIsIsolated == LoadSpec => FaultIsolation
<1> DEFINE Isolated ==
      /\ (mode = "FAULT" /\ mode' # "FAULT") =>
           /\ mode' = "IDLE" /\ cooldown_counter' = 0
           /\ CleanRegister' \/ (~latched /\ UNCHANGED register)
      /\ (mode = "FAULT" /\ mode' = "FAULT") => UNCHANGED <<targets, stored>>
      /\ (latched /\ ~latched') => CleanRegister' /\ mode' = "IDLE"
<1>1. ASSUME LoadInv, [LoadNext]_loadVars
      PROVE  [Isolated]_loadVars
  <2>1. CASE Command
    BY <1>1, <2>1, CommandStep
       DEF CommandEffect, LoadInv, FaultInv, LatchConsistent, register
  <2>2. CASE Clear \/ Reset
    BY <2>2 DEF Clear, Reset, Reboot, Clean, CleanRegister
  <2>3. CASE Protect /\ StateMachine
    BY <2>3 DEF Protect, StateMachine, register
  <2>4. CASE Protect /\ (Alert \/ HandlerDone)
    BY <2>4 DEF Protect, Alert, HandlerDone, register
  <2>5. CASE Protect /\ (HandlerHw \/ HandlerOpp)
    <3>1. mode' = "FAULT" /\ CountFault /\ UNCHANGED <<targets, stored>>
      BY <2>5 DEF Protect, HandlerHw, HandlerOpp
    <3>2. latched => latched'
      BY <3>1, <1>1, CountFaultStep DEF LoadInv, CountFault
    <3> QED
      BY <3>1, <3>2
  <2>6. CASE UNCHANGED loadVars
    BY <2>6
  <2> QED
    BY <1>1, <2>1, <2>2, <2>3, <2>4, <2>5, <2>6 DEF LoadNext, Protect, Handler
<1>2. []LoadInv /\ [][LoadNext]_loadVars => [][Isolated]_loadVars
  BY <1>1, PTL
<1> QED
  BY <1>2, LoadInvariant, PTL DEF LoadSpec, FaultIsolation

(* Every step of the load is a step of the protection automaton or leaves  *)
(* it unchanged.                                                           *)
THEOREM LoadImplementsProtection == LoadSpec => Promise!ProtectionSafety
<1> DEFINE stateOf == IF latched THEN "locked"
                      ELSE IF mode = "FAULT" THEN "tripped" ELSE "running"
<1>1. LoadInit => Promise!ProtectionInit
  BY DEF LoadInit, FaultInit, CleanRegister, Promise!ProtectionInit
<1>2. ASSUME LoadInv, [LoadNext]_loadVars
      PROVE  [Promise!ProtectionNext]_(Promise!protectionVars)
  <2> USE DEF Promise!ProtectionNext, Promise!protectionVars
  <2>1. CASE Command
    <3>1. /\ UNCHANGED <<latched, retry_count>>
          /\ mode' = "FAULT" <=> mode = "FAULT"
      BY <1>2, <2>1, CommandStep
         DEF CommandEffect, LoadInv, FaultInv, register
    <3> QED
      BY <3>1
  <2>2. CASE Clear \/ Reset
    BY <2>2 DEF Clear, Reset, Reboot, Clean, Promise!Release
  <2>3. CASE StateMachine
    BY <2>3 DEF StateMachine, register, Promise!Recover
  <2>4. CASE Alert \/ HandlerDone
    BY <2>4 DEF Alert, HandlerDone, register
  <2>5. CASE HandlerHw \/ HandlerOpp
    <3>1. mode' = "FAULT" /\ CountFault
      BY <2>5 DEF HandlerHw, HandlerOpp
    <3>2. CASE latched
      BY <1>2, <3>1, <3>2, CountFaultStep DEF LoadInv, FaultInv, LatchConsistent
    <3>3. CASE ~latched
      BY <1>2, <3>1, <3>3, CountFaultStep DEF LoadInv, Promise!Trip
    <3> QED
      BY <3>2, <3>3
  <2>6. CASE UNCHANGED loadVars
    BY <2>6 DEF loadVars, faultVars, register
  <2> QED
    BY <1>2, <2>1, <2>2, <2>3, <2>4, <2>5, <2>6 DEF LoadNext, Protect, Handler
<1> QED
  BY <1>1, <1>2, LoadInvariant, PTL DEF LoadSpec, Promise!ProtectionSafety
-----------------------------------------------------------------------------
(* Why FaultEnds holds, without the fairness: in FAULT each pass of the    *)
(* state machine takes the cooldown a cycle further or ends the fault, and *)
(* no alarm, handler or command ever takes a cycle back, so at most        *)
(* CooldownCycles passes end a fault that is not latched.                  *)
CooldownRuns ==
  [][ mode = "FAULT" =>
        \/ mode' = "IDLE" /\ cooldown_counter' = 0
        \/ /\ mode' = "FAULT"
           /\ IF StateMachine THEN cooldown_counter' = cooldown_counter + 1
              ELSE UNCHANGED cooldown_counter
    ]_loadVars

THEOREM CooldownNeverRestarts == LoadSpec => CooldownRuns
<1> DEFINE Runs == mode = "FAULT" =>
        \/ mode' = "IDLE" /\ cooldown_counter' = 0
        \/ /\ mode' = "FAULT"
           /\ IF StateMachine THEN cooldown_counter' = cooldown_counter + 1
              ELSE UNCHANGED cooldown_counter
<1>1. ASSUME LoadInv, [LoadNext]_loadVars
      PROVE  [Runs]_loadVars
  <2> USE DEF StateMachine
  <2>1. CASE StateMachine
    BY <2>1
  <2>2. CASE Command /\ ~StateMachine
    BY <1>1, <2>2, CommandStep DEF CommandEffect, LoadInv, FaultInv
  <2>3. CASE Clear \/ Reset
    BY <2>3 DEF Clear, Reset, Reboot, Clean
  <2>4. CASE (Alert \/ Handler) /\ ~StateMachine
    BY <2>4 DEF Alert, Handler, HandlerHw, HandlerOpp, HandlerDone
  <2>5. CASE UNCHANGED loadVars
    BY <2>5
  <2> QED
    BY <1>1, <2>1, <2>2, <2>3, <2>4, <2>5 DEF LoadNext, Protect
<1>2. []LoadInv /\ [][LoadNext]_loadVars => [][Runs]_loadVars
  BY <1>1, PTL
<1> QED
  BY <1>2, LoadInvariant, PTL DEF LoadSpec, CooldownRuns
-----------------------------------------------------------------------------
(* The alarms.  An alarm that overlapped with no handler still has the     *)
(* flag that calls the hardware handler, and no handler is running that    *)
(* could clear it.                                                         *)
AlarmInv == pending /\ ~overlap => fault_triggered /\ ~busy

(* fault.h says the handler is called when the interrupt has set the flag; *)
(* the run fault_alarm shows that an alarm may be lost.  It can be lost in *)
(* two ways only: it lands inside a handler, or the over-power handler     *)
(* starts before the hardware handler was called for it.                   *)
THEOREM AlarmsDropByOverlapOnly == HistorySpec => []DroppedByOverlap
<1>1. HistoryInit => AlarmInv
  BY DEF HistoryInit, AlarmInv
<1>2. AlarmInv /\ [HistoryNext]_historyVars => AlarmInv'
  <2> SUFFICES ASSUME AlarmInv, [HistoryNext]_historyVars PROVE AlarmInv'
    OBVIOUS
  <2> USE DEF AlarmInv
  <2>1. CASE Alert /\ pending' = TRUE /\ overlap' = (overlap \/ busy)
    BY <2>1 DEF Alert
  <2>2. CASE HandlerHw /\ pending' = FALSE /\ overlap' = FALSE
    BY <2>2
  <2>3. CASE HandlerOpp /\ overlap' = (overlap \/ pending) /\ UNCHANGED pending
    BY <2>3
  <2>4. CASE HandlerDone /\ UNCHANGED <<pending, overlap>>
    BY <2>4 DEF HandlerDone
  <2>5. CASE (StateMachine \/ Clear) /\ UNCHANGED <<pending, overlap>>
    BY <2>5 DEF StateMachine, Clear, alarm
  <2>6. CASE UNCHANGED historyVars
    BY <2>6 DEF historyVars, faultVars, alarm
  <2> QED
    BY <2>1, <2>2, <2>3, <2>4, <2>5, <2>6 DEF HistoryNext
<1>3. AlarmInv => DroppedByOverlap
  BY DEF AlarmInv, DroppedByOverlap
<1> QED
  BY <1>1, <1>2, <1>3, PTL DEF HistorySpec
=============================================================================
