---------------------------- MODULE Protection ----------------------------
(***************************************************************************)
(* What the protection of the load promises (Drivers/fault.h, decision     *)
(* D-01): a fault trips the load, a tripped load comes back by itself, but *)
(* the MaxTrips-th fault since the last release locks it and only an       *)
(* explicit release unlocks it.                                            *)
(***************************************************************************)
EXTENDS Integers

CONSTANT MaxTrips  (* MAX_RETRY_COUNT *)

VARIABLES
  state,  (* "running", "tripped" or "locked" *)
  trips   (* faults since the last release *)

protectionVars == <<state, trips>>

ProtectionInit == state = "running" /\ trips = 0

Trip ==
  /\ state # "locked"
  /\ trips' = trips + 1
  /\ state' = IF trips + 1 = MaxTrips THEN "locked" ELSE "tripped"

Recover ==
  /\ state = "tripped"
  /\ state' = "running"
  /\ UNCHANGED trips

(* An explicit clear, or a reset of the processor.  The reset of the count *)
(* after a time without faults, which fault.h promises and no code does,   *)
(* would be one too: that a load implements this module does not tell      *)
(* whether it has it.                                                      *)
Release == state' = "running" /\ trips' = 0

ProtectionNext == Trip \/ Recover \/ Release

ProtectionSafety == ProtectionInit /\ [][ProtectionNext]_protectionVars

(* A tripped load does not stay tripped for ever. *)
ProtectionSpec == ProtectionSafety /\ WF_protectionVars(Recover)
=============================================================================
