---------------------------- MODULE FaultHistory ----------------------------
(***************************************************************************)
(* The fault logic of module Fault alone, with whether an alarm has been   *)
(* raised that no handler was given.  The code keeps no such record; a     *)
(* comment of fault.h speaks of it.                                        *)
(***************************************************************************)
EXTENDS Fault

VARIABLES
  pending,  (* history: an alarm came after the last mask was taken *)
  overlap   (* history: since then an alarm landed inside a handler, or the *)
            (* over-power handler started over an alarm                     *)

historyVars == <<faultVars, pending, overlap>>

HistoryInit == FaultInit /\ pending = FALSE /\ overlap = FALSE

HistoryNext ==
  \/ Alert /\ pending' = TRUE /\ overlap' = (overlap \/ busy)
  \/ HandlerHw /\ pending' = FALSE /\ overlap' = FALSE
  \/ HandlerOpp /\ overlap' = (overlap \/ pending) /\ UNCHANGED pending
  \/ (HandlerDone \/ StateMachine \/ Clear) /\ UNCHANGED <<pending, overlap>>

HistorySpec == HistoryInit /\ [][HistoryNext]_historyVars
-----------------------------------------------------------------------------
(* fault.h: the hardware handler is called when the interrupt "has set     *)
(* fault_triggered".  A handler clears the flag last, over an alarm that   *)
(* landed while it ran, or over one the over-power handler never read.     *)
NoAlarmDropped == pending => fault_triggered

(* Those are the only two ways to lose an alarm: no clear, retry or latch, *)
(* and no handler that starts and ends between two alarms, drops one.      *)
DroppedByOverlap == pending /\ ~fault_triggered => overlap
=============================================================================
