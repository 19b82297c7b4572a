-------------------------- MODULE MCTriggerSchedule --------------------------
(* Small instances of TriggerSchedule. *)
EXTENDS TriggerSchedule
=============================================================================
