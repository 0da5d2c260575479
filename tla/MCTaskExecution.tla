-------------------------- MODULE MCTaskExecution --------------------------
(* Model checking instances of TaskExecution. *)
EXTENDS TaskExecution

\* One count that fits the wire format's int32_t and one that does not.
MCCounts == {1, 2}
=============================================================================
