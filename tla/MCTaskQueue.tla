---------------------------- MODULE MCTaskQueue ----------------------------
(* Small instances of TaskQueue. *)
EXTENDS TaskQueue

CONSTANTS t1, t2, t3, t4

\* Three tasks with IDs of their own, one of a type nobody handles, and a fourth
\* with the empty ID.
MCIdOf == [t \in Task |-> IF t = t4 THEN EmptyId ELSE t]
MCTaskId == Task \cup {EmptyId}
MCTaskType == {"apply", "reconcile"}
MCTypeOf == [t \in Task |-> IF t = t3 THEN "reconcile" ELSE "apply"]
=============================================================================
