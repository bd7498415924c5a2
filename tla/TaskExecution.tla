--------------------------- MODULE TaskExecution ---------------------------
(***************************************************************************)
(* What the asynchronous task queue promises its callers, with no queue,   *)
(* no workers and no locks: an operation handed to the agent is either     *)
(* taken on, and later executed or dropped with an error, or it is refused *)
(* and the caller may execute it itself.  It is never executed twice.      *)
(***************************************************************************)
CONSTANT Task

VARIABLE phase

Phase == {"new", "queued", "executing", "done"}

\* The caller's submission is taken on.
Accept(t) == phase[t] = "new" /\ phase' = [phase EXCEPT ![t] = "queued"]

\* A task that was taken on starts executing.
Begin(t) == phase[t] = "queued" /\ phase' = [phase EXCEPT ![t] = "executing"]

\* A task that was taken on fails without being executed.
Drop(t) == phase[t] = "queued" /\ phase' = [phase EXCEPT ![t] = "done"]

\* A refused operation is executed by its caller.
Direct(t) == phase[t] = "new" /\ phase' = [phase EXCEPT ![t] = "executing"]

Finish(t) == phase[t] = "executing" /\ phase' = [phase EXCEPT ![t] = "done"]

Init == phase = [t \in Task |-> "new"]

Next == \E t \in Task : Accept(t) \/ Begin(t) \/ Drop(t) \/ Direct(t) \/ Finish(t)

Spec == Init /\ [][Next]_phase
=============================================================================
