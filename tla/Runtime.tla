------------------------------ MODULE Runtime ------------------------------
(***************************************************************************)
(* The runtime interface (internal/runtime/runtime.go) as the container    *)
(* runtime implements it (internal/runtime/docker.go).  Each operator      *)
(* gives the outcomes a call may have on the resource r that bears the     *)
(* workload's ID: whether it returns an error, and what it leaves behind.  *)
(*                                                                         *)
(* A resource is the revision in its label and the state Status would      *)
(* report for it.  A created container and one that exited with code 0     *)
(* both report "Stopped"; one that exited otherwise reports "Failed".      *)
(***************************************************************************)
CONSTANTS
  Rev,            \* revision IDs
  None,           \* the absence of a resource or of a record
  RuntimeFaults   \* the calls that may fail: a subset of the names below

ASSUME FaultsAssumption ==
  RuntimeFaults \subseteq {"create", "start", "stop", "delete", "status", "list"}

ResourceState == {"Running", "Stopped", "Pending", "Failed"}

\* bound: it was created with the mounts of its managed volumes.
Resource == [rev : Rev, state : ResourceState, bound : BOOLEAN]

Outcome(ok, r) == [ok |-> ok, res |-> r]

Faulty(call, outcomes) == IF call \in RuntimeFaults THEN outcomes ELSE {}

\* Status: the reported state, or "Missing" for the "not found" answer, which is
\* not an error.
StatusOutcomes(r) ==
  {IF r = None THEN "Missing" ELSE r.state} \cup Faulty("status", {"error"})

\* The image is pulled first, and a pull that fails changes nothing.
pullImageWithRetry(r) == Faulty("create", {Outcome(FALSE, r)})

\* A container of the same revision is reused as it is, and one of another
\* revision removed.  (Names taken by foreign containers are left out.)
ensureContainerReadyForCreate(r, w) == IF r # None /\ r.rev = w.rev THEN r ELSE None

\* A bind source that does not exist is one of the ways to fail.
CreateOutcomes(r, w) ==
  LET left == ensureContainerReadyForCreate(r, w)
  IN  pullImageWithRetry(r) \cup
      IF left # None
      THEN {Outcome(TRUE, left)}
      ELSE {Outcome(TRUE, [rev |-> w.rev, state |-> "Stopped", bound |-> w.bound])}
             \cup Faulty("create", {Outcome(FALSE, None)})

\* A start that fails may leave a non-zero exit code behind.
StartOutcomes(r) ==
  IF r = None
  THEN {Outcome(FALSE, None)}
  ELSE {Outcome(TRUE, [r EXCEPT !.state = "Running"])}
         \cup Faulty("start", {Outcome(FALSE, r)})
         \cup Faulty("start", IF r.state = "Running" THEN {}
                              ELSE {Outcome(FALSE, [r EXCEPT !.state = "Failed"])})

\* Stopping a process usually makes it exit with a non-zero code.
Halted(r) ==
  IF r.state \in {"Running", "Pending"}
  THEN {[r EXCEPT !.state = s] : s \in {"Stopped", "Failed"}}
  ELSE {r}

StopOutcomes(r) ==
  IF r = None
  THEN {Outcome(FALSE, None)}
  ELSE {Outcome(TRUE, h) : h \in Halted(r)} \cup Faulty("stop", {Outcome(FALSE, r)})

\* Delete stops first and ignores how that went.
DeleteOutcomes(r) ==
  IF r = None
  THEN {Outcome(FALSE, None)}
  ELSE {Outcome(TRUE, None)}
         \cup Faulty("delete", {Outcome(FALSE, h) : h \in Halted(r) \cup {r}})

\* A faulty variant of List below, which leaves out what does not run; it is used
\* only to see that a property notices.
ListRunningOnly(rs) == {{i \in DOMAIN rs : rs[i] # None /\ rs[i].state = "Running"}}

\* List: the IDs of what exists in a runtime, rs being its resources; an error
\* gives None.
ListOutcomes(rs) == {{i \in DOMAIN rs : rs[i] # None}} \cup Faulty("list", {None})

\* What can happen to a resource without the agent: its process exits, restarts
\* or comes up again, or somebody removes it.
DriftOutcomes(r) ==
  {[r EXCEPT !.state = s] :
     s \in CASE r.state = "Running" -> {"Stopped", "Failed", "Pending"}
             [] r.state = "Pending" -> {"Running", "Failed"}
             [] OTHER -> {}}
  \cup {None}
=============================================================================
