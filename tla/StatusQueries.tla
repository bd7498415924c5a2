--------------------------- MODULE StatusQueries ---------------------------
(***************************************************************************)
(* What the gRPC server tells callers about operations under way           *)
(* (internal/grpc/server.go: GetWorkloadStatus and ListActions, over       *)
(* Queue.ListTaskSnapshots).  The queue is taken by what it promises: an   *)
(* operation goes through the phases of TaskExecution, which TaskQueue is  *)
(* shown to implement, and Queue.tasks holds it from before it is accepted *)
(* until it is cleaned up.  An operation writes the status of its workload *)
(* before it ends.                                                         *)
(*                                                                         *)
(* Operations are numbered in the order of CreatedAt, which Submit takes   *)
(* before it enters the task in the map, so a later one may be there first.*)
(* A status is known by the operation that wrote it.  Pending and Running  *)
(* tasks are told alike.                                                   *)
(***************************************************************************)
EXTENDS Integers, Sequences, FiniteSets

CONSTANTS
  Op,        \* operations: an interval of numbers from 1
  Subject,   \* workload IDs, none of them blank
  OpOf       \* the workload and the type, "apply" or "delete", of each operation

ASSUME OpAssumption ==
  /\ Op \subseteq Nat \ {0}
  /\ OpOf \in [Op -> [of : Subject, type : {"apply", "delete"}]]

ASSUME SubjectAssumption == "" \notin Subject

VARIABLES
  phase,    \* how far each operation has come
  tracked,  \* Queue.tasks
  failed,   \* the operations that ended with an error
  writes,   \* the operations that wrote the stored status of each workload, in order
  query,    \* a GetWorkloadStatus call: where it stands, its workload, the writes it saw
  answer    \* what the last such call returned, until the next begins

qvars == <<phase, tracked, failed, writes, query, answer>>

Exec == INSTANCE TaskExecution WITH Task <- Op, phase <- phase

NoAnswer == [kind |-> "none", op |-> 0]

QueryIdle == [pc |-> "idle", of |-> CHOOSE w \in Subject : TRUE, seen |-> 0, before |-> {}]

QueryInit ==
  /\ Exec!Init
  /\ tracked = {} /\ failed = {}
  /\ writes = [w \in Subject |-> <<>>]
  /\ query = QueryIdle
  /\ answer = NoAnswer

-----------------------------------------------------------------------------
(* The queue, the workers and the manager.                                 *)

\* Submit enters the task, and then it is accepted, or it is taken out again and
\* the handler executes the operation itself.
Offer(t) ==
  /\ phase[t] = "new" /\ t \notin tracked
  /\ tracked' = tracked \cup {t}
  /\ UNCHANGED <<phase, failed, writes, query, answer>>

Accepted(t) ==
  /\ t \in tracked
  /\ Exec!Accept(t)
  /\ UNCHANGED <<tracked, failed, writes, query, answer>>

Refused(t) ==
  /\ t \in tracked
  /\ Exec!Direct(t)
  /\ tracked' = tracked \ {t}
  /\ UNCHANGED <<failed, writes, query, answer>>

Begins(t) == Exec!Begin(t) /\ UNCHANGED <<tracked, failed, writes, query, answer>>

NoHandler(t) ==
  /\ Exec!Drop(t)
  /\ failed' = failed \cup {t}
  /\ UNCHANGED <<tracked, writes, query, answer>>

Wrote(t) == \E i \in DOMAIN writes[OpOf[t].of] : writes[OpOf[t].of][i] = t

\* The manager saves the status, or removes it with the workload.
Persist(t) ==
  /\ phase[t] = "executing" /\ ~Wrote(t)
  /\ writes' = [writes EXCEPT ![OpOf[t].of] = Append(@, t)]
  /\ UNCHANGED <<phase, tracked, failed, query, answer>>

\* Faulty variant, used only to see that a property notices: a task ends before
\* its outcome is stored.
EndsEarly(t) ==
  /\ Exec!Finish(t)
  /\ failed' \in {failed, failed \cup {t}}
  /\ UNCHANGED <<tracked, writes, query, answer>>

\* The handler returns, and with an error perhaps before it wrote anything.
Ends(t) ==
  /\ Exec!Finish(t)
  /\ failed' \in {failed \cup {t}} \cup IF Wrote(t) THEN {failed} ELSE {}
  /\ UNCHANGED <<tracked, writes, query, answer>>

Cleanup(t) ==
  /\ t \in tracked /\ phase[t] = "done"
  /\ tracked' = tracked \ {t}
  /\ UNCHANGED <<phase, failed, writes, query, answer>>

-----------------------------------------------------------------------------
(* The snapshots and the queries made of them.                             *)

TaskState(t) ==
  CASE phase[t] \in {"new", "queued"} -> "pending"
    [] phase[t] = "executing" -> "running"
    [] phase[t] = "done" -> IF t \in failed THEN "failed" ELSE "completed"

\* The tasks in a state, or all of them when the state is empty.
ListTaskSnapshots(state) == {t \in tracked : state = "" \/ TaskState(t) = state}

\* Faulty variant, used only to see that a property notices: the first task is
\* taken for the latest.
pendingStatusFromOldest(w) ==
  LET mine == {t \in ListTaskSnapshots("") : OpOf[t].of = w}
      latest == CHOOSE t \in mine : \A u \in mine : t <= u
  IN  CASE mine = {} -> NoAnswer
        [] mine # {} /\ TaskState(latest) \in {"pending", "running"} -> [kind |-> "pending", op |-> latest]
        [] mine # {} /\ TaskState(latest) = "failed" -> [kind |-> "failed", op |-> latest]
        [] OTHER -> NoAnswer

\* The status made up from the latest task of the workload, if that has not
\* completed.
pendingStatusFromTasks(w) ==
  LET mine == {t \in ListTaskSnapshots("") : OpOf[t].of = w}
      latest == CHOOSE t \in mine : \A u \in mine : t >= u
  IN  CASE mine = {} -> NoAnswer
        [] mine # {} /\ TaskState(latest) \in {"pending", "running"} -> [kind |-> "pending", op |-> latest]
        [] mine # {} /\ TaskState(latest) = "failed" -> [kind |-> "failed", op |-> latest]
        [] OTHER -> NoAnswer

\* GetWorkloadStatus asks the manager first; before is what had completed by then.
GetWorkloadStatus(w) ==
  /\ query.pc = "idle"
  /\ query' = [pc |-> "tasks", of |-> w, seen |-> Len(writes[w]),
               before |-> {t \in Op : OpOf[t].of = w /\ phase[t] = "done" /\ t \notin failed}]
  /\ answer' = NoAnswer
  /\ UNCHANGED <<phase, tracked, failed, writes>>

\* The status that was read, or none after a delete.
StatusRead ==
  IF query.seen = 0 \/ OpOf[writes[query.of][query.seen]].type = "delete"
  THEN [kind |-> "notfound", op |-> 0]
  ELSE [kind |-> "status", op |-> writes[query.of][query.seen]]

\* Then it looks at the tasks.  A task under way shows in place of the state that
\* was read, a failed one only when there was none.
GetWorkloadStatusTasks ==
  LET pending == pendingStatusFromTasks(query.of) IN
  /\ query.pc = "tasks"
  /\ answer' = CASE pending.kind = "pending" -> pending
                 [] pending.kind = "failed" /\ StatusRead.kind = "notfound" -> pending
                 [] OTHER -> StatusRead
  /\ query' = QueryIdle
  /\ UNCHANGED <<phase, tracked, failed, writes>>

Filtered(w, type, state) ==
  {t \in ListTaskSnapshots("") :
     w \in {"", OpOf[t].of} /\ type \in {"", OpOf[t].type} /\ state \in {"", TaskState(t)}}

Limited(actions, limit) ==
  IF limit > 0 /\ limit < Len(actions) THEN SubSeq(actions, 1, limit) ELSE actions

SortedByCreatedAt(S, newestFirst) ==
  CHOOSE s \in [1 .. Cardinality(S) -> S] :
    \A i, j \in 1 .. Cardinality(S) : i < j => IF newestFirst THEN s[i] > s[j] ELSE s[i] < s[j]

\* Faulty variant, used only to see that a property notices: the list is cut
\* before it is sorted.
ListActionsCut(w, type, state, newestFirst, limit) ==
  LET cut == Limited(SortedByCreatedAt(Filtered(w, type, state), FALSE), limit)
  IN  SortedByCreatedAt({cut[i] : i \in DOMAIN cut}, newestFirst)

\* Blank filters accept everything; a limit of zero is none.
ListActions(w, type, state, newestFirst, limit) ==
  Limited(SortedByCreatedAt(Filtered(w, type, state), newestFirst), limit)

-----------------------------------------------------------------------------
QueryNext ==
  \/ \E t \in Op : Offer(t) \/ Accepted(t) \/ Refused(t) \/ Begins(t) \/ NoHandler(t)
  \/ \E t \in Op : Persist(t) \/ Ends(t) \/ Cleanup(t)
  \/ \E w \in Subject : GetWorkloadStatus(w)
  \/ GetWorkloadStatusTasks

QuerySpec == QueryInit /\ [][QueryNext]_qvars

-----------------------------------------------------------------------------
(* Properties.                                                             *)

\* A caller whose operation was accepted and who polls is told Pending until it
\* has ended, unless a later operation on the workload has ended before it:
\* "Surface in-flight apply/delete task state even when a persisted status
\* exists" (server.go:375).
PendingUntilDone ==
  [][GetWorkloadStatusTasks =>
       \A t \in Op :
         OpOf[t].of = query.of /\ phase[t] \in {"queued", "executing"} /\ t \in tracked =>
           \/ answer'.kind = "pending"
           \/ \E u \in Op : u > t /\ OpOf[u].of = query.of /\ phase[u] = "done"]_qvars

\* An answer that is not Pending reflects every operation on the workload that
\* had completed when the call came in: Completed is set after the status is saved.
SeesEarlierWrites ==
  [][GetWorkloadStatusTasks /\ answer'.kind \in {"status", "notfound"} =>
       \A t \in query.before : \E i \in 1..query.seen : writes[query.of][i] = t]_qvars

\* The newest action that ListActions shows of a workload, cut to one, is the task
\* that GetWorkloadStatus looks at, and whatever the limit no newer one is left out.
ActionsAgree ==
  \A w \in Subject, limit \in 0 .. Cardinality(tracked) :
    LET actions == ListActions(w, "", "", TRUE, limit)
        listed == {actions[i] : i \in DOMAIN actions}
        told == pendingStatusFromTasks(w)
    IN  /\ told.op # 0 => told.op = ListActions(w, "", "", TRUE, 1)[1]
        /\ \A t \in Filtered(w, "", "") \ listed, u \in listed : t < u
=============================================================================
