----------------------------- MODULE TaskQueue -----------------------------
(***************************************************************************)
(* The asynchronous task queue (internal/task/queue.go) together with the  *)
(* two gRPC handlers that submit to it (internal/grpc/server.go): a        *)
(* handler creates a fresh task object, calls Submit, and when Submit      *)
(* returns an error executes the operation itself before it answers.       *)
(*                                                                         *)
(* A task object is an element of Task.  Timestamps, results and error     *)
(* texts are left out; a task keeps its ID, its type and its status.       *)
(***************************************************************************)
EXTENDS Integers, Sequences

CONSTANTS
  Task,         \* task objects, one per Submit call
  TaskId,       \* the keys of Queue.tasks
  EmptyId,      \* the empty ID, which Submit refuses
  TaskType,     \* "apply_workload", "delete_workload", "reconcile", ...
  NoTask,       \* the absence of a task
  MaxWorkers,   \* number of worker goroutines
  IdOf,         \* the ID each task object is created with
  TypeOf        \* the type each task object is created with

ASSUME MaxWorkersAssumption == MaxWorkers \in Nat \ {0}
ASSUME NoTaskAssumption == NoTask \notin Task
ASSUME IdAssumption == IdOf \in [Task -> TaskId]
ASSUME TypeAssumption == TypeOf \in [Task -> TaskType]

Worker == 1 .. MaxWorkers

Capacity == MaxWorkers * 2

VARIABLES
  handlers,    \* Queue.handlers: the task types with a handler
  tasks,       \* Queue.tasks: the task tracked under each ID, or NoTask
  status,      \* Task.Status ("new" before Submit has touched the object)
  taskCh,      \* Queue.taskCh: the buffered channel
  stopped,     \* stopCh is closed
  cancelled,   \* the context given to Start is done
  call,        \* where the gRPC call that owns the task object stands
  wpc,         \* where each worker goroutine stands
  held,        \* the task each worker is executing
  execs        \* history: how often the operation of the task was executed

vars == <<handlers, tasks, status, taskCh, stopped, cancelled, call, wpc, held, execs>>

TaskStatus == {"new", "pending", "running", "completed", "failed"}
CallPC == {"idle", "select", "undo", "accepted", "rejected", "sync", "returned"}
WorkerPC == {"off", "select", "taken", "lookup", "handler", "exited"}

Terminal(t) == status[t] \in {"completed", "failed"}

InChannel(t) == \E i \in DOMAIN taskCh : taskCh[i] = t

Held(t) == \E w \in Worker : held[w] = t

TypeOK ==
  /\ handlers \in SUBSET TaskType
  /\ tasks \in [TaskId -> Task \cup {NoTask}]
  /\ status \in [Task -> TaskStatus]
  /\ taskCh \in Seq(Task)
  /\ stopped \in BOOLEAN
  /\ cancelled \in BOOLEAN
  /\ call \in [Task -> CallPC]
  /\ wpc \in [Worker -> WorkerPC]
  /\ held \in [Worker -> Task \cup {NoTask}]
  /\ execs \in [Task -> Nat]

Init ==
  /\ handlers = {}
  /\ tasks = [i \in TaskId |-> NoTask]
  /\ status = [t \in Task |-> "new"]
  /\ taskCh = <<>>
  /\ stopped = FALSE
  /\ cancelled = FALSE
  /\ call = [t \in Task |-> "idle"]
  /\ wpc = [w \in Worker |-> "off"]
  /\ held = [w \in Worker |-> NoTask]
  /\ execs = [t \in Task |-> 0]

-----------------------------------------------------------------------------
(* Faulty variants of some operations below: each is what a plausible slip  *)
(* in the code would do, and is used only to see that a property notices.   *)

SubmitSendThenError(t) ==
  /\ call[t] = "select"
  /\ Len(taskCh) < Capacity
  /\ taskCh' = Append(taskCh, t)
  /\ call' = [call EXCEPT ![t] = "undo"]
  /\ UNCHANGED <<handlers, tasks, status, stopped, cancelled, wpc, held, execs>>

SubmitBlocksWhenFull(t) ==
  /\ call[t] = "select"
  /\ stopped
  /\ call' = [call EXCEPT ![t] = "undo"]
  /\ UNCHANGED <<handlers, tasks, status, taskCh, stopped, cancelled, wpc, held, execs>>

SubmitLeavesGhost(t) ==
  /\ call[t] = "undo"
  /\ call' = [call EXCEPT ![t] = "rejected"]
  /\ UNCHANGED <<handlers, tasks, status, taskCh, stopped, cancelled, wpc, held, execs>>

FallbackAlways(t) ==
  /\ call[t] \in {"accepted", "rejected"}
  /\ execs' = [execs EXCEPT ![t] = @ + 1]
  /\ call' = [call EXCEPT ![t] = "sync"]
  /\ UNCHANGED <<handlers, tasks, status, taskCh, stopped, cancelled, wpc, held>>

WorkerIgnoresStop(w) ==
  /\ wpc[w] = "select"
  /\ cancelled
  /\ wpc' = [wpc EXCEPT ![w] = "exited"]
  /\ UNCHANGED <<handlers, tasks, status, taskCh, stopped, cancelled, call, held, execs>>

NoHandlerEndsWorker(w) ==
  /\ wpc[w] = "lookup"
  /\ TypeOf[held[w]] \notin handlers
  /\ status' = [status EXCEPT ![held[w]] = "failed"]
  /\ held' = [held EXCEPT ![w] = NoTask]
  /\ wpc' = [wpc EXCEPT ![w] = "exited"]
  /\ UNCHANGED <<handlers, tasks, taskCh, stopped, cancelled, call, execs>>

-----------------------------------------------------------------------------
(* Setting up and stopping the queue.                                      *)

RegisterHandler(ty) ==
  /\ ty \notin handlers
  /\ handlers' = handlers \cup {ty}
  /\ UNCHANGED <<tasks, status, taskCh, stopped, cancelled, call, wpc, held, execs>>

\* Start spawns every worker goroutine; it is called once.
Start ==
  /\ \A w \in Worker : wpc[w] = "off"
  /\ wpc' = [w \in Worker |-> "select"]
  /\ UNCHANGED <<handlers, tasks, status, taskCh, stopped, cancelled, call, held, execs>>

\* stopOnce closes stopCh.  The channel of tasks is neither closed nor drained,
\* and nobody waits for the workers.
Stop ==
  /\ ~stopped
  /\ stopped' = TRUE
  /\ UNCHANGED <<handlers, tasks, status, taskCh, cancelled, call, wpc, held, execs>>

CancelContext ==
  /\ ~cancelled
  /\ cancelled' = TRUE
  /\ UNCHANGED <<handlers, tasks, status, taskCh, stopped, call, wpc, held, execs>>

-----------------------------------------------------------------------------
(* A gRPC call: Submit, and the synchronous fallback when Submit fails.    *)

\* Submit up to its select statement: the object becomes Pending and is tracked
\* under its ID before it is known whether the channel takes it.
Submit(t) ==
  /\ call[t] = "idle"
  /\ \/ /\ IdOf[t] = EmptyId
        /\ call' = [call EXCEPT ![t] = "rejected"]
        /\ UNCHANGED <<tasks, status>>
     \/ /\ IdOf[t] # EmptyId
        /\ status' = [status EXCEPT ![t] = "pending"]
        /\ tasks' = [tasks EXCEPT ![IdOf[t]] = t]
        /\ call' = [call EXCEPT ![t] = "select"]
  /\ UNCHANGED <<handlers, taskCh, stopped, cancelled, wpc, held, execs>>

\* The select statement.  Of the ready cases one is chosen at random, so a send
\* may win after Stop; the default case needs a full channel and an open stopCh.
SubmitSend(t) ==
  /\ call[t] = "select"
  /\ Len(taskCh) < Capacity
  /\ taskCh' = Append(taskCh, t)
  /\ call' = [call EXCEPT ![t] = "accepted"]
  /\ UNCHANGED <<handlers, tasks, status, stopped, cancelled, wpc, held, execs>>

SubmitRefused(t) ==
  /\ call[t] = "select"
  /\ stopped \/ Len(taskCh) >= Capacity
  /\ call' = [call EXCEPT ![t] = "undo"]
  /\ UNCHANGED <<handlers, tasks, status, taskCh, stopped, cancelled, wpc, held, execs>>

\* Both error cases delete the entry again, by ID.
SubmitUndo(t) ==
  /\ call[t] = "undo"
  /\ tasks' = [tasks EXCEPT ![IdOf[t]] = NoTask]
  /\ call' = [call EXCEPT ![t] = "rejected"]
  /\ UNCHANGED <<handlers, status, taskCh, stopped, cancelled, wpc, held, execs>>

\* "Failed to submit task, falling back to synchronous execution".
FallbackBegin(t) ==
  /\ call[t] = "rejected"
  /\ execs' = [execs EXCEPT ![t] = @ + 1]
  /\ call' = [call EXCEPT ![t] = "sync"]
  /\ UNCHANGED <<handlers, tasks, status, taskCh, stopped, cancelled, wpc, held>>

FallbackEnd(t) ==
  /\ call[t] = "sync"
  /\ call' = [call EXCEPT ![t] = "returned"]
  /\ UNCHANGED <<handlers, tasks, status, taskCh, stopped, cancelled, wpc, held, execs>>

-----------------------------------------------------------------------------
(* A worker goroutine: worker and executeTask.                             *)

WorkerTake(w) ==
  /\ wpc[w] = "select"
  /\ taskCh # <<>>
  /\ held' = [held EXCEPT ![w] = Head(taskCh)]
  /\ taskCh' = Tail(taskCh)
  /\ wpc' = [wpc EXCEPT ![w] = "taken"]
  /\ UNCHANGED <<handlers, tasks, status, stopped, cancelled, call, execs>>

WorkerExit(w) ==
  /\ wpc[w] = "select"
  /\ stopped \/ cancelled
  /\ wpc' = [wpc EXCEPT ![w] = "exited"]
  /\ UNCHANGED <<handlers, tasks, status, taskCh, stopped, cancelled, call, held, execs>>

ExecuteRunning(w) ==
  /\ wpc[w] = "taken"
  /\ status' = [status EXCEPT ![held[w]] = "running"]
  /\ wpc' = [wpc EXCEPT ![w] = "lookup"]
  /\ UNCHANGED <<handlers, tasks, taskCh, stopped, cancelled, call, held, execs>>

ExecuteNoHandler(w) ==
  /\ wpc[w] = "lookup"
  /\ TypeOf[held[w]] \notin handlers
  /\ status' = [status EXCEPT ![held[w]] = "failed"]
  /\ held' = [held EXCEPT ![w] = NoTask]
  /\ wpc' = [wpc EXCEPT ![w] = "select"]
  /\ UNCHANGED <<handlers, tasks, taskCh, stopped, cancelled, call, execs>>

ExecuteHandler(w) ==
  /\ wpc[w] = "lookup"
  /\ TypeOf[held[w]] \in handlers
  /\ execs' = [execs EXCEPT ![held[w]] = @ + 1]
  /\ wpc' = [wpc EXCEPT ![w] = "handler"]
  /\ UNCHANGED <<handlers, tasks, status, taskCh, stopped, cancelled, call, held>>

\* The handler returns nil or an error.
ExecuteEnd(w, outcome) ==
  /\ wpc[w] = "handler"
  /\ status' = [status EXCEPT ![held[w]] = outcome]
  /\ held' = [held EXCEPT ![w] = NoTask]
  /\ wpc' = [wpc EXCEPT ![w] = "select"]
  /\ UNCHANGED <<handlers, tasks, taskCh, stopped, cancelled, call, execs>>

-----------------------------------------------------------------------------
\* CleanupOldTasks: forgets the terminal tasks that ended more than ttl ago;
\* which ones those are is left open.
CleanupOldTasks(old) ==
  /\ old # {}
  /\ \A t \in old : Terminal(t) /\ tasks[IdOf[t]] = t
  /\ tasks' = [i \in TaskId |-> IF tasks[i] \in old THEN NoTask ELSE tasks[i]]
  /\ UNCHANGED <<handlers, status, taskCh, stopped, cancelled, call, wpc, held, execs>>

-----------------------------------------------------------------------------
CallStep(t) ==
  \/ SubmitSend(t)
  \/ SubmitRefused(t)
  \/ SubmitUndo(t)
  \/ FallbackBegin(t)
  \/ FallbackEnd(t)

WorkerStep(w) ==
  \/ WorkerTake(w)
  \/ WorkerExit(w)
  \/ ExecuteRunning(w)
  \/ ExecuteNoHandler(w)
  \/ ExecuteHandler(w)
  \/ \E outcome \in {"completed", "failed"} : ExecuteEnd(w, outcome)

Next ==
  \/ \E ty \in TaskType : RegisterHandler(ty)
  \/ Start
  \/ Stop
  \/ CancelContext
  \/ \E t \in Task : Submit(t)
  \/ \E t \in Task : CallStep(t)
  \/ \E w \in Worker : WorkerStep(w)
  \/ \E old \in SUBSET Task : CleanupOldTasks(old)

Spec == Init /\ [][Next]_vars

\* The agent calls Start, a Submit that was begun runs on, and a worker
\* goroutine is scheduled for ever: a handler returns, which the deadlines of
\* the runtime calls are there to ensure.
Fairness ==
  /\ WF_vars(Start)
  /\ \A t \in Task : WF_vars(CallStep(t))
  /\ \A w \in Worker : WF_vars(WorkerStep(w))

FairSpec == Spec /\ Fairness

-----------------------------------------------------------------------------
(* Properties.                                                             *)

UniqueIds == \A t, u \in Task : IdOf[t] = IdOf[u] => t = u

\* An operation is executed at most once: by one worker, or by the gRPC call
\* itself after Submit refused the task, never by both and never again.
AtMostOnce == \A t \in Task : execs[t] <= 1

\* Submit's answer is the truth about the task object.  While Submit has not
\* said yes no worker can meet the task; once it has, the task is at exactly one
\* place: in the channel, at one worker, or ended.
OnePlace ==
  \A t \in Task :
    IF call[t] = "accepted"
    THEN /\ InChannel(t) \/ Held(t) \/ Terminal(t)
         /\ ~(InChannel(t) /\ Held(t))
         /\ ~(InChannel(t) /\ Terminal(t))
         /\ ~(Held(t) /\ Terminal(t))
         /\ \A w, v \in Worker : held[w] = t /\ held[v] = t => w = v
    ELSE ~InChannel(t) /\ ~Held(t) /\ ~Terminal(t)

\* The tracking map agrees with what happened, as long as IDs are unique (they
\* are made from the workload ID and a nanosecond clock): an accepted task that
\* has not ended is found under its ID, and a refused one leaves no ghost entry.
Tracked ==
  UniqueIds =>
    \A t \in Task :
      /\ call[t] = "accepted" /\ ~Terminal(t) => tasks[IdOf[t]] = t
      /\ call[t] \in {"idle", "rejected", "sync", "returned"} => tasks[IdOf[t]] # t

\* A task's status only moves forward, and a terminal one is never rewritten.
StatusForward ==
  [][\A t \in Task :
       status'[t] # status[t] =>
         <<status[t], status'[t]>> \in
           {<<"new", "pending">>, <<"pending", "running">>,
            <<"running", "completed">>, <<"running", "failed">>}]_vars

\* The refinement mapping: how far a task has come, as its caller sees it.
Executing(t) == \E w \in Worker : held[w] = t /\ wpc[w] = "handler"

PhaseOf(t) ==
  CASE call[t] = "sync" -> "executing"
    [] call[t] = "returned" -> "done"
    [] call[t] = "accepted" /\ Terminal(t) -> "done"
    [] call[t] = "accepted" /\ ~Terminal(t) /\ Executing(t) -> "executing"
    [] call[t] = "accepted" /\ ~Terminal(t) /\ ~Executing(t) -> "queued"
    [] OTHER -> "new"

phase == [t \in Task |-> PhaseOf(t)]

Abstract == INSTANCE TaskExecution WITH Task <- Task, phase <- phase

\* The queue implements the at-most-once executor its callers rely on.
ImplementsTaskExecution == Abstract!Spec

\* Every accepted task ends, unless the queue is being shut down.
AcceptedEnds ==
  \A t \in Task : call[t] = "accepted" ~> (Terminal(t) \/ stopped \/ cancelled)

\* Submit never blocks: every call gets its answer.
SubmitReturns ==
  \A t \in Task : call[t] = "select" ~> call[t] \in {"accepted", "returned"}

\* After Stop every worker goroutine ends.
WorkersExit == stopped ~> \A w \in Worker : wpc[w] = "exited"
=============================================================================
