-------------------------- MODULE TaskQueueProofs --------------------------
(***************************************************************************)
(* Proofs about the task queue for any number of tasks, workers and IDs.   *)
(***************************************************************************)
EXTENDS TaskQueue, TLAPS

-----------------------------------------------------------------------------
(* The inductive invariant.                                                *)

\* What is known of the tasks in the channel: each is accepted, pending, not yet
\* executed, there once, and at no worker.
ChannelInv ==
  \A i \in DOMAIN taskCh :
    /\ call[taskCh[i]] = "accepted"
    /\ status[taskCh[i]] = "pending"
    /\ execs[taskCh[i]] = 0
    /\ \A j \in DOMAIN taskCh : taskCh[i] = taskCh[j] => i = j
    /\ \A w \in Worker : held[w] # taskCh[i]

\* What is known of a worker: between taking a task and finishing it the worker
\* alone holds that task, and how far the task has come follows from its step.
WorkerInv ==
  \A w \in Worker :
    IF wpc[w] \in {"taken", "lookup", "handler"}
    THEN /\ held[w] \in Task
         /\ call[held[w]] = "accepted"
         /\ status[held[w]] = (IF wpc[w] = "taken" THEN "pending" ELSE "running")
         /\ execs[held[w]] = (IF wpc[w] = "handler" THEN 1 ELSE 0)
         /\ \A v \in Worker : held[v] = held[w] => v = w
    ELSE held[w] = NoTask

\* What is known of a gRPC call: a task that was not accepted has not been run
\* by a worker, and its call executes it only after the refusal.
CallInv ==
  \A t \in Task :
    /\ call[t] = "accepted" => execs[t] <= 1 /\ (InChannel(t) \/ Held(t) \/ Terminal(t))
    /\ call[t] # "accepted" => status[t] \in {"new", "pending"}
    /\ call[t] \in {"select", "undo"} => status[t] = "pending"
    /\ call[t] \in {"idle", "select", "undo", "rejected"} => execs[t] = 0
    /\ call[t] \in {"sync", "returned"} => execs[t] = 1

Inv == TypeOK /\ ChannelInv /\ WorkerInv /\ CallInv

-----------------------------------------------------------------------------
(* Facts about the channel.                                                *)

\* Sending appends one element and moves none.
LEMMA AppendFacts ==
  ASSUME NEW s \in Seq(Task), NEW t \in Task
  PROVE  /\ Append(s, t) \in Seq(Task)
         /\ DOMAIN s = 1 .. Len(s) /\ Len(s) \in Nat
         /\ DOMAIN Append(s, t) = 1 .. (Len(s) + 1)
         /\ \A i \in DOMAIN s : Append(s, t)[i] = s[i]
         /\ Append(s, t)[Len(s) + 1] = t
OBVIOUS

\* Receiving removes the head and keeps the order of the rest.
LEMMA TailFacts ==
  ASSUME NEW s \in Seq(Task), s # <<>>
  PROVE  /\ Tail(s) \in Seq(Task)
         /\ Head(s) \in Task /\ Head(s) = s[1]
         /\ DOMAIN s = 1 .. Len(s) /\ Len(s) \in Nat \ {0}
         /\ DOMAIN Tail(s) = 1 .. (Len(s) - 1)
         /\ \A i \in DOMAIN Tail(s) : i + 1 \in DOMAIN s /\ Tail(s)[i] = s[i + 1]
<1>1. /\ Tail(s) \in Seq(Task)
      /\ Head(s) \in Task
      /\ Len(Tail(s)) = Len(s) - 1
      /\ \A i \in 1 .. Len(Tail(s)) : Tail(s)[i] = s[i + 1]
  OBVIOUS
<1>2. Len(s) \in Nat \ {0} /\ DOMAIN s = 1 .. Len(s)
  OBVIOUS
<1>3. DOMAIN Tail(s) = 1 .. (Len(s) - 1)
  BY <1>1
<1>4. Head(s) = s[1]
  OBVIOUS
<1> QED
  BY <1>1, <1>2, <1>3, <1>4

-----------------------------------------------------------------------------
(* The invariant is inductive.                                             *)

\* The invariant holds of a queue as NewQueue makes it.
LEMMA InitInv == Init => Inv
<1> SUFFICES ASSUME Init PROVE Inv
  OBVIOUS
<1> USE NoTaskAssumption, IdAssumption
<1>1. taskCh \in Seq(Task) /\ DOMAIN taskCh = {}
  BY DEF Init
<1>2. TypeOK
  BY <1>1, Zenon DEF Init, TypeOK, TaskStatus, CallPC, WorkerPC
<1>3. ChannelInv
  BY <1>1 DEF ChannelInv
<1>4. WorkerInv
  BY DEF Init, WorkerInv
<1>5. CallInv
  BY Zenon DEF Init, CallInv
<1> QED
  BY <1>2, <1>3, <1>4, <1>5 DEF Inv

\* Every step of a gRPC call, of a worker or of the agent's start and stop keeps
\* the invariant.
LEMMA StepInv == Inv /\ [Next]_vars => Inv'
<1> SUFFICES ASSUME Inv, [Next]_vars PROVE Inv'
  OBVIOUS
<1> USE NoTaskAssumption, IdAssumption, TypeAssumption DEF Inv
<1>1. ASSUME NEW ty \in TaskType, RegisterHandler(ty) PROVE Inv'
  BY <1>1 DEF RegisterHandler, TypeOK, ChannelInv, WorkerInv, CallInv, InChannel, Held, Terminal
<1>2. CASE Start
  BY <1>2 DEF Start, TypeOK, ChannelInv, WorkerInv, CallInv, InChannel, Held, Terminal, WorkerPC
<1>3. CASE Stop
  BY <1>3 DEF Stop, TypeOK, ChannelInv, WorkerInv, CallInv, InChannel, Held, Terminal
<1>4. CASE CancelContext
  BY <1>4 DEF CancelContext, TypeOK, ChannelInv, WorkerInv, CallInv, InChannel, Held, Terminal
<1>5. ASSUME NEW t \in Task, Submit(t) PROVE Inv'
  <2>1. TypeOK'
    <3>1. CASE IdOf[t] = EmptyId
      BY <1>5, <3>1, Zenon DEF Submit, TypeOK, CallPC
    <3>2. CASE IdOf[t] # EmptyId
      <4>1. status' \in [Task -> TaskStatus] /\ call' \in [Task -> CallPC]
        BY <1>5, <3>2, Zenon DEF Submit, TypeOK, TaskStatus, CallPC
      <4>2. tasks' \in [TaskId -> Task \cup {NoTask}]
        BY <1>5, <3>2, Zenon DEF Submit, TypeOK
      <4> QED
        BY <1>5, <4>1, <4>2 DEF Submit, TypeOK
    <3> QED
      BY <3>1, <3>2
  <2>2. ChannelInv'
    BY <1>5 DEF Submit, TypeOK, ChannelInv
  <2>3. WorkerInv'
    BY <1>5 DEF Submit, TypeOK, WorkerInv
  <2>4. CallInv'
    BY <1>5, ZenonT(40) DEF Submit, TypeOK, CallInv, InChannel, Held, Terminal
  <2> QED
    BY <2>1, <2>2, <2>3, <2>4
<1>6. ASSUME NEW t \in Task, SubmitSend(t) PROVE Inv'
  <2>1. TypeOK'
    BY <1>6, AppendFacts DEF SubmitSend, TypeOK, CallPC
  <2>2. /\ \A i \in DOMAIN taskCh : taskCh[i] # t
        /\ \A w \in Worker : held[w] # t
        /\ execs[t] = 0
    BY <1>6, SMTT(30) DEF SubmitSend, TypeOK, ChannelInv, WorkerInv, CallInv
  <2>3. DEFINE n == Len(taskCh) + 1
  <2>4. /\ DOMAIN taskCh = 1 .. Len(taskCh) /\ Len(taskCh) \in Nat
        /\ DOMAIN taskCh' = 1 .. n
        /\ taskCh'[n] = t
        /\ \A i \in DOMAIN taskCh : taskCh'[i] = taskCh[i]
    BY <1>6, AppendFacts DEF SubmitSend, TypeOK
  <2>5. status[t] = "pending"
    BY <1>6 DEF SubmitSend, CallInv
  <2>6. /\ call' = [call EXCEPT ![t] = "accepted"]
        /\ UNCHANGED <<status, execs, wpc, held>>
    BY <1>6 DEF SubmitSend
  <2>7. ChannelInv'
    <3> SUFFICES ASSUME NEW i \in DOMAIN taskCh'
                 PROVE  /\ call'[taskCh'[i]] = "accepted"
                        /\ status[taskCh'[i]] = "pending"
                        /\ execs[taskCh'[i]] = 0
                        /\ \A j \in DOMAIN taskCh' : taskCh'[i] = taskCh'[j] => i = j
                        /\ \A w \in Worker : held[w] # taskCh'[i]
      BY <2>6 DEF ChannelInv
    <3>1. CASE i = n
      BY <3>1, <2>2, <2>4, <2>5, <2>6, SMTT(30) DEF TypeOK
    <3>2. CASE i \in DOMAIN taskCh
      BY <3>2, <2>2, <2>4, <2>6 DEF TypeOK, ChannelInv
    <3> QED
      BY <3>1, <3>2, <2>4
  <2>8. WorkerInv'
    BY <2>6 DEF TypeOK, WorkerInv
  <2>9. InChannel(t)'
    BY <2>4 DEF InChannel
  <2>10. \A u \in Task : InChannel(u) => InChannel(u)'
    BY <2>4 DEF InChannel
  <2>11. CallInv'
    BY <2>2, <2>6, <2>9, <2>10 DEF TypeOK, CallInv, Held, Terminal
  <2> QED
    BY <2>1, <2>7, <2>8, <2>11
<1>7. ASSUME NEW t \in Task, SubmitRefused(t) PROVE Inv'
  <2>1. TypeOK'
    BY <1>7 DEF SubmitRefused, TypeOK, CallPC
  <2>2. ChannelInv' /\ WorkerInv'
    BY <1>7 DEF SubmitRefused, TypeOK, ChannelInv, WorkerInv
  <2>3. CallInv'
    BY <1>7, SMTT(30) DEF SubmitRefused, TypeOK, CallInv, InChannel, Held, Terminal
  <2> QED
    BY <2>1, <2>2, <2>3
<1>8. ASSUME NEW t \in Task, SubmitUndo(t) PROVE Inv'
  <2>1. TypeOK'
    BY <1>8 DEF SubmitUndo, TypeOK, CallPC
  <2>2. ChannelInv' /\ WorkerInv'
    BY <1>8 DEF SubmitUndo, TypeOK, ChannelInv, WorkerInv
  <2>3. CallInv'
    BY <1>8, ZenonT(40) DEF SubmitUndo, TypeOK, CallInv, InChannel, Held, Terminal
  <2> QED
    BY <2>1, <2>2, <2>3
<1>9. ASSUME NEW t \in Task, FallbackBegin(t) PROVE Inv'
  <2>1. TypeOK'
    BY <1>9 DEF FallbackBegin, TypeOK, CallPC
  <2>2. ChannelInv' /\ WorkerInv'
    BY <1>9 DEF FallbackBegin, TypeOK, ChannelInv, WorkerInv
  <2>3. CallInv'
    <3>1. /\ call[t] = "rejected" /\ execs[t] = 0 /\ status[t] \in {"new", "pending"}
          /\ call'[t] = "sync" /\ execs'[t] = 1
          /\ \A u \in Task \ {t} : call'[u] = call[u] /\ execs'[u] = execs[u]
          /\ UNCHANGED <<status, taskCh, held>>
      BY <1>9 DEF FallbackBegin, TypeOK, CallInv
    <3> QED
      BY <3>1 DEF CallInv, InChannel, Held, Terminal
  <2> QED
    BY <2>1, <2>2, <2>3
<1>10. ASSUME NEW t \in Task, FallbackEnd(t) PROVE Inv'
  <2>1. TypeOK'
    BY <1>10 DEF FallbackEnd, TypeOK, CallPC
  <2>2. ChannelInv' /\ WorkerInv'
    BY <1>10 DEF FallbackEnd, TypeOK, ChannelInv, WorkerInv
  <2>3. CallInv'
    BY <1>10, SMTT(30) DEF FallbackEnd, TypeOK, CallInv, InChannel, Held, Terminal
  <2> QED
    BY <2>1, <2>2, <2>3
<1>11. ASSUME NEW w \in Worker, WorkerTake(w) PROVE Inv'
  <2>1. /\ Tail(taskCh) \in Seq(Task)
        /\ Head(taskCh) \in Task /\ Head(taskCh) = taskCh[1]
        /\ DOMAIN taskCh = 1 .. Len(taskCh) /\ Len(taskCh) \in Nat \ {0}
        /\ DOMAIN taskCh' = 1 .. (Len(taskCh) - 1)
        /\ \A i \in DOMAIN taskCh' : i + 1 \in DOMAIN taskCh /\ taskCh'[i] = taskCh[i + 1]
    BY <1>11, TailFacts DEF WorkerTake, TypeOK
  <2>2. TypeOK'
    BY <1>11, <2>1 DEF WorkerTake, TypeOK, WorkerPC
  <2>3. 1 \in DOMAIN taskCh /\ held'[w] = taskCh[1]
    BY <1>11, <2>1 DEF WorkerTake, TypeOK
  <2>4. ChannelInv'
    <3> SUFFICES ASSUME NEW i \in DOMAIN taskCh'
                 PROVE  /\ call[taskCh'[i]] = "accepted"
                        /\ status[taskCh'[i]] = "pending"
                        /\ execs[taskCh'[i]] = 0
                        /\ \A j \in DOMAIN taskCh' : taskCh'[i] = taskCh'[j] => i = j
                        /\ \A v \in Worker : held'[v] # taskCh'[i]
      BY <1>11 DEF WorkerTake, ChannelInv
    <3>1. i \in Nat \ {0} /\ i + 1 \in DOMAIN taskCh /\ taskCh'[i] = taskCh[i + 1]
      BY <2>1
    <3>2. /\ call[taskCh'[i]] = "accepted"
          /\ status[taskCh'[i]] = "pending"
          /\ execs[taskCh'[i]] = 0
      BY <3>1 DEF ChannelInv
    <3>3. \A j \in DOMAIN taskCh' : taskCh'[i] = taskCh'[j] => i = j
      BY <3>1, <2>1 DEF ChannelInv
    <3>4. taskCh'[i] # taskCh[1]
      BY <3>1, <2>3 DEF ChannelInv
    <3>5. \A v \in Worker : held'[v] # taskCh'[i]
      BY <1>11, <3>1, <3>4, <2>3 DEF WorkerTake, TypeOK, ChannelInv
    <3> QED
      BY <3>2, <3>3, <3>5
  <2>5. WorkerInv'
    <3>1. /\ taskCh[1] \in Task
          /\ call[taskCh[1]] = "accepted"
          /\ status[taskCh[1]] = "pending"
          /\ execs[taskCh[1]] = 0
          /\ \A v \in Worker : held[v] # taskCh[1]
      BY <2>1, <2>3 DEF ChannelInv
    <3>2. /\ held' = [held EXCEPT ![w] = taskCh[1]]
          /\ wpc' = [wpc EXCEPT ![w] = "taken"]
          /\ UNCHANGED <<status, call, execs>>
      BY <1>11, <2>1 DEF WorkerTake
    <3> QED
      BY <3>1, <3>2 DEF TypeOK, WorkerInv
  <2>6. ASSUME NEW t \in Task, call[t] = "accepted"
        PROVE  InChannel(t)' \/ Held(t)' \/ Terminal(t)'
    <3>1. CASE InChannel(t)
      <4>1. PICK i \in DOMAIN taskCh : taskCh[i] = t
        BY <3>1 DEF InChannel
      <4>2. CASE i = 1
        BY <4>1, <4>2, <2>3 DEF Held
      <4>3. CASE i # 1
        <5>1. i - 1 \in DOMAIN taskCh' /\ taskCh'[i - 1] = t
          BY <4>1, <4>3, <2>1
        <5> QED
          BY <5>1 DEF InChannel
      <4> QED
        BY <4>2, <4>3
    <3>2. CASE Held(t)
      BY <3>2, <1>11 DEF WorkerTake, Held, TypeOK, WorkerInv
    <3>3. CASE Terminal(t)
      BY <3>3, <1>11 DEF WorkerTake, Terminal
    <3> QED
      BY <3>1, <3>2, <3>3, <2>6 DEF CallInv
  <2>7. CallInv'
    BY <1>11, <2>6, SMTT(30) DEF WorkerTake, CallInv
  <2> QED
    BY <2>2, <2>4, <2>5, <2>7
<1>12. ASSUME NEW w \in Worker, WorkerExit(w) PROVE Inv'
  BY <1>12, SMTT(30) DEF WorkerExit, TypeOK, ChannelInv, WorkerInv, CallInv, InChannel, Held, Terminal, WorkerPC
<1>13. ASSUME NEW w \in Worker, ExecuteRunning(w) PROVE Inv'
  <2>1. TypeOK'
    BY <1>13 DEF ExecuteRunning, TypeOK, WorkerInv, TaskStatus, WorkerPC
  <2>2. ChannelInv'
    BY <1>13 DEF ExecuteRunning, TypeOK, ChannelInv, WorkerInv
  <2>3. WorkerInv'
    BY <1>13 DEF ExecuteRunning, TypeOK, WorkerInv
  <2>4. CallInv'
    <3>1. /\ held[w] \in Task /\ call[held[w]] = "accepted"
          /\ status'[held[w]] = "running"
          /\ \A u \in Task \ {held[w]} : status'[u] = status[u]
          /\ UNCHANGED <<call, execs, taskCh, held>>
      BY <1>13 DEF ExecuteRunning, TypeOK, WorkerInv
    <3> QED
      BY <3>1 DEF CallInv, InChannel, Held, Terminal
  <2> QED
    BY <2>1, <2>2, <2>3, <2>4
<1>14. ASSUME NEW w \in Worker, ExecuteHandler(w) PROVE Inv'
  <2>1. TypeOK'
    BY <1>14 DEF ExecuteHandler, TypeOK, WorkerInv, WorkerPC
  <2>2. ChannelInv'
    BY <1>14 DEF ExecuteHandler, TypeOK, ChannelInv, WorkerInv
  <2>3. WorkerInv'
    BY <1>14, SMTT(30) DEF ExecuteHandler, TypeOK, WorkerInv
  <2>4. CallInv'
    BY <1>14 DEF ExecuteHandler, TypeOK, WorkerInv, CallInv, InChannel, Held, Terminal
  <2> QED
    BY <2>1, <2>2, <2>3, <2>4
<1>15. ASSUME NEW w \in Worker, NEW outcome \in {"completed", "failed"},
              \/ ExecuteNoHandler(w) /\ outcome = "failed"
              \/ ExecuteEnd(w, outcome)
       PROVE  Inv'
  <2>1. /\ wpc[w] \in {"lookup", "handler"}
        /\ status' = [status EXCEPT ![held[w]] = outcome]
        /\ held' = [held EXCEPT ![w] = NoTask]
        /\ wpc' = [wpc EXCEPT ![w] = "select"]
        /\ UNCHANGED <<handlers, tasks, taskCh, stopped, cancelled, call, execs>>
    BY <1>15 DEF ExecuteNoHandler, ExecuteEnd
  <2>2. TypeOK'
    BY <2>1 DEF TypeOK, WorkerInv, TaskStatus, WorkerPC
  <2>3. ChannelInv'
    BY <2>1 DEF TypeOK, ChannelInv, WorkerInv
  <2>4. WorkerInv'
    BY <2>1, SMTT(30) DEF TypeOK, WorkerInv
  <2>5. CallInv'
    BY <2>1, ZenonT(40) DEF TypeOK, WorkerInv, CallInv, InChannel, Held, Terminal
  <2> QED
    BY <2>2, <2>3, <2>4, <2>5
<1>16. ASSUME NEW old \in SUBSET Task, CleanupOldTasks(old) PROVE Inv'
  BY <1>16 DEF CleanupOldTasks, TypeOK, ChannelInv, WorkerInv, CallInv, InChannel, Held, Terminal
<1>17. CASE UNCHANGED vars
  BY <1>17 DEF vars, TypeOK, ChannelInv, WorkerInv, CallInv, InChannel, Held, Terminal
<1> QED
  BY <1>1, <1>2, <1>3, <1>4, <1>5, <1>6, <1>7, <1>8, <1>9, <1>10, <1>11, <1>12, <1>13,
     <1>14, <1>15, <1>16, <1>17
     DEF Next, CallStep, WorkerStep

-----------------------------------------------------------------------------
(* What follows from it.                                                   *)

\* The inductive invariant holds throughout: every task is with its call, in the
\* channel, with one worker, or done, and its status and execution count say so.
THEOREM Invariance == Spec => []Inv
<1> QED
  BY InitInv, StepInv, PTL DEF Spec

\* Type correctness of the queue, for any number of tasks and workers.
THEOREM TypeCorrect == Spec => []TypeOK
<1>1. Inv => TypeOK
  BY DEF Inv
<1> QED
  BY <1>1, Invariance, PTL

\* An operation handed to the agent over gRPC is executed at most once: Submit's
\* refusal and a worker's execution exclude each other.
THEOREM ExecutedAtMostOnce == Spec => []AtMostOnce
<1>1. ASSUME Inv, NEW t \in Task PROVE execs[t] <= 1
  <2>1. call[t] \in CallPC /\ execs[t] \in Nat
    BY <1>1 DEF Inv, TypeOK
  <2>2. call[t] = "accepted" \/ execs[t] \in {0, 1}
    BY <1>1, <2>1 DEF Inv, CallInv, CallPC
  <2> QED
    BY <1>1, <2>1, <2>2 DEF Inv, CallInv
<1>2. Inv => AtMostOnce
  BY <1>1, Zenon DEF AtMostOnce
<1> QED
  BY <1>2, Invariance, PTL

\* An accepted task is in the channel, at one worker or ended, and a task that
\* was not accepted is nowhere: no task is lost and none is handed out twice.
THEOREM TaskAtOnePlace == Spec => []OnePlace
<1>1. ASSUME Inv PROVE OnePlace
  <2> SUFFICES ASSUME NEW t \in Task PROVE OnePlace!(t)
    BY Zenon DEF OnePlace
  <2> QED
    BY <1>1, NoTaskAssumption, SMTT(30) DEF Inv, TypeOK, ChannelInv, WorkerInv, CallInv, InChannel, Held, Terminal
<1> QED
  BY <1>1, Invariance, PTL

\* The status of a task only moves forward and a terminal status is final.
THEOREM StatusOnlyForward == Spec => StatusForward
<1> DEFINE Forward ==
      \A t \in Task :
        status'[t] # status[t] =>
          <<status[t], status'[t]>> \in
            {<<"new", "pending">>, <<"pending", "running">>,
             <<"running", "completed">>, <<"running", "failed">>}
<1>1. ASSUME Inv, [Next]_vars PROVE [Forward]_vars
  <2> USE <1>1 DEF Inv
  <2>1. ASSUME NEW t \in Task, Submit(t) PROVE Forward
    <3>1. status[t] \in {"new", "pending"}
      BY <2>1 DEF Submit, CallInv
    <3> QED
      BY <2>1, <3>1 DEF Submit, TypeOK
  <2>2. ASSUME NEW w \in Worker, ExecuteRunning(w) PROVE Forward
    BY <2>2 DEF ExecuteRunning, TypeOK, WorkerInv
  <2>3. ASSUME NEW w \in Worker, ExecuteNoHandler(w) PROVE Forward
    BY <2>3 DEF ExecuteNoHandler, TypeOK, WorkerInv
  <2>4. ASSUME NEW w \in Worker, NEW outcome \in {"completed", "failed"}, ExecuteEnd(w, outcome)
        PROVE  Forward
    BY <2>4 DEF ExecuteEnd, TypeOK, WorkerInv
  <2>5. CASE UNCHANGED status
    BY <2>5
  <2> HIDE DEF Forward
  <2> QED
    BY <2>1, <2>2, <2>3, <2>4, <2>5
       DEF Next, CallStep, WorkerStep, vars, RegisterHandler, Start, Stop, CancelContext,
           SubmitSend, SubmitRefused, SubmitUndo, FallbackBegin, FallbackEnd, WorkerTake,
           WorkerExit, ExecuteHandler, CleanupOldTasks
<1> QED
  BY <1>1, Invariance, PTL DEF Spec, StatusForward

-----------------------------------------------------------------------------
(* The tracking map.                                                       *)

\* Tracked, strengthened to the calls that are still inside Submit, and with
\* the fact that an entry is stored under the ID of its task.
TrackInv ==
  /\ \A i \in TaskId : tasks[i] # NoTask => IdOf[tasks[i]] = i
  /\ \A t \in Task :
       /\ \/ call[t] \in {"select", "undo"}
          \/ call[t] = "accepted" /\ ~Terminal(t)
          => tasks[IdOf[t]] = t
       /\ call[t] \in {"idle", "rejected", "sync", "returned"} => tasks[IdOf[t]] # t

\* Every step keeps the map of tasks in line with the calls when IDs are unique:
\* Submit enters the task, and only the call that was refused takes it out again.
LEMMA StepTrackInv == UniqueIds /\ Inv /\ TrackInv /\ [Next]_vars => TrackInv'
<1> SUFFICES ASSUME UniqueIds, Inv, TrackInv, [Next]_vars PROVE TrackInv'
  OBVIOUS
<1> USE NoTaskAssumption, IdAssumption DEF Inv
<1>1. ASSUME NEW t \in Task, Submit(t) PROVE TrackInv'
  <2>1. CASE IdOf[t] = EmptyId
    BY <1>1, <2>1 DEF Submit, TypeOK, TrackInv, Terminal
  <2>2. CASE IdOf[t] # EmptyId
    <3>1. /\ tasks'[IdOf[t]] = t /\ call'[t] = "select"
          /\ \A i \in TaskId : i # IdOf[t] => tasks'[i] = tasks[i]
          /\ \A u \in Task : u # t => /\ IdOf[u] # IdOf[t]
                                     /\ call'[u] = call[u]
                                     /\ status'[u] = status[u]
      BY <1>1, <2>2 DEF Submit, TypeOK, UniqueIds
    <3> QED
      BY <3>1 DEF TrackInv, Terminal
  <2> QED
    BY <2>1, <2>2
<1>2. ASSUME NEW t \in Task, SubmitUndo(t) PROVE TrackInv'
  <2>1. /\ tasks'[IdOf[t]] = NoTask /\ call'[t] = "rejected"
        /\ \A i \in TaskId : i # IdOf[t] => tasks'[i] = tasks[i]
        /\ \A u \in Task : u # t => /\ IdOf[u] # IdOf[t]
                                   /\ call'[u] = call[u]
        /\ status' = status
    BY <1>2 DEF SubmitUndo, TypeOK, UniqueIds
  <2> QED
    BY <2>1 DEF TrackInv, Terminal
<1>3. ASSUME NEW t \in Task, SubmitSend(t) \/ SubmitRefused(t) \/ FallbackBegin(t) \/ FallbackEnd(t)
      PROVE  TrackInv'
  <2>1. /\ UNCHANGED <<tasks, status>>
        /\ \A u \in Task : u # t => call'[u] = call[u]
        /\ \/ call[t] = "select" /\ call'[t] \in {"undo", "accepted"}
           \/ call[t] \in {"rejected", "sync"} /\ call'[t] \in {"sync", "returned"}
    BY <1>3 DEF SubmitSend, SubmitRefused, FallbackBegin, FallbackEnd, TypeOK
  <2> QED
    BY <2>1 DEF TrackInv, Terminal
<1>4. ASSUME NEW w \in Worker, NEW s \in {"running", "completed", "failed"},
             wpc[w] \in {"taken", "lookup", "handler"},
             status' = [status EXCEPT ![held[w]] = s],
             UNCHANGED <<tasks, call>>
      PROVE  TrackInv'
  <2>1. /\ ~Terminal(held[w]) /\ call[held[w]] = "accepted"
        /\ \A u \in Task : u # held[w] => status'[u] = status[u]
    BY <1>4 DEF TypeOK, WorkerInv, Terminal
  <2> QED
    BY <1>4, <2>1 DEF TrackInv, Terminal
<1>5. ASSUME NEW old \in SUBSET Task, CleanupOldTasks(old) PROVE TrackInv'
  <2>1. /\ \A i \in TaskId : tasks'[i] \in {tasks[i], NoTask}
        /\ \A i \in TaskId : tasks[i] \in Task /\ tasks[i] \notin old => tasks'[i] = tasks[i]
        /\ \A u \in old : status[u] \in {"completed", "failed"}
        /\ UNCHANGED <<status, call>>
    BY <1>5 DEF CleanupOldTasks, TypeOK, Terminal
  <2>2. \A u \in Task : u \in old => call[u] = "accepted"
    BY <2>1 DEF CallInv
  <2> QED
    BY <2>1, <2>2 DEF TrackInv, Terminal
<1>6. CASE UNCHANGED <<tasks, status, call>>
  BY <1>6 DEF TrackInv, Terminal
<1>7. ASSUME NEW w \in Worker, WorkerStep(w) PROVE TrackInv'
  BY <1>7, <1>4, <1>6
     DEF WorkerStep, WorkerTake, WorkerExit, ExecuteRunning, ExecuteNoHandler, ExecuteHandler, ExecuteEnd
<1> QED
  BY <1>1, <1>2, <1>3, <1>5, <1>6, <1>7
     DEF Next, CallStep, vars, RegisterHandler, Start, Stop, CancelContext

\* With unique IDs an accepted task that has not ended is found under its ID,
\* and a refused task leaves no entry behind.
THEOREM MapTracksTasks == Spec => []Tracked
<1>1. Init => TrackInv
  BY NoTaskAssumption, IdAssumption DEF Init, TrackInv, Terminal
<1>2. TrackInv => Tracked
  BY Zenon DEF TrackInv, Tracked
<1>3. ~UniqueIds => Tracked
  BY DEF Tracked
<1>4. CASE UniqueIds
  <2>1. Inv /\ TrackInv /\ [Next]_vars => TrackInv'
    BY <1>4, StepTrackInv
  <2> QED
    BY <2>1, <1>1, <1>2, Invariance, PTL DEF Spec
<1>5. CASE ~UniqueIds
  <2>1. Tracked
    BY <1>5, <1>3
  <2> QED
    BY <2>1, PTL
<1> QED
  BY <1>4, <1>5

-----------------------------------------------------------------------------
(* Refinement.                                                             *)

\* The queue implements the at-most-once executor: every step of a call or a
\* worker is a step of TaskExecution or leaves the phases alone.
THEOREM Refinement == Spec => ImplementsTaskExecution
<1>1. Init => Abstract!Init
  BY DEF Init, Abstract!Init, phase, PhaseOf, Terminal, Executing
<1>2. ASSUME NEW t \in Task, NEW q,
             \A u \in Task : u # t => PhaseOf(u)' = PhaseOf(u),
             PhaseOf(t)' = q
      PROVE  phase' = [phase EXCEPT ![t] = q]
  BY <1>2, Zenon DEF phase
<1>3. ASSUME \A u \in Task : PhaseOf(u)' = PhaseOf(u)
      PROVE  phase' = phase
  BY <1>3 DEF phase
<1>4. ASSUME Inv, [Next]_vars PROVE [Abstract!Next]_phase
  <2> USE <1>4, NoTaskAssumption DEF Inv
  <2>1. ASSUME UNCHANGED <<call, status, held, wpc>> PROVE phase' = phase
    BY <2>1 DEF phase, PhaseOf, Terminal, Executing
  <2>2. ASSUME Start PROVE phase' = phase
    BY <2>2 DEF Start, phase, PhaseOf, Terminal, Executing
  <2>3. ASSUME NEW t \in Task, Submit(t) \/ SubmitRefused(t) \/ SubmitUndo(t)
        PROVE  phase' = phase
    <3>1. /\ {call[t], call'[t]} \subseteq {"idle", "select", "undo", "rejected"}
          /\ \A u \in Task : u # t => call'[u] = call[u] /\ status'[u] = status[u]
          /\ UNCHANGED <<held, wpc>>
      BY <2>3 DEF Submit, SubmitRefused, SubmitUndo, TypeOK
    <3>2. PhaseOf(t) = "new" /\ PhaseOf(t)' = "new"
      BY <3>1 DEF PhaseOf
    <3>3. \A u \in Task : u # t => PhaseOf(u)' = PhaseOf(u)
      BY <3>1 DEF PhaseOf, Terminal, Executing
    <3> QED
      BY <3>2, <3>3, <1>3, SMTT(30)
  <2>4. ASSUME NEW t \in Task, SubmitSend(t) PROVE Abstract!Accept(t)
    <3>1. /\ call[t] = "select" /\ call'[t] = "accepted" /\ status'[t] = "pending"
          /\ \A w \in Worker : held'[w] # t
          /\ \A u \in Task : u # t => call'[u] = call[u]
          /\ UNCHANGED <<status, held, wpc>>
      BY <2>4 DEF SubmitSend, TypeOK, CallInv, WorkerInv
    <3>2. PhaseOf(t) = "new" /\ PhaseOf(t)' = "queued"
      BY <3>1 DEF PhaseOf, Terminal, Executing
    <3>3. \A u \in Task : u # t => PhaseOf(u)' = PhaseOf(u)
      BY <3>1 DEF PhaseOf, Terminal, Executing
    <3>4. phase[t] = "new"
      BY <3>2 DEF phase
    <3> QED
      BY <3>2, <3>3, <3>4, <1>2 DEF Abstract!Accept
  <2>5. ASSUME NEW t \in Task, FallbackBegin(t) PROVE Abstract!Direct(t)
    <3>1. /\ call[t] = "rejected" /\ call'[t] = "sync"
          /\ \A u \in Task : u # t => call'[u] = call[u]
          /\ UNCHANGED <<status, held, wpc>>
      BY <2>5 DEF FallbackBegin, TypeOK
    <3>2. PhaseOf(t) = "new" /\ PhaseOf(t)' = "executing"
      BY <3>1 DEF PhaseOf
    <3>3. \A u \in Task : u # t => PhaseOf(u)' = PhaseOf(u)
      BY <3>1 DEF PhaseOf, Terminal, Executing
    <3>4. phase[t] = "new"
      BY <3>2 DEF phase
    <3> QED
      BY <3>2, <3>3, <3>4, <1>2 DEF Abstract!Direct
  <2>6. ASSUME NEW t \in Task, FallbackEnd(t) PROVE Abstract!Finish(t)
    <3>1. /\ call[t] = "sync" /\ call'[t] = "returned"
          /\ \A u \in Task : u # t => call'[u] = call[u]
          /\ UNCHANGED <<status, held, wpc>>
      BY <2>6 DEF FallbackEnd, TypeOK
    <3>2. PhaseOf(t) = "executing" /\ PhaseOf(t)' = "done"
      BY <3>1 DEF PhaseOf
    <3>3. \A u \in Task : u # t => PhaseOf(u)' = PhaseOf(u)
      BY <3>1 DEF PhaseOf, Terminal, Executing
    <3>4. phase[t] = "executing"
      BY <3>2 DEF phase
    <3> QED
      BY <3>2, <3>3, <3>4, <1>2 DEF Abstract!Finish
  <2>7. ASSUME NEW w \in Worker, WorkerTake(w) \/ WorkerExit(w) PROVE phase' = phase
    <3>1. /\ wpc[w] # "handler" /\ wpc'[w] # "handler" /\ held[w] = NoTask
          /\ \A v \in Worker : v # w => held'[v] = held[v] /\ wpc'[v] = wpc[v]
          /\ UNCHANGED <<call, status>>
      BY <2>7, Zenon DEF WorkerTake, WorkerExit, TypeOK, WorkerInv
    <3>2. \A u \in Task : Executing(u)' <=> Executing(u)
      BY <3>1 DEF Executing
    <3>3. \A u \in Task : PhaseOf(u)' = PhaseOf(u)
      BY <3>1, <3>2 DEF PhaseOf, Terminal
    <3> QED
      BY <3>3, <1>3
  <2>8. ASSUME NEW w \in Worker, ExecuteRunning(w) PROVE phase' = phase
    <3>1. /\ wpc[w] # "handler" /\ wpc'[w] # "handler"
          /\ held[w] \in Task /\ status[held[w]] = "pending" /\ status'[held[w]] = "running"
          /\ \A v \in Worker : v # w => wpc'[v] = wpc[v]
          /\ \A u \in Task : u # held[w] => status'[u] = status[u]
          /\ UNCHANGED <<call, held>>
      BY <2>8 DEF ExecuteRunning, TypeOK, WorkerInv
    <3>2. \A u \in Task : (Executing(u)' <=> Executing(u)) /\ (Terminal(u)' <=> Terminal(u))
      BY <3>1 DEF Executing, Terminal
    <3>3. \A u \in Task : PhaseOf(u)' = PhaseOf(u)
      BY <3>1, <3>2 DEF PhaseOf
    <3> QED
      BY <3>3, <1>3
  <2>9. ASSUME NEW w \in Worker, ExecuteHandler(w)
        PROVE  held[w] \in Task /\ Abstract!Begin(held[w])
    <3>1. /\ held[w] \in Task /\ call[held[w]] = "accepted" /\ ~Terminal(held[w])
          /\ \A v \in Worker : held[v] = held[w] => v = w
          /\ wpc[w] # "handler" /\ wpc'[w] = "handler"
          /\ \A v \in Worker : v # w => wpc'[v] = wpc[v]
          /\ UNCHANGED <<call, held, status>>
      BY <2>9, SMTT(30) DEF ExecuteHandler, TypeOK, WorkerInv, Terminal
    <3>2. PhaseOf(held[w]) = "queued" /\ PhaseOf(held[w])' = "executing"
      BY <3>1 DEF PhaseOf, Terminal, Executing
    <3>3. \A u \in Task : u # held[w] => (Executing(u)' <=> Executing(u))
      BY <3>1 DEF Executing
    <3>4. \A u \in Task : u # held[w] => PhaseOf(u)' = PhaseOf(u)
      BY <3>1, <3>3 DEF PhaseOf, Terminal
    <3>5. phase[held[w]] = "queued"
      BY <3>1, <3>2 DEF phase
    <3>6. phase' = [phase EXCEPT ![held[w]] = "executing"]
      BY <3>1, <3>2, <3>4, Zenon DEF phase
    <3> QED
      BY <3>1, <3>5, <3>6 DEF Abstract!Begin
  <2>10. ASSUME NEW w \in Worker, NEW outcome \in {"completed", "failed"},
                \/ ExecuteNoHandler(w) /\ outcome = "failed"
                \/ ExecuteEnd(w, outcome)
         PROVE  held[w] \in Task /\ (Abstract!Drop(held[w]) \/ Abstract!Finish(held[w]))
    <3>1. /\ held[w] \in Task /\ call[held[w]] = "accepted"
          /\ ~Terminal(held[w]) /\ status'[held[w]] = outcome
          /\ \A v \in Worker : held[v] = held[w] => v = w
          /\ wpc'[w] = "select"
          /\ \A v \in Worker : v # w => wpc'[v] = wpc[v] /\ held'[v] = held[v]
          /\ \A u \in Task : u # held[w] => status'[u] = status[u]
          /\ UNCHANGED call
      BY <2>10, Zenon DEF ExecuteNoHandler, ExecuteEnd, TypeOK, WorkerInv, Terminal
    <3>2. PhaseOf(held[w]) \in {"queued", "executing"}
      BY <3>1 DEF PhaseOf
    <3>3. \A u \in Task : u # held[w] => (Executing(u)' <=> Executing(u))
      BY <3>1 DEF Executing
    <3>4. \A u \in Task : u # held[w] => PhaseOf(u)' = PhaseOf(u)
      BY <3>1, <3>3 DEF PhaseOf, Terminal
    <3>5. \A u \in Task : phase'[u] = IF u = held[w] THEN "done" ELSE phase[u]
      BY <3>1, <3>4, Zenon DEF phase, PhaseOf, Terminal
    <3>6. phase[held[w]] \in {"queued", "executing"}
      BY <3>1, <3>2 DEF phase
    <3>7. phase' = [phase EXCEPT ![held[w]] = "done"]
      BY <3>1, <3>5, Zenon DEF phase
    <3> QED
      BY <3>1, <3>6, <3>7 DEF Abstract!Drop, Abstract!Finish
  <2>11. ASSUME NEW t \in Task, CallStep(t) PROVE Abstract!Next \/ phase' = phase
    BY <2>11, <2>3, <2>4, <2>5, <2>6 DEF CallStep, Abstract!Next
  <2>12. ASSUME NEW w \in Worker, WorkerStep(w) PROVE Abstract!Next \/ phase' = phase
    BY <2>12, <2>7, <2>8, <2>9, <2>10 DEF WorkerStep, Abstract!Next
  <2>13. CASE UNCHANGED vars
    BY <2>13, <2>1 DEF vars
  <2> QED
    BY <2>1, <2>2, <2>3, <2>11, <2>12, <2>13
       DEF Next, RegisterHandler, Stop, CancelContext, CleanupOldTasks
<1> QED
  BY <1>1, <1>4, Invariance, PTL DEF Spec, ImplementsTaskExecution, Abstract!Spec
=============================================================================
