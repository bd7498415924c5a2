\* One worker and a channel of two: three submissions can fill the queue.
SPECIFICATION FairSpec
CONSTANTS
  t1 = t1
  t2 = t2
  t3 = t3
  t4 = t4
  Task = {t1, t2, t3, t4}
  NoTask = NoTask
  EmptyId = EmptyId
  MaxWorkers = 1
  TaskId <- MCTaskId
  TaskType <- MCTaskType
  IdOf <- MCIdOf
  TypeOf <- MCTypeOf
INVARIANTS AtMostOnce Tracked
PROPERTIES ImplementsTaskExecution AcceptedEnds SubmitReturns WorkersExit
CHECK_DEADLOCK FALSE
