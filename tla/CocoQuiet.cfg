\* Semaphores and clocks: two tasks and handlers between kernel calls.
CONSTANTS
  t1 = t1
  t2 = t2
  Task = {t1, t2}
  Sem = {0}
  Event = {}
  NO_TID = NO_TID
  Prio <- Prio2
  MaxValue <- Counting
  InitValue <- Zero
  Clock <- TwoClocks
  Times <- TwoTicks
  Steps <- OneTick
  Preempt = FALSE
SPECIFICATION FairSpec
INVARIANTS
  NoIdleToken
PROPERTIES
  ImplementsSemaphore
  TimedWaitEnds
  MostUrgentRuns
