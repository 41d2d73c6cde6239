\* An interrupt between the test of a semaphore and the wait.
CONSTANTS
  t1 = t1
  t2 = t2
  Task = {t1, t2}
  Sem = {0}
  Event = {}
  NO_TID = NO_TID
  Prio <- Prio2
  MaxValue <- Binary
  InitValue <- Zero
  Clock <- MasterClock
  Times <- OneTick
  Steps <- NoSteps
  Preempt = TRUE
SPECIFICATION Spec
INVARIANT NoIdleToken
