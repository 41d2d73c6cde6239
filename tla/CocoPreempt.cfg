\* Two tasks, a semaphore, two events, interrupts anywhere.
CONSTANTS
  t1 = t1
  t2 = t2
  Task = {t1, t2}
  Sem = {0}
  Event = {e1, e2}
  NO_TID = NO_TID
  Prio <- Prio2
  MaxValue <- Binary
  InitValue <- Zero
  Clock <- MasterClock
  Times <- OneTick
  Steps <- NoSteps
  Preempt = TRUE
SPECIFICATION Spec
INVARIANTS
  TypeOK
  WaitersCanBeWoken
  RunningIsReady
PROPERTIES
  TimeoutTellsApart
  NoTokenFromNothing
