\* Delayed and periodic messages, two posters, no tick within a receive (so
\* that it does not matter how many bytes a delay has).
CONSTANTS
  Size = 3
  Poster = {p1, p2}
  NoTask = NoTask
  Delays <- FewDelays
  Periods <- LongPeriods
  Byte = 4
  Word = 4
  Preempt = FALSE
SPECIFICATION FairSpec
INVARIANTS
  DelayCountsTicks
  NoLostWakeUp
PROPERTIES
  ImplementsDelayQueue
  QueuedIsReceived
