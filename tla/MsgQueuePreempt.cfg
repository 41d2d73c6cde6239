\* Delayed and periodic messages, ticks anywhere: a delay of 2 takes two bytes.
CONSTANTS
  Size = 4
  Poster = {p1}
  NoTask = NoTask
  Delays <- ShortDelays
  Periods <- ShortPeriods
  Byte = 2
  Word = 4
  Preempt = TRUE
SPECIFICATION Spec
INVARIANTS
  TypeOK
  NeverEarly
PROPERTIES
  ScanEnds
  ImplementsLateQueue
