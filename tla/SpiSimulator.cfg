\* Two legacy sensors, one with a merged trail, and an event sensor share the
\* port.  The trail has room for two records.
CONSTANTS
  s1 = s1
  s2 = s2
  e = e
  c1 = c1
  c2 = c2
  c3 = c3
  Sensor = {s1, s2, e}
  Event = {e}
  NoSem = NoSem
  Nobody = Nobody
  Command = {c1, c2, c3}
  NoCommand = NoCommand
  Longer = {c3}
  Polls <- SteadyAndVarying
  Merge = {s1}
  Faults = TRUE
  TrailSize = 8
  MergedSize = 8
SPECIFICATION FairSpec
INVARIANTS
  TypeOK
  WaitIsAnswered
  NoStaleToken
  WokenMeansComplete
  CompleteMeansBoth
  InjectsReplayed
PROPERTIES
  PortComesBack
  KeepsSimulating
