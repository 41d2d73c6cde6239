\* One legacy sensor with a merged trail, as setup_sensor_context configures it,
\* and a driver whose polls differ.
CONSTANTS
  s1 = s1
  s2 = s2
  e = e
  c1 = c1
  c2 = c2
  c3 = c3
  Sensor = {s1}
  Event = {}
  NoSem = NoSem
  Nobody = Nobody
  Command = {c1, c2, c3}
  NoCommand = NoCommand
  Longer = {}
  Polls <- Varying
  Merge = {s1}
  Faults = FALSE
  TrailSize = 8
  MergedSize = 8
SPECIFICATION Spec
INVARIANTS
  InjectsReplayed
