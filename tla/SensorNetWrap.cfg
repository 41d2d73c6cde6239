\* The clock wraps.
CONSTANTS
  s1 = s1
  s2 = s2
  Sensor = {s1, s2}
  Prio <- TaskPrio
  Free = Free
  StartDelay = 1
  CharDelay = 1
  ReceiveDelay = 1
  Chars = 1
  CommandTimeout = 3
  UplinkTimeout = 4
  DownlinkTimeout = 5
  SendInterval = 4
  PollInterval = 3
  Downlink = TRUE
  PowerOnly = FALSE
  Wrap = 30
  Horizon = 30
SPECIFICATION Spec
INVARIANTS
  OneUartMessage
