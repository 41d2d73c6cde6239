\* The queues of this application: two posters, no delays, the tick anywhere.
CONSTANTS
  Size = 4
  Poster = {p1, p2}
  NoTask = NoTask
  Delays <- NoDelay
  Periods <- NoPeriod
  Byte = 2
  Word = 4
  Preempt = TRUE
SPECIFICATION FairSpec
PROPERTIES
  ImplementsFairDelayQueue
  BlockedPosts
