CONSTANTS
  p1 = p1
  p2 = p2
  c1 = c1
  c2 = c2
  b1 = b1
  NONE = NONE
  Proc = {p1}
  Chan = {c1}
  Bucket = {b1}
  LOOKUP <- OneBucket
  Sig = {"kill", "term", "tstp", "cont"}
  IntrSig = {"term", "tstp"}
  Caught <- NoSignals
  Blocked <- NoSignals
SPECIFICATION FairSpec
INVARIANT ZeroMeansWakeup
PROPERTIES
  TimedSleepEnds
  KillEndsSleep
