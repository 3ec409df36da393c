CONSTANTS
  p1 = p1
  p2 = p2
  c1 = c1
  c2 = c2
  b1 = b1
  NONE = NONE
  Proc = {p1, p2}
  Chan = {c1, c2}
  Bucket = {b1}
  LOOKUP <- OneBucket
  Sig = {"term", "tstp", "cont"}
  IntrSig = {"term", "tstp"}
  Caught <- CaughtBy
  Blocked <- BlockedBy
SPECIFICATION Spec
INVARIANTS
  TypeOK
  QueuesAgree
  TimeoutsBelong
  NoSignalLeftBehind
PROPERTY StoppedStaysStopped
