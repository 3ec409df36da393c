CONSTANTS
  Proc = {p1, p2, p3}
  NoThread = NoThread
  MaxReads = 2
  MaxDepth = 1
  AnyWriterRecurses = FALSE
SPECIFICATION FairSpec
INVARIANTS
  TypeOK
  MutualExclusion
  CountsAgree
  SleepsForAReason
  NoDeadlock
PROPERTY SleepersWake
