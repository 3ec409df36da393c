CONSTANTS
  Key = {k1, k2}
  ncallout = 3
  MaxTicks = 3
  MaxOverdue = 1
SPECIFICATION FairSpec
INVARIANTS
  TypeOK
  TableIsKept
PROPERTIES
  KeepsPromise
  TimersFire
CHECK_DEADLOCK FALSE
