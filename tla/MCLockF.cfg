CONSTANTS
  p1 = p1
  p2 = p2
  p3 = p3
  f1 = f1
  Posix = {p1, p2, p3}
  Flock = {f1}
  LastByte = 1
  Asks <- AskedFor
  maxlockdepth = 2
  MaxLocks = 4
SPECIFICATION Spec
INVARIANTS
  TypeOK
  OwnLocksInOrder
  SleepsForAReason
  DeadlocksAreFound
CHECK_DEADLOCK FALSE
PROPERTY KeepsPromise
