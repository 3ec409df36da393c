CONSTANTS
  SeqSpace = 64
  irs = 60
  N = 7
  sb_hiwat = 5
  t_maxseg = 3
  MaxQueued = 3
  Overrun = TRUE
  OutputMayFail = TRUE
SPECIFICATION Spec
INVARIANTS
  TypeOK
  StreamInOrder
  AcksWhatArrived
  PromiseFits
PROPERTY NoTextAfterFin
CHECK_DEADLOCK FALSE
