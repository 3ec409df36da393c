CONSTANTS
  SeqSpace = 64
  irs = 60
  N = 4
  sb_hiwat = 3
  t_maxseg = 2
  Overrun = TRUE
  OutputMayFail = FALSE
  MaxQueued = 2
SPECIFICATION Spec
INVARIANT FinPastWindowIsDropped
CHECK_DEADLOCK FALSE
