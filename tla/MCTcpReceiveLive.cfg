CONSTANTS
  SeqSpace = 64
  irs = 60
  N = 4
  sb_hiwat = 3
  t_maxseg = 2
  Overrun = FALSE
  OutputMayFail = FALSE
  MaxQueued = 1
SPECIFICATION FairSpec
PROPERTY StreamArrives
CHECK_DEADLOCK FALSE
