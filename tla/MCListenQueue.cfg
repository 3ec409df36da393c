CONSTANTS
  p1 = p1
  p2 = p2
  s1 = s1
  s2 = s2
  s3 = s3
  NONE = NONE
  Proc = {p1, p2}
  Sock = {s1, s2, s3}
  Qlimit = 1
SPECIFICATION FairSpec
INVARIANTS
  TypeOK
  QueuesAgree
  NothingLeaks
  NoAcceptorForgotten
PROPERTIES
  ConnectionsProceed
CHECK_DEADLOCK FALSE
