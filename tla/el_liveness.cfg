\* One slot, two connections one after the other.
SPECIFICATION FairELSpec
CONSTANTS
  Sids <- MCTwoSids
  Interval = 1
  CountCap = 1
  CallsUpdate = FALSE
  MaxConn = 1
  Fds = {f1, f2, f3}
  MaxAccepts = 2
  SidModulus = 16
  Explored = {}
PROPERTIES EveryConnCloses
CHECK_DEADLOCK FALSE
