\* What the comment of lmvs-el.c:84 says of a failed receive, when sids have passed the bits that an event keeps.
SPECIFICATION ELSpec
CONSTANTS
  Sids <- MCSids
  Interval = 1
  CountCap = 1
  CallsUpdate = FALSE
  MaxConn = 2
  Fds = {f1, f2, f3}
  MaxAccepts = 2
  SidModulus = 2
  Explored = {"truncated"}
PROPERTIES FailureClears
SYMMETRY AnyFd
VIEW WithoutAges
CHECK_DEADLOCK FALSE
