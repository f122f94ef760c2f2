\* Two slots, three connections, going on after every fault but a slot overwritten; the third sid is too long for an event.
SPECIFICATION ELSpec
CONSTANTS
  Sids <- MCFourSids
  Interval = 1
  CountCap = 1
  CallsUpdate = FALSE
  MaxConn = 2
  Fds = {f1, f2, f3}
  MaxAccepts = 3
  SidModulus = 3
  Explored = {"early_close", "lost_update", "torn_reset", "stray_close", "truncated"}
INVARIANTS Registered SocketsOwned Timed CountExact
 
SYMMETRY AnyFd
VIEW WithoutAges
CHECK_DEADLOCK FALSE
