\* Three sids, keep_alive of two seconds, lmvs_timer_update included.
SPECIFICATION TimerSpec
CONSTANTS
  Sids <- MCSids
  Interval = 2
  CountCap = 1
  CallsUpdate = TRUE
INVARIANTS  NeverEarly NeverLate
CHECK_DEADLOCK FALSE
