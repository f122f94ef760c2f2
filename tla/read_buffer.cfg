\* Three bytes at a time into a buffer of three that may double twice.
SPECIFICATION RBSpec
CONSTANTS
  InitialSize = 3
  ReadSize = 3
  MaxBufferLen = 15
  MaxBytes = 18
INVARIANTS WithinCapacity HoldsLastArrived
PROPERTIES ActsAsByteQueue
CHECK_DEADLOCK FALSE
