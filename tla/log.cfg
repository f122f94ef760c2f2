\* Four messages, one failure: a ring that can be lapped.
SPECIFICATION FairLogSpec
CONSTANTS
  NElements = 3
  BufferSize = 3
  Lengths <- MCLengths
  RotateSize = 4
  MaxMessages = 4
  MaxFailures = 1
INVARIANTS NoOverrun OrderKept FilesRotated
PROPERTIES ActsAsQueue EveryMessageWritten
CHECK_DEADLOCK FALSE
