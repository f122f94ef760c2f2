\* Requests of five and of seven into a buffer of six, fourteen bytes in all.
SPECIFICATION FairReceptionSpec
CONSTANTS
  InitialSize = 6
  ReadSize = 6
  MaxBufferLen = 12
  MaxBytes = 14
  Lengths <- MCLengths
INVARIANTS ParsesOneRequest  ReadEventIsDue
PROPERTIES EveryRequestParsed
CHECK_DEADLOCK FALSE
