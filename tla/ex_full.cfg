\* No file is empty: a connection is closed because the socket is full.
SPECIFICATION ExchangeSpec
CONSTANTS
  HeadersLength = 3
  PageLength = 2
  FileLengths <- MCFullFiles
  SendBuffer = 3
  MaxSent = 16
PROPERTIES FullIsNoError
CHECK_DEADLOCK FALSE
