\* Files shorter and longer than the send buffer; responses up to sixteen bytes.
SPECIFICATION FairExchangeSpec
CONSTANTS
  HeadersLength = 3
  PageLength = 2
  FileLengths <- MCFileLengths
  SendBuffer = 4
  MaxSent = 16
INVARIANTS SentInOrder CountsWhatIsSent EventIsDue
PROPERTIES DeliversResponses EveryResponseEnds
CHECK_DEADLOCK FALSE
