\* Up to two lines; four connections to one loop or to seven, three descriptors.
SPECIFICATION FairServerSpec
CONSTANTS
  Names <- MCNames
  Values = {0, 1, 7}
  NoValue = none
  Buckets = {"bucket", "another"}
  Hash <- MCHash
  MaxLines = 2
  CoreCounts = {2, 5}
  Fds = {1, 2, 7}
  MaxArrivals = 4
INVARIANTS LastLineCounts AcceptEventDue ServedByThread OpenWithinLimit 
 
CHECK_DEADLOCK FALSE
