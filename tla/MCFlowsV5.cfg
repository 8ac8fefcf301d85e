SPECIFICATION Spec
CONSTANTS
  Counts <- ConfiguredCounts
  Host = 7
  Interval = 5
INVARIANT V5Readable
CHECK_DEADLOCK FALSE
