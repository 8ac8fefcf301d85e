SPECIFICATION Spec
CONSTANTS
  Counts <- ConfiguredCounts
  Host = 7
INVARIANT AliasServed
CHECK_DEADLOCK FALSE
