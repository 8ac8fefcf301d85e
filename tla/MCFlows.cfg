SPECIFICATION Spec
CONSTANTS
  Counts <- ConfiguredCounts
  Host = 7
  Interval = 5
INVARIANTS TypeOK PlausibleInterfaces WalksInterfaces TablesComplete CountersAgree
INVARIANTS PortsInUse WithinCounters V9Readable OnePacket
CHECK_DEADLOCK FALSE
