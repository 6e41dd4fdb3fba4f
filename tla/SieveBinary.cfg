CONSTANTS
  Deliveries = {d1, d2}
  Usages = {0, 1}
  UintMax = 2
  HighCpu = 0
  MaxCpu = 1
  Timeout = 0
  MaxClock = 2
  MaxVersion = 2
  MaxInodes = 2
SPECIFICATION FairSpec
INVARIANT RunsCurrentBinary
PROPERTY UsageIsAccounted
PROPERTY DeliveryEnds
