SPECIFICATION FairSpec
CONSTANTS
  AbortAge = 2
  DNs = {d1, d2}
  MaxVersion = 2
  MaxCalls = 2
  MaxFaults = 1
  MaxUpdates = 1
INVARIANT RequestsSound
INVARIANT FindsCurrent
PROPERTY AllReturn
