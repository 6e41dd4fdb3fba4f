CONSTANTS
  Scripts = {x, o}
  Orig = o
  MaxText = 1
  MaxEdits = 4
  MaxSyncs = 2
  MaxSlips = 1
SPECIFICATION SyncSpec
INVARIANT ReplicasAgree
 
