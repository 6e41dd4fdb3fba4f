SPECIFICATION FairSpec
CONSTANTS
  MaxLine = 16
  MaxReconnects = 1
  MaxSent = 4
  MaxBad = 2
  MaxScript = 2
  Dialogues <- AllDialogues
  LineEnd <- Lf
 
INVARIANT ProxyFaithful
PROPERTY AllAnswered
