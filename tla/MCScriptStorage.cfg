CONSTANTS
  good = good
  circular = circular
  broken = broken
  big = big
  Partial = Partial
  NoName = NoName
  NoFile = NoFile
  NoLink = NoLink
  Regular = Regular
  s1 = s1
  n1 = n1
  n2 = n2
  n3 = n3
  Session = {s1}
  Name = {n1, n2, n3}
  Content = {good, circular, broken}
  UploadValid = {good, circular}
  ReplaceValid = {good}
  ActivateValid = {good}
  Default = n1
  OrigName = n3
  DefaultContent = good
  OrigContent = good
  StartActive = {NoLink, Regular}
  Size <- MCSize
  MaxScripts = 2
  MaxStorage = 99
  Faults = {"crash", "rename", "stat", "symlink", "unlink", "upload"}
SPECIFICATION FairSpec
INVARIANT ActiveResolves
PROPERTY StoreSpec
PROPERTY OkIsTrue
PROPERTY Answered
