CONSTANTS
  good = good
  circular = circular
  broken = broken
  big = big
  Partial = Partial
  NoName = NoName
  NoFile = NoFile
  NoLink = NoLink
  Regular = Regular
  s1 = s1
  s2 = s2
  n1 = n1
  n2 = n2
  Session = {s1, s2}
  Name = {n1, n2}
  Content = {good, circular, broken}
  UploadValid = {good, circular}
  ReplaceValid = {good}
  ActivateValid = {good}
  Default = n1
  OrigName = n2
  DefaultContent = good
  OrigContent = good
  StartActive = {NoLink}
  Size <- MCSize
  MaxScripts = 9
  MaxStorage = 99
  Faults = {"crash", "readlink", "rename", "stat", "symlink", "unlink", "upload"}
SPECIFICATION Spec
SYMMETRY Sessions
INVARIANT OnlyCompiledScripts
INVARIANT NoTmpLeft
PROPERTY RenameOverwritesNothing
