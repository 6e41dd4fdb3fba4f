CONSTANTS
  Names = {d, x}
  Bad = bad
  MaxFaults = 1
  MaxOps = 3
  MaxOthers = 1
  Files = {1, 2, 3}
  MaxSteps = 6
  MaxChanges = 1
  Confs <- MCConfs
  Autos <- MCAutos
SPECIFICATION Spec
SYMMETRY Sym
INVARIANT ApiSound
INVARIANT RightScriptFound
PROPERTY ActiveScriptKept
