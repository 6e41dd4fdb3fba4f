SPECIFICATION CodeSpec
CONSTANTS
  p = p
  q = q
  Scripts <- ScriptSet
  Programs <- AllPrograms
  Atoms <- AtomSet
  Message <- MimeMessage
  MaxLoopDepth = 2
  MaxIncludes = 2
  Names <- AllNames
  MaxTags = 3
  MaxWords = 3
CHECK_DEADLOCK FALSE
INVARIANT ProgramMeansText
INVARIANT StatementsReadBack
PROPERTY ProgramEnds
