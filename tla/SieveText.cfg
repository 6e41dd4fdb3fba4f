SPECIFICATION Spec
CONSTANTS
  MaxStringLen = 6
  MaxIdentifierLen = 4
  NumberBits = 22
  MaxBlockNesting = 2
  MaxTestNesting = 2
  MaxArguments = 2
  MaxErrors = 2
  Identifiers = {"require", "set", "stop", "if", "else", "elsif", "false", "exists", "anyof", "bogus"}
  MaxMatchValues = 4
  MaxNameLen = 2
  MaxElements = 2
  MaxIndex = 9
  MaxScopeCount = 2
  MaxValueSize = 4
  MaxInput = 5
  MaxSentence = 4
  MaxEncoded = 7
  MaxEdited = 9
  MaxSets = 3
  ByteBits = 3
  NumberSize = 3
  MaxIncludes = 2
  MaxGlobals = 2
  MaxItems = 3
  MaxDeps = 2
CHECK_DEADLOCK FALSE
PROPERTY TokensReadBack
PROPERTY AcceptedIsLanguage
PROPERTY MatchesMeansWildcards
PROPERTY SubstitutionsMean
PROPERTY StoredIsTrusted
