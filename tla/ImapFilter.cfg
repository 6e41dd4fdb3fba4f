SPECIFICATION FairSpec
CONSTANTS
  Uids = {1, 2}
  MaxEvents = 2
  MaxCommands = 2
CHECK_DEADLOCK FALSE
PROPERTY MessagesHandledOnce
PROPERTY FilterEnds
PROPERTY CommandsEnd
