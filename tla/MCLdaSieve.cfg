CONSTANTS
  Inbox = Inbox
  Folder = Folder
  Friend = Friend
  NoTarget = NoTarget
  Mailbox = {Inbox, Folder}
  DefaultMailbox = Inbox
  Address = {Friend}
  SourceMailbox = NoTarget
  MaxActions = 2
  MaxRedirects = 4
  ScriptCount = 2
  HasDiscard = TRUE
  Command <- AllCommands
  MaxCommands = 3
  MaxDeliveries = 2
  MayCorrupt = TRUE
SPECIFICATION Spec
CHECK_DEADLOCK FALSE
INVARIANT ResultSound
INVARIANT TempFailureLeavesNothing
INVARIANT MessageAccounted
INVARIANT ResponsesInTurn
PROPERTY Terminates
