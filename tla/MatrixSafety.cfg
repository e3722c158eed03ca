CONSTANTS
  MaxLogins = 2
  MaxCrossings = 2
  Slots = {1, 2, 3}
  None = None
  Torn = Torn
SPECIFICATION FairSpec
INVARIANTS TypeOK SessionOpensStore  LoggedInIsKept SyncOnce SyncRuns
PROPERTY CommandsEnd
