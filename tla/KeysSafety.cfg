CONSTANTS
  a = a
  b = b
  Peers <- MCPeers
  Acquainted = FALSE
  Rotators <- MCRotators
  MaxMint = 2
  MaxSend = 1
  MaxInFlight = 2
  Events = {"remove", "save", "reopen", "overtake", "again", "lost"}
SPECIFICATION Spec
INVARIANTS TypeOK EpochNamesOneKey PendingIsNotFriend SettledAgree
PROPERTIES OnlyRetiredUnopened 
