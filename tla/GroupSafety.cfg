CONSTANTS
  a = a
  b = b
  c = c
  NoGroup = NoGroup
  Peers <- MCPeers
  Friends <- MCFriends
  Admins <- MCAdmins
  MaxMint = 3
  MaxSend = 1
  Events = {"save", "reopen", "again"}
SPECIFICATION Spec
INVARIANTS TypeOK HeldWasGranted OneKeyPerEpoch SettledAgree UnopenedOnlyAcrossEpochs
PROPERTY SavedEpochNeverFalls
