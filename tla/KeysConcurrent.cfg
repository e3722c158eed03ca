CONSTANTS
  a = a
  b = b
  Peers <- MCPeers
  Acquainted = TRUE
  Rotators <- MCPeers
  MaxMint = 2
  MaxSend = 0
  MaxInFlight = 2
  Events = {}
SPECIFICATION Spec
INVARIANTS SettledAgree
