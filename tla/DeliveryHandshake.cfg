CONSTANTS
  a = a
  b = b
  Peers <- MCPeers
  Senders <- MCSenders
  MaxSend = 1
  Loops = {l1}
  PullLimit = 1
  Events = {"handshake"}
SPECIFICATION Spec
INVARIANTS AcceptsWhileOpen
