CONSTANTS
  a = a
  b = b
  Peers <- MCPeers
  Senders <- MCSenders
  MaxSend = 1
  Loops = {l1}
  PullLimit = 1
  Events = {"lock"}
SPECIFICATION Spec
INVARIANTS ParkedUntilStored
