CONSTANTS
  a = a
  b = b
  Peers <- MCPeers
  Senders <- MCSenders
  MaxSend = 1
  Loops = {l1, l2}
  PullLimit = 1
  Events = {"lock", "crash", "save", "push", "pull", "ack", "handshake"}
SPECIFICATION Spec
INVARIANTS AtMostOnce ParkedUntilHandled
SYMMETRY LoopSymmetry
