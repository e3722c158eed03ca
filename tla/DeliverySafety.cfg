CONSTANTS
  a = a
  b = b
  Peers <- MCPeers
  Senders <- MCSenders
  MaxSend = 2
  Loops = {l1}
  PullLimit = 1
  Events = {"lock", "crash", "save", "push", "ack"}
SPECIFICATION Spec
INVARIANTS TypeOK AtMostOnce SeqNeverReused  ParkedUntilHandled 
 
