CONSTANTS
  a = a
  b = b
  Peers <- MCPeers
  Senders <- MCSenders
  MaxSend = 2
  Loops = {l1}
  PullLimit = 1
  Events = {"pull", "ack"}
SPECIFICATION FairSpec
PROPERTY EventuallyStored
