CONSTANTS
  MaxPush = 2
  MaxClock = 1
  Suffixes = {0}
  Clients = {c1, c2}
  PullLimit = 1
  Events = {"restart", "clock", "lost"}
SPECIFICATION FairSpec
INVARIANTS TypeOK NoOvertaking LostOnlyByTornRead
PROPERTY EventuallyReceived
