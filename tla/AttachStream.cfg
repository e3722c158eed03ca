CONSTANTS
  Absent = Absent
  NumChunks = 2
  MaxRecords = 2
  Handlers = {h1, h2}
  Events = {}
SPECIFICATION Spec
INVARIANT StreamedWhenReachable
