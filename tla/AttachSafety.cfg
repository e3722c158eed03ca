CONSTANTS
  Absent = Absent
  NumChunks = 3
  MaxRecords = 2
  Handlers = {h1, h2}
  Events = {"save", "start", "lock", "crash", "breaks", "source", "disk", "again"}
SPECIFICATION Spec
SYMMETRY HandlerSymmetry
INVARIANTS TypeOK  RecordedOnce  NothingForgotten
PROPERTY SavedIsKept
