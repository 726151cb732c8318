SPECIFICATION Spec
CONSTANTS
  None = None
  UT32_MAX = 15
  Classes = {c1, c2}
  FirstEntries <- MCFirstEntries
  Entries <- MCEntries
  Capacity = 2
  JavaMax = 2
  MaxCaptures = 2
  MaxMoves = 1
  MaxCommands = 3
INVARIANTS UrisAgree CapturesAccounted
PROPERTY DatabaseNeverGoesBack
SYMMETRY ClassSymmetry
CHECK_DEADLOCK FALSE
