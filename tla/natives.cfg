SPECIFICATION Spec
CONSTANTS
  Threads = {t1, t2}
  Capacity = 1
  MaxCalls = 4
  MaxRequests = 4
INVARIANTS TypeOK RefsBalanced NoThreadBlind OffClears
PROPERTY ImplementsCaptures
