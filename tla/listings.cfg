SPECIFICATION Spec
CONSTANTS
  Items = {i1, i2}
  Classes = {c1, c2}
  None = None
  MaxRequests = 4
  MaxChanges = 2
INVARIANTS TypeOK UnmappedIsTrue ListingsShowEvals NewOnce
