SPECIFICATION Spec
CONSTANTS
  None = None
  All = All
  Threads = {t1, t2}
  FirstThreads = {t1}
  Refusing = {}
  Addresses = {1, 2}
  Sizes = {2}
  Slots = 2
  MaxCommands = 4
  MaxHits = 3
INVARIANTS TypeOK StopsAccounted ContinueReleasesOne WritesTakeEffect HardwareMatches
