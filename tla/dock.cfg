SPECIFICATION Spec
CONSTANTS
  Pressed = {"bpSet", "bpRemove", "bpList", "messages"}
  Addresses = {1}
  BufferMax = 1
  MaxPresses = 3
  MaxNotes = 2
  MaxSessions = 2
INVARIANTS  NotificationsShown
CHECK_DEADLOCK FALSE
