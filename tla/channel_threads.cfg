SPECIFICATION FairSpec
CONSTANTS
  worker = worker
  console = console
  bridgeMutex = bridgeMutex
  coreLock = coreLock
  None = None
  Clients = {worker, console}
  Interruptible = {console}
  Locks = {bridgeMutex, coreLock}
  Holds <- SeparateLocks
  Capacity = 1
  MaxCalls = 2
  MaxEvents = 0
  UserIds = {}
  MaxCancels = 1
  MaxDrains = 0
  MaxDeaths = 1
INVARIANTS SlotOwned ScriptPresentAtPost ForeignReplyNeedsRace
PROPERTIES HandlersReturn WaitIsInterruptible
