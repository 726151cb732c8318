SPECIFICATION Spec
CONSTANTS
  worker = worker
  console = console
  bridgeMutex = bridgeMutex
  coreLock = coreLock
  None = None
  Clients = {worker, console}
  Interruptible = {console}
  Locks = {bridgeMutex, coreLock}
  Holds <- SharedLock
  Capacity = 2
  MaxCalls = 2
  MaxEvents = 1
  UserIds = {1}
  MaxCancels = 1
  MaxDrains = 1
  MaxDeaths = 1
INVARIANTS TypeOK CancelJustified BufferAccounts
PROPERTY ImplementsRpc
