SPECIFICATION Spec
CONSTANTS
  None = None
  TaskKinds = {"call", "coreCall", "open"}
  ConsoleKinds = {"consoleCall", "consoleOpen", "consoleClose"}
  MaxTasks = 2
  MaxRefreshes = 1
  MaxCommands = 2
INVARIANT SessionOutlivesCall
CHECK_DEADLOCK FALSE
