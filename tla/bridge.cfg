SPECIFICATION FairSpec
CONSTANTS
  None = None
  TaskKinds = {"call", "coreCall", "configCall", "open"}
  ConsoleKinds = {"consoleOpen", "consoleClose"}
  MaxTasks = 2
  MaxRefreshes = 1
  MaxCommands = 1
INVARIANTS TypeOK OneSession OneCallAtATime StuckOnlyInverted
PROPERTIES ImplementsTasks AnsweredUnlessInverted
CHECK_DEADLOCK FALSE
