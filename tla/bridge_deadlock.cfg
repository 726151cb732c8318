SPECIFICATION FairSpec
CONSTANTS
  None = None
  TaskKinds = {"call", "configCall", "open"}
  ConsoleKinds = {}
  MaxTasks = 2
  MaxRefreshes = 1
  MaxCommands = 1
PROPERTY TaskAnswered
CHECK_DEADLOCK FALSE
