SPECIFICATION StartupSpec
CONSTANTS
  UserInput = {"food", "bipbop"}
  Output = "output"
  None = None
  Starts <- MCStarts
  MaxOptions = 2
INVARIANTS
  FileHasPriority
CHECK_DEADLOCK FALSE
