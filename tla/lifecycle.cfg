SPECIFICATION StartupSpec
CONSTANTS
  UserInput = {"food", "bipbop"}
  Output = "output"
  None = None
  Starts <- MCStarts
  MaxOptions = 2
INVARIANTS
  TypeOK
  OneRestartPerRequest
  InputsAsGiven
  ThreadsFindInputs
PROPERTIES
  RestartHonoured
  StoppedEnds
CHECK_DEADLOCK FALSE
