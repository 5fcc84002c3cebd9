SPECIFICATION Listening
CONSTANTS
  UserInput = {"food", "bipbop"}
  Output = "output"
  None = None
  Starts <- MCStarts
  MaxOptions = 0
PROPERTIES
  Terminates
CHECK_DEADLOCK FALSE
