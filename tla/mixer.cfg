SPECIFICATION MCSpec
CONSTANTS
  Num = 3
  Den = 2
  NoTS = NoTS
  UserInput = {1, 2}
  Restarted = {1}
  Adjustment <- MCShifts
  PtsStep <- MCPtsStep
  CaptionsPerFrame = {1}
  Faulty = TRUE
  MinTS <- MCMinTS
  MaxClock = 8
  MaxFrame = 1
  MaxExtractorRuns = 2
  MaxInjectorRuns = 2
  Capacity = 2
  Scenes = {"switching", "switchingRestarts", "inputRestarts", "adjusting", "outputRestarts", "outputJumps"}
INVARIANTS
  TypeOK
  ResetBetweenInputs
  NoLeftovers
  OneResetPerInput
  SamePointAtFirst
  NeverEarly
  ClockNotBehind
PROPERTIES
  ClockMonotone
