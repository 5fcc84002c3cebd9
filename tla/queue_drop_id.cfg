SPECIFICATION RestartingSpec
CONSTANTS
  Input = {1, 2}
  MaxTS = 3
  MaxOrder = 0
  Capacity = 4
  DisorderlyCapacity = 4
  TS <- MCTS
  Item <- MCItem
INVARIANTS
  FrontIsEarliest
