SPECIFICATION MCSpec
CONSTANTS
  Input = {1, 2}
  MaxTS = 3
  MaxOrder = 0
  Capacity = 5
  DisorderlyCapacity = 4
  TS <- MCTS
  Item <- MCItem
INVARIANTS
  TypeOK
  PoppedSatisfyQuery
  HeapWhenOrderly
PROPERTIES
  FutureIsKept
  ImplementsTimedQueue
  PopReturns
