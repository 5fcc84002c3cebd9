SPECIFICATION Spec
CONSTANTS
  UserInput <- MCUserInput
  NameOf <- MCNameOf
  IdLimit <- MCIdLimit
  Request <- MCRequest
  Absent = Absent
  Illtyped = Illtyped
INVARIANTS
  TypeOK
PROPERTIES
  ImplementsSelection
