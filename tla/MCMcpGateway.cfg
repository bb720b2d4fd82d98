SPECIFICATION Spec
CONSTANTS
  r1 = r1
  r2 = r2
  i1 = i1
  i2 = i2
  None = None
  Requests <- MCRequests
  Ids <- MCIds
  MaxChanges = 1
SYMMETRY Symm
CONSTRAINT TestBesideOne
INVARIANTS
  TypeOK
  UsersHoldAnOpenSession
  ShutdownWaitsForSessions
  ErrorsBelongToTheConfig
PROPERTY BindKeepsTestErrors
CHECK_DEADLOCK FALSE
