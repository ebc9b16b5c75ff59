SPECIFICATION RegSpec
CONSTANTS
  d1 = d1
  d2 = d2
  r1 = r1
  Addresses = {1, 2, 3, 4}
  Requests = {d1, d2, r1}
  Discovers = {d1, d2}
  Scope <- Subnets
  NoRequest = NoRequest
  MaxCrashes = 1
CHECK_DEADLOCK FALSE
INVARIANTS
  RegTypeOK
  HonestAnswer
  TaskHasRow
  WaitsUpwards
PROPERTY EveryRequestEnds
