SPECIFICATION EventSpec
CONSTANTS
  Clients = {c1, c2, c3}
  Producers = {p1, p2}
  NoClient = NoClient
  MaxHistory = 2
  MaxEvents = 3
SYMMETRY Symmetry
CHECK_DEADLOCK FALSE
INVARIANTS
  EventTypeOK
  ProducerOrder
  HistoryIsNewest
PROPERTIES
  ReachesAllUnlessRemoved
