\* Two create() requests at a time, three Orders who may leave, one midnight.
SPECIFICATION Spec
CONSTANTS
  Orders = {1, 2, 3}
  Requests = {r1, r2}
  NoOrder = NoOrder
  NoRequest = NoRequest
  MaxQuotes = 4
  MaxDays = 1
INVARIANTS TypeOK FairDay RoundRobin
PROPERTIES EveryCreateEnds
CHECK_DEADLOCK FALSE
