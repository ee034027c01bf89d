\* Two handlers in flight, every operation, any interleaving.
SPECIFICATION Spec
CONSTANTS
  Sales = {s1}
  Orders = {o1, o2}
  Admins = {a1}
  Requester = s1
  NoUser = NoUser
  Requests = {r1, r2}
  Actions = {"ACCEPT", "QUOTE", "REJECT", "RETURN", "RESUBMIT", "SELECT_OPTION", "QUICK_QUOTE", "QUICK_APPROVE", "QUICK_REJECT", "EDIT_PRICE", "CANCEL", "RESTORE", "deleteOption", "update", "remove"}
  OptionIds = {p1, p2, p3}
  NoOption = NoOption
  MaxOptions = 2
  MaxVersion = 6
SYMMETRY Symmetry
INVARIANTS TypeOK CancelRecord
PROPERTIES CancelledFrozen AcceptedOnce CancelExact
CHECK_DEADLOCK FALSE
