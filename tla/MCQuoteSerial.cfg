\* One handler at a time, every operation.
SPECIFICATION Spec
CONSTANTS
  Sales = {s1, s2}
  Orders = {o1, o2}
  Admins = {a1}
  Requester = s1
  NoUser = NoUser
  Requests = {r1}
  Actions = {"ACCEPT", "QUOTE", "REJECT", "RETURN", "RESUBMIT", "SELECT_OPTION", "QUICK_QUOTE", "QUICK_APPROVE", "QUICK_REJECT", "EDIT_PRICE", "CANCEL", "RESTORE", "deleteOption", "update", "remove"}
  OptionIds = {p1, p2, p3}
  NoOption = NoOption
  MaxOptions = 2
  MaxVersion = 5
SYMMETRY Symmetry
INVARIANTS AssigneeRecorded
PROPERTIES ImplementsLifecycle OptionKept 
CHECK_DEADLOCK FALSE
