\* A Sale edits the specification while an Order accepts.
SPECIFICATION Spec
CONSTANTS
  Sales = {s1}
  Orders = {o1, o2}
  Admins = {a1}
  Requester = s1
  NoUser = NoUser
  Requests = {r1, r2}
  Actions = {"ACCEPT", "update"}
  OptionIds = {p1, p2, p3}
  NoOption = NoOption
  MaxOptions = 2
  MaxVersion = 3
SYMMETRY Symmetry
PROPERTIES SpecKept
CHECK_DEADLOCK FALSE
