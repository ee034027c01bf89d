\* Two RESTOREs of the same quote around an ACCEPT and a new CANCEL.
SPECIFICATION Spec
CONSTANTS
  Sales = {s1}
  Orders = {o1, o2}
  Admins = {a1}
  Requester = s1
  NoUser = NoUser
  Requests = {r1, r2}
  Actions = {"ACCEPT", "CANCEL", "RESTORE"}
  OptionIds = {p1, p2, p3}
  NoOption = NoOption
  MaxOptions = 2
  MaxVersion = 6
SYMMETRY Symmetry
PROPERTIES RestoreExact
CHECK_DEADLOCK FALSE
