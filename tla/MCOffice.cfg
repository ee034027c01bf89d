SPECIFICATION OfficeSpec
CONSTANTS
  Admins = {"ann"}
  Orders = {"oscar"}
  Sales = {"sam", "sue"}
  Requester = "sam"
  Assignee = "oscar"
  Clients = {"ann", "oscar"}
  RATE_WINDOW = 1
  MAX_MESSAGES = 1
  MaxWrites = 3
  MaxLog = 1
  Tabs = {t1, t2}
  BrowserOf <- MCBrowserOf
  Passwords = {"p", "q"}
  NoPassword = "none"
  MaxClock = 1
  MaxEpoch = 1
  Keys = {"a", "b"}
  Spellings = {"upper", "lower"}
  Values = {"v"}
  NoValue = "no"
  RowIds = {i1, i2}
  Fresh = fresh
  FileSpelling = "upper"
  Slots = {r1, r2}
  NoUser = "nobody"
  QuoteIds = {1, 2}
  HoursPerDay = 2
  DaysPerWeek = 2
  DaysPerMonth = 3
  MonthsPerYear = 2
  ServerOffset = 1
  VN_OFFSET = 1
  Lockable = {"oscar"}
  Start = 4
  MaxTime = 11
INVARIANTS  LastEventTrue RevokedStaysOut   NoTwins 
CHECK_DEADLOCK FALSE
