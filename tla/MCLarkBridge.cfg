SPECIFICATION Spec
SYMMETRY Symmetric
CONSTANTS
  Quotes = {q1, q2}
  Sockets = {s1}
  Calls = {c1, c2}
  Replies = {p1}
  NoQuote = NoQuote
  MaxMessages = 3
  MaxCards = 2
INVARIANTS TypeOK  NothingTwice AnchorOfQuote
PROPERTIES BareTakesLatest 
CHECK_DEADLOCK FALSE
