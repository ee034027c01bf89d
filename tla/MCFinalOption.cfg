\* Replacing and choosing options overlap freely; deleteOption runs alone.
SPECIFICATION Spec
CONSTANTS
  Txs = {t1, t2}
  Kinds = {"replace", "quickReplace", "select", "delete"}
  Alone = {"delete"}
  NoOption = NoOption
  NoTx = NoTx
  MaxOptions = 2
  MaxId = 4
  MaxTime = 2
INVARIANTS TypeOK FinalIsPrimary
CHECK_DEADLOCK FALSE
