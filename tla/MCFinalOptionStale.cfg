\* Two deleteOption requests overlap on a quote with up to three options.
SPECIFICATION Spec
CONSTANTS
  Txs = {t1, t2}
  Kinds = {"delete"}
  Alone = {}
  NoOption = NoOption
  NoTx = NoTx
  MaxOptions = 3
  MaxId = 3
  MaxTime = 2
INVARIANTS FinalIsPrimary
CHECK_DEADLOCK FALSE
