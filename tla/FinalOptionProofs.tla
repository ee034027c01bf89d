------------------------- MODULE FinalOptionProofs -------------------------
(***************************************************************************)
(* Proofs about FinalOption for any number of transactions, options and    *)
(* times.                                                                  *)
(***************************************************************************)
EXTENDS FinalOption, TLAPS

\* sync_final_option() and pickPrimaryOption choose from the same options of
\* any quote: the parity the test final-option-parity.spec.ts samples.
THEOREM PrimaryParity ==
  ASSUME NEW S, S \subseteq Row
  PROVE  SqlPrimary(S) = JsPrimary(S)
<1> DEFINE sel == { o \in S : o.selected }
           pri == { o \in S : o.priced }
           top == { o \in S : \A p \in S : ~ Before(p, o) }
<1> USE DEF Row
<1>1. CASE S = {} BY <1>1 DEF SqlPrimary, JsPrimary
<1>2. CASE S # {} /\ sel # {}
  <2>1. top = Earliest(sel) BY <1>2 DEF Before, Earliest
  <2> QED BY <1>2, <2>1 DEF SqlPrimary, JsPrimary
<1>3. CASE S # {} /\ sel = {} /\ pri # {}
  <2>1. \A o \in S : ~ o.selected BY <1>3
  <2>2. PICK q \in S : q.priced BY <1>3
  <2>3. ASSUME NEW o \in top PROVE o \in Latest(pri)
    BY <2>1, <2>2, <2>3 DEF Before, Latest
  <2>4. ASSUME NEW o \in Latest(pri) PROVE o \in top
    BY <2>1, <2>4 DEF Before, Latest
  <2>5. top = Latest(pri) BY <2>3, <2>4
  <2> QED BY <1>3, <2>5 DEF SqlPrimary, JsPrimary
<1>4. CASE S # {} /\ sel = {} /\ pri = {}
  <2>1. top = Earliest(S) BY <1>4 DEF Before, Earliest
  <2> QED BY <1>4, <2>1 DEF SqlPrimary, JsPrimary
<1> QED BY <1>1, <1>2, <1>3, <1>4

\* What deleteOption's transaction t knows while nothing overlaps it.
AloneAndFresh(t) ==
  tx[t].kind = "delete" =>
    /\ tx[t].at \in {"rowsDone", "picked"}
    /\ \A x \in Txs \ {t} : tx[x].at = "idle"
    /\ tx[t].at = "picked" =>
         tx[t].pick \in SqlPrimary({ o \in rows : o.id # tx[t].opt })

DeleteAlone == \A t \in Txs : AloneAndFresh(t)

\* A slot that is idle holds no transaction.
IdleSlots == \A t \in Txs : tx[t].at = "idle" => tx[t].kind = "none"

\* The inductive invariant: the rows are rows, the cache is what the trigger
\* would choose now, and an open deleteOption will write what is still right.
FInv ==
  /\ rows \subseteq Row
  /\ tx \in [Txs -> Tx]
  /\ nextId \in Nat
  /\ final \in SqlPrimary(rows)
  /\ IdleSlots
  /\ DeleteAlone

LEMMA BatchRows ==
  ASSUME NEW n \in Nat, NEW k \in Nat, NEW numbered, NEW S \in Batch(n, k, numbered)
  PROVE  S \subseteq Row
<1> SUFFICES ASSUME NEW o \in S PROVE o \in Row OBVIOUS
<1>1. PICK base \in 1 .. MaxTime, priced \in SUBSET (0 .. k - 1),
           selected \in SUBSET (0 .. k - 1) :
        S = { [id |-> n + i, at |-> IF numbered THEN base + i ELSE base,
               priced |-> i \in priced, selected |-> i \in selected] : i \in 0 .. k - 1 }
  BY DEF Batch
<1>2. PICK i \in 0 .. k - 1 :
        o = [id |-> n + i, at |-> IF numbered THEN base + i ELSE base,
             priced |-> i \in priced, selected |-> i \in selected]
  BY <1>1
<1>3. MaxTime \in Nat BY FinalOptionAssumption
<1>4. n + i \in Nat /\ base + i \in Nat /\ base \in Nat BY <1>3
<1> QED BY <1>2, <1>4 DEF Row

LEMMA InitFInv == Init => FInv
<1> SUFFICES ASSUME Init PROVE FInv OBVIOUS
<1>1. PICK k \in {0} \cup Sizes(1) : rows \in Batch(1, k, FALSE) /\ nextId = 1 + k BY DEF Init
<1>2. k \in Nat BY FinalOptionAssumption DEF Sizes
<1>3. rows \subseteq Row BY <1>1, <1>2, BatchRows
<1>4. tx \in [Txs -> Tx] /\ IdleSlots /\ DeleteAlone
  BY DEF Init, Idle, Tx, Steps, TxKinds, DeleteAlone, AloneAndFresh, IdleSlots
<1> QED BY <1>1, <1>2, <1>3, <1>4 DEF Init, FInv

\* Beginning a transaction: nothing is committed, and nothing else is in flight
\* when a deleteOption begins or while one is open.
LEMMA BeginFInv ==
  ASSUME "delete" \in Alone, FInv, NEW t \in Txs, Begin(t)
  PROVE  FInv'
<1>1. PICK kind \in TxKinds, at \in {"open", "quoteLocked", "rowsDone"},
           opt \in Nat \cup {NoOption}, snap \in SUBSET Nat, locked \in SUBSET Nat :
        /\ MayBegin(t, kind) /\ Open(t, kind, at, opt, snap, locked)
        /\ kind = "delete" => at = "rowsDone"
  <2>0. Ids(rows) \in SUBSET Nat /\ {} \in SUBSET Nat /\ NoOption \in Nat \cup {NoOption}
    BY DEF FInv, Ids, Row
  <2>1. CASE BeginReplace(t)
    <3>1. MayBegin(t, "replace") /\ Open(t, "replace", "open", NoOption, Ids(rows), {})
      BY <2>1 DEF BeginReplace
    <3> QED BY <2>0, <3>1 DEF TxKinds
  <2>2. CASE BeginQuickReplace(t)
    <3>1. /\ MayBegin(t, "quickReplace")
          /\ Open(t, "quickReplace", "quoteLocked", NoOption, {}, {})
      BY <2>2 DEF BeginQuickReplace
    <3> QED BY <2>0, <3>1 DEF TxKinds
  <2>3. CASE BeginSelect(t)
    <3>1. PICK o \in Ids(rows) :
            MayBegin(t, "select") /\ Open(t, "select", "open", o, Ids(rows), {})
      BY <2>3 DEF BeginSelect
    <3> QED BY <2>0, <3>1 DEF TxKinds
  <2>4. CASE BeginDelete(t)
    <3>1. PICK o \in Ids(rows) :
            MayBegin(t, "delete") /\ Open(t, "delete", "rowsDone", o, {}, {o})
      BY <2>4 DEF BeginDelete
    <3>2. {o} \in SUBSET Nat BY <2>0
    <3> QED BY <2>0, <3>1, <3>2 DEF TxKinds
  <2> QED BY <2>1, <2>2, <2>3, <2>4 DEF Begin
<1>2. UNCHANGED <<rows, final, nextId>>
  BY DEF Begin, BeginReplace, BeginQuickReplace, BeginSelect, BeginDelete
<1>3. tx' \in [Txs -> Tx] BY <1>1 DEF FInv, Open, Tx, Steps
<1>4. IdleSlots' BY <1>1 DEF FInv, IdleSlots, Open, Tx, TxKinds
<1>5. ASSUME NEW x \in Txs PROVE AloneAndFresh(x)'
  <2>1. CASE x = t
    <3>1. tx'[t].kind = kind /\ tx'[t].at = at BY <1>1 DEF Open, FInv
    <3>2. \A y \in Txs \ {t} : tx'[y] = tx[y] BY <1>1 DEF Open, FInv
    <3> QED BY <1>1, <2>1, <3>1, <3>2 DEF MayBegin, AloneAndFresh
  <2>2. CASE x # t
    <3>1. tx'[x] = tx[x] BY <1>1, <2>2 DEF Open, FInv
    <3>2. tx[x].kind # "delete"
      BY <1>1, <2>2 DEF MayBegin, FInv, IdleSlots
    <3> QED BY <3>1, <3>2 DEF AloneAndFresh
  <2> QED BY <2>1, <2>2
<1> QED BY <1>2, <1>3, <1>4, <1>5 DEF FInv, DeleteAlone

\* A statement that is not the last of its transaction commits nothing.
LEMMA ContinueFInv ==
  ASSUME FInv, NEW t \in Txs, Continue(t)
  PROVE  FInv'
<1>1. UNCHANGED <<rows, final, nextId>>
  BY DEF Continue, ChangeRows, UpdateQuote, QuickDeleteMany, TriggerSelect
<1>2. /\ tx' \in [Txs -> Tx]
      /\ \A x \in Txs \ {t} : tx'[x] = tx[x]
      /\ tx'[t].kind = tx[t].kind /\ tx'[t].opt = tx[t].opt
      /\ tx[t].at # "idle" /\ tx'[t].at # "idle"
  <2> DEFINE Moved(new) == /\ tx' = [tx EXCEPT ![t] = new]
                           /\ new.kind = tx[t].kind /\ new.opt = tx[t].opt
                           /\ new.at # "idle" /\ tx[t].at # "idle"
  <2>1. ASSUME NEW new \in Tx, Moved(new)
        PROVE  /\ tx' \in [Txs -> Tx]
               /\ \A x \in Txs \ {t} : tx'[x] = tx[x]
               /\ tx'[t].kind = tx[t].kind /\ tx'[t].opt = tx[t].opt
               /\ tx[t].at # "idle" /\ tx'[t].at # "idle"
    BY <2>1 DEF FInv
  <2>2. tx[t] \in Tx BY DEF FInv
  <2>3. Ids(rows) \in SUBSET Nat BY DEF FInv, Ids, Row
  <2>4. CASE ChangeRows(t)
    <3> DEFINE own == tx[t].snap \cap Ids(rows)
               new == [tx[t] EXCEPT !.at = "rowsDone", !.locked = own]
    <3>1. own \in SUBSET Nat BY <2>3
    <3>2. tx' = [tx EXCEPT ![t] = new] /\ tx[t].at = "open" BY <2>4 DEF ChangeRows
    <3> HIDE DEF own
    <3>3. new \in Tx BY <2>2, <3>1 DEF Tx, Steps
    <3>4. Moved(new) BY <2>2, <3>2 DEF Tx
    <3> QED BY <2>1, <3>3, <3>4
  <2>5. CASE UpdateQuote(t)
    <3> DEFINE new == [tx[t] EXCEPT !.at = "quoteLocked"]
    <3>1. tx' = [tx EXCEPT ![t] = new] /\ tx[t].at = "rowsDone" BY <2>5 DEF UpdateQuote
    <3>2. new \in Tx BY <2>2 DEF Tx, Steps
    <3>3. Moved(new) BY <2>2, <3>1 DEF Tx
    <3> QED BY <2>1, <3>2, <3>3
  <2>6. CASE QuickDeleteMany(t)
    <3> DEFINE own == Ids(rows)
               new == [tx[t] EXCEPT !.at = "open", !.snap = own]
    <3>1. tx' = [tx EXCEPT ![t] = new] /\ tx[t].at = "quoteLocked"
      BY <2>6 DEF QuickDeleteMany
    <3>2. own \in SUBSET Nat BY <2>3
    <3> HIDE DEF own
    <3>3. new \in Tx BY <2>2, <3>2 DEF Tx, Steps
    <3>4. Moved(new) BY <2>2, <3>1 DEF Tx
    <3> QED BY <2>1, <3>3, <3>4
  <2>7. CASE TriggerSelect(t)
    <3>1. PICK p \in SqlPrimary({ o \in rows : o.id # tx[t].opt }) :
            tx' = [tx EXCEPT ![t].at = "picked", ![t].pick = p]
      BY <2>7 DEF TriggerSelect
    <3> DEFINE new == [tx[t] EXCEPT !.at = "picked", !.pick = p]
    <3>2. tx' = [tx EXCEPT ![t] = new] /\ tx[t].at = "rowsDone"
      BY <2>7, <3>1 DEF TriggerSelect
    <3>3. p \in Nat \cup {NoOption} BY DEF SqlPrimary, Ids, Row, FInv
    <3>4. new \in Tx BY <2>2, <3>3 DEF Tx, Steps
    <3>5. Moved(new) BY <2>2, <3>2 DEF Tx
    <3> QED BY <2>1, <3>4, <3>5
  <2> QED BY <2>4, <2>5, <2>6, <2>7 DEF Continue
<1>3. IdleSlots' BY <1>2 DEF FInv, IdleSlots
<1>4. ASSUME NEW x \in Txs, x # t PROVE AloneAndFresh(x)'
  BY <1>1, <1>2, <1>4 DEF FInv, DeleteAlone, AloneAndFresh
<1>5. AloneAndFresh(t)'
  <2>1. CASE TriggerSelect(t)
    <3>1. PICK p \in SqlPrimary({ o \in rows : o.id # tx[t].opt }) :
            tx' = [tx EXCEPT ![t].at = "picked", ![t].pick = p]
      BY <2>1 DEF TriggerSelect
    <3>2. tx'[t].at = "picked" /\ tx'[t].pick = p BY <3>1 DEF FInv, Tx
    <3>3. \A x \in Txs \ {t} : tx'[x].at = "idle"
      BY <1>2, <2>1 DEF TriggerSelect, FInv, DeleteAlone, AloneAndFresh
    <3> QED BY <1>1, <1>2, <3>2, <3>3 DEF AloneAndFresh
  <2>2. CASE ~ TriggerSelect(t)
    <3>1. tx[t].kind # "delete"
      BY <2>2 DEF Continue, ChangeRows, UpdateQuote, QuickDeleteMany, FInv,
         DeleteAlone, AloneAndFresh
    <3> QED BY <1>2, <3>1 DEF AloneAndFresh
  <2> QED BY <2>1, <2>2
<1> QED BY <1>1, <1>2, <1>3, <1>4, <1>5 DEF FInv, DeleteAlone

\* The slot of a transaction that ends is idle, and so was every other slot if
\* a deleteOption is still open.
LEMMA FinishFInv ==
  ASSUME FInv, NEW t \in Txs, Finish(t), tx[t].at # "idle"
  PROVE  tx' \in [Txs -> Tx] /\ IdleSlots' /\ DeleteAlone'
<1>1. tx' \in [Txs -> Tx] /\ IdleSlots'
  BY DEF FInv, Finish, Idle, Tx, Steps, TxKinds, IdleSlots
<1>2. ASSUME NEW x \in Txs PROVE tx'[x].kind # "delete"
  BY DEF FInv, Finish, Idle, DeleteAlone, AloneAndFresh
<1> QED BY <1>1, <1>2 DEF DeleteAlone, AloneAndFresh

\* Every commit leaves the cache at what the trigger chooses from the committed
\* rows; for deleteOption because nothing overlapped it.
LEMMA CommitFInv ==
  ASSUME FInv, NEW t \in Txs, Commit(t)
  PROVE  FInv'
<1>1. tx[t].at # "idle" /\ Finish(t)
  BY DEF Commit, CommitReplace, CommitSelect, CommitDelete
<1>2. tx' \in [Txs -> Tx] /\ IdleSlots' /\ DeleteAlone' BY <1>1, FinishFInv
<1>3. CASE CommitReplace(t)
  <2>1. PICK k \in Sizes(nextId) :
          /\ \E new \in Batch(nextId, k, tx[t].kind = "replace") :
               rows' = { o \in rows : o.id \notin tx[t].locked } \cup new
          /\ nextId' = nextId + k
    BY <1>3 DEF CommitReplace
  <2>2. k \in Nat BY FinalOptionAssumption DEF Sizes
  <2>3. rows' \subseteq Row BY <2>1, <2>2, BatchRows DEF FInv
  <2> QED BY <1>2, <1>3, <2>1, <2>2, <2>3 DEF CommitReplace, FInv
<1>4. CASE CommitSelect(t)
  <2>1. rows' \subseteq Row BY <1>4 DEF CommitSelect, FInv, Row
  <2> QED BY <1>2, <1>4, <2>1 DEF CommitSelect, FInv
<1>5. CASE CommitDelete(t)
  BY <1>2, <1>5 DEF CommitDelete, FInv, DeleteAlone, AloneAndFresh
<1> QED BY <1>3, <1>4, <1>5 DEF Commit

LEMMA NextFInv ==
  ASSUME "delete" \in Alone, FInv, [Next]_vars
  PROVE  FInv'
<1>1. ASSUME NEW t \in Txs, Abort(t) PROVE FInv'
  BY <1>1, FinishFInv DEF Abort, FInv
<1>2. CASE UNCHANGED vars
  BY <1>2 DEF vars, FInv, DeleteAlone, AloneAndFresh, IdleSlots
<1> QED BY <1>1, <1>2, BeginFInv, ContinueFInv, CommitFInv DEF Next

\* As long as no deleteOption overlaps another change of the options, the cached
\* final option is the one the application would show.
THEOREM FinalIsPrimaryCorrect ==
  ASSUME "delete" \in Alone
  PROVE  Spec => []FinalIsPrimary
<1>1. FInv /\ [Next]_vars => FInv' BY NextFInv
<1>2. FInv => FinalIsPrimary BY PrimaryParity DEF FInv, FinalIsPrimary
<1> QED BY InitFInv, <1>1, <1>2, PTL DEF Spec

\* The rows of one request have ids of their own, from n up to n + k.
LEMMA BatchIds ==
  ASSUME NEW n \in Nat, NEW k \in Nat, NEW numbered, NEW S \in Batch(n, k, numbered)
  PROVE  /\ \A o \in S : n <= o.id /\ o.id < n + k
         /\ \A a, b \in S : a.id = b.id => a = b
<1>1. PICK base \in 1 .. MaxTime, priced \in SUBSET (0 .. k - 1),
           selected \in SUBSET (0 .. k - 1) :
        S = { [id |-> n + i, at |-> IF numbered THEN base + i ELSE base,
               priced |-> i \in priced, selected |-> i \in selected] : i \in 0 .. k - 1 }
  BY DEF Batch
<1>2. ASSUME NEW o \in S
      PROVE  \E i \in 0 .. k - 1 :
               o = [id |-> n + i, at |-> IF numbered THEN base + i ELSE base,
                    priced |-> i \in priced, selected |-> i \in selected]
  BY <1>1
<1>3. ASSUME NEW o \in S PROVE n <= o.id /\ o.id < n + k
  BY <1>2
<1>4. ASSUME NEW a \in S, NEW b \in S, a.id = b.id PROVE a = b
  <2>1. PICK i \in 0 .. k - 1 :
          a = [id |-> n + i, at |-> IF numbered THEN base + i ELSE base,
               priced |-> i \in priced, selected |-> i \in selected]
    BY <1>2
  <2>2. PICK j \in 0 .. k - 1 :
          b = [id |-> n + j, at |-> IF numbered THEN base + j ELSE base,
               priced |-> j \in priced, selected |-> j \in selected]
    BY <1>2
  <2>3. i = j
    BY <1>4, <2>1, <2>2
  <2> QED BY <2>1, <2>2, <2>3
<1> QED BY <1>3, <1>4

\* What is stored: the lock is somebody's, and an id names one row.
Stored ==
  /\ lock \in Txs \cup {NoTx}
  /\ \A o \in rows : o.id < nextId
  /\ \A a, b \in rows : a.id = b.id => a = b

LEMMA NextStored ==
  ASSUME FInv, Stored, [Next]_vars
  PROVE  Stored'
<1> USE DEF Stored
<1>0. rows \subseteq Row /\ nextId \in Nat
  BY DEF FInv
<1>1. ASSUME NEW t \in Txs, CommitReplace(t) PROVE Stored'
  <2>1. PICK k \in Sizes(nextId) :
          /\ \E new \in Batch(nextId, k, tx[t].kind = "replace") :
               rows' = { o \in rows : o.id \notin tx[t].locked } \cup new
          /\ nextId' = nextId + k
    BY <1>1 DEF CommitReplace
  <2>2. PICK new \in Batch(nextId, k, tx[t].kind = "replace") :
          rows' = { o \in rows : o.id \notin tx[t].locked } \cup new
    BY <2>1
  <2>3. k \in Nat BY FinalOptionAssumption DEF Sizes
  <2>4. /\ \A o \in new : nextId <= o.id /\ o.id < nextId + k
        /\ \A a, b \in new : a.id = b.id => a = b
    BY <1>0, <2>2, <2>3, BatchIds
  <2>5. new \subseteq Row
    BY <1>0, <2>2, <2>3, BatchRows
  <2>6. \A o \in rows \cup new : o.id \in Nat
    BY <1>0, <2>5 DEF Row
  <2>7. \A o \in rows' : o.id < nextId'
    BY <1>0, <2>1, <2>2, <2>3, <2>4, <2>6
  <2>8. \A a, b \in rows' : a.id = b.id => a = b
    BY <1>0, <2>2, <2>4, <2>6
  <2>9. lock' \in Txs \cup {NoTx}
    BY <1>1 DEF CommitReplace, ReleaseQuote
  <2> QED BY <2>7, <2>8, <2>9
<1>2. ASSUME NEW t \in Txs, CommitSelect(t) PROVE Stored'
  <2> DEFINE Changed(o) == IF o.id = tx[t].opt THEN [o EXCEPT !.selected = TRUE]
                           ELSE IF o.id \in tx[t].locked THEN [o EXCEPT !.selected = FALSE]
                           ELSE o
  <2>1. rows' = { Changed(o) : o \in rows } /\ nextId' = nextId
    BY <1>2 DEF CommitSelect
  <2>2. \A o \in rows : Changed(o).id = o.id
    BY <1>0 DEF Row
  <2>3. lock' \in Txs \cup {NoTx}
    BY <1>2 DEF CommitSelect, ReleaseQuote
  <2> HIDE DEF Changed
  <2> QED BY <2>1, <2>2, <2>3
<1>3. ASSUME NEW t \in Txs, CommitDelete(t) PROVE Stored'
  BY <1>3 DEF CommitDelete
<1>4. ASSUME NEW t \in Txs, Begin(t) \/ Continue(t) \/ Abort(t) PROVE Stored'
  <2>1. rows' = rows /\ nextId' = nextId
    BY <1>4 DEF Begin, BeginReplace, BeginQuickReplace, BeginSelect, BeginDelete,
       Continue, ChangeRows, UpdateQuote, QuickDeleteMany, TriggerSelect, Abort
  <2>2. lock' \in {lock, t, NoTx}
    BY <1>4 DEF Begin, BeginReplace, BeginQuickReplace, BeginSelect, BeginDelete,
       Continue, ChangeRows, UpdateQuote, QuickDeleteMany, TriggerSelect, Abort,
       LockQuote, ReleaseQuote
  <2> QED BY <2>1, <2>2
<1>5. CASE UNCHANGED vars
  BY <1>5 DEF vars
<1> QED BY <1>1, <1>2, <1>3, <1>4, <1>5 DEF Next, Commit

\* Every variable keeps its type, and the id of an option names one row, also
\* while transactions replace the options of the quote.
THEOREM TypeCorrect ==
  ASSUME "delete" \in Alone
  PROVE  Spec => []TypeOK
<1>1. Init => Stored
  <2> SUFFICES ASSUME Init PROVE Stored OBVIOUS
  <2>1. PICK k \in {0} \cup Sizes(1) : rows \in Batch(1, k, FALSE) /\ nextId = 1 + k BY DEF Init
  <2>2. k \in Nat BY FinalOptionAssumption DEF Sizes
  <2>3. /\ \A o \in rows : 1 <= o.id /\ o.id < 1 + k
        /\ \A a, b \in rows : a.id = b.id => a = b
    BY <2>1, <2>2, BatchIds
  <2> QED BY <2>1, <2>3 DEF Init, Stored
<1>2. FInv /\ Stored => TypeOK
  <2> SUFFICES ASSUME FInv, Stored PROVE TypeOK OBVIOUS
  <2>1. final \in Nat \cup {NoOption}
    BY DEF FInv, SqlPrimary, Ids, Row
  <2> QED BY <2>1 DEF FInv, Stored, TypeOK
<1>3. FInv /\ [Next]_vars => FInv' BY NextFInv
<1>4. FInv /\ Stored /\ [Next]_vars => Stored' BY NextStored
<1> QED BY InitFInv, <1>1, <1>2, <1>3, <1>4, PTL DEF Spec
=============================================================================
