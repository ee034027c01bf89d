------------------------- MODULE PriceTablesProofs -------------------------
(***************************************************************************)
(* Proofs about PriceTables, for any metals, prices and numbers of         *)
(* requests: the rows of a metal stay a chain.                             *)
(***************************************************************************)
EXTENDS PriceTables, SequenceTheorems, TLAPS

\* Rounding a fraction gives an integer, at most half away from it.
LEMMA RoundIsNearest ==
    ASSUME NEW n \in Int, NEW d \in Nat \ {0}
    PROVE  /\ Round(<<n, d>>) \in Int
           /\ 2 * d * Round(<<n, d>>) <= 2 * n + d
           /\ 2 * n - d < 2 * d * Round(<<n, d>>)
<1> DEFINE a == 2 * n + d
           b == 2 * d
<1>1. a \in Int /\ b \in Nat \ {0}
  OBVIOUS
<1>2. ASSUME NEW x \in Int, NEW y \in Nat \ {0}
      PROVE  /\ x \div y \in Int
             /\ y * (x \div y) <= x
             /\ x < y * (x \div y) + y
  BY SMT
<1>3. /\ a \div b \in Int
      /\ b * (a \div b) <= a
      /\ a < b * (a \div b) + b
  BY <1>1, <1>2
<1>4. Round(<<n, d>>) = a \div b
  BY DEF Round
<1> HIDE DEF a
<1>5. QED
  BY <1>3, <1>4 DEF a

\* A quoted price is a multiple of a thousand, at most half a thousand away
\* from the amount it was rounded from.
THEOREM QuotedIsNearest ==
    ASSUME NEW n \in Int, NEW d \in Nat \ {0}
    PROVE  /\ \E k \in Int : roundToThousand(<<n, d>>) = Thousand * k
           /\ 2 * d * roundToThousand(<<n, d>>) <= 2 * n + d * Thousand
           /\ 2 * n - d * Thousand < 2 * d * roundToThousand(<<n, d>>)
<1> DEFINE R == Round(<<n, d * Thousand>>)
<1>1. Thousand \in Nat \ {0} /\ d * Thousand \in Nat \ {0}
  BY PricingAssumption
<1>2. /\ R \in Int
      /\ 2 * (d * Thousand) * R <= 2 * n + d * Thousand
      /\ 2 * n - d * Thousand < 2 * (d * Thousand) * R
  BY <1>1, RoundIsNearest
<1>3. roundToThousand(<<n, d>>) = Thousand * R
  BY DEF roundToThousand, Over, Whole
<1> HIDE DEF R
<1>4. 2 * (d * Thousand) * R = 2 * d * (Thousand * R)
  BY <1>1, <1>2
<1>5. QED
  BY <1>2, <1>3, <1>4

\* The change of a price is one integer.
LEMMA ChangeIsInteger ==
    ASSUME NEW next \in Nat \ {0}, NEW prev \in Nat \ {0}
    PROVE  computeChangePct(next, prev) \in Seq(Int)
<1> DEFINE n == (next - prev) * Hundred * Hundred
           limit == Hundred * Hundred * Hundred - 1
<1>1. Hundred \in Nat
  BY PricingAssumption
<1>2. n \in Int /\ limit \in Int
  BY <1>1
<1>3. Round(<<n, prev>>) \in Int
  BY <1>2, RoundIsNearest
<1>4. computeChangePct(next, prev) \in {<<limit>>, <<-limit>>, <<Round(<<n, prev>>)>>}
  BY DEF computeChangePct
<1> HIDE DEF n, limit
<1>5. ASSUME NEW x \in Int PROVE <<x>> \in Seq(Int)
  OBVIOUS
<1>6. -limit \in Int
  BY <1>2
<1>7. QED
  BY <1>2, <1>3, <1>4, <1>5, <1>6

----------------------------------------------------------------------------
\* In a chain the newest row is the active one, and an empty chain has none.
LEMMA ActiveIsNewest ==
    ASSUME NEW rows \in Seq(PriceRows), Chained(rows)
    PROVE  /\ rows = <<>> => ActiveRows(rows) = {}
           /\ rows # <<>> => /\ ActiveRows(rows) = {Len(rows)}
                             /\ ActiveRow(rows) = rows[Len(rows)]
<1>1. DOMAIN rows = 1..Len(rows) /\ Len(rows) \in Nat
  OBVIOUS
<1>2. ASSUME rows = <<>> PROVE ActiveRows(rows) = {}
  BY <1>2 DEF ActiveRows
<1>3. ASSUME rows # <<>> PROVE ActiveRows(rows) = {Len(rows)}
  <2>1. Len(rows) \in DOMAIN rows
    BY <1>1, <1>3
  <2>2. \A i \in DOMAIN rows : rows[i].isActive <=> i = Len(rows)
    BY DEF Chained
  <2>3. QED
    BY <2>1, <2>2 DEF ActiveRows
<1>4. ASSUME rows # <<>> PROVE ActiveRow(rows) = rows[Len(rows)]
  BY <1>3, <1>4 DEF ActiveRow
<1>5. QED
  BY <1>2, <1>3, <1>4

\* A row made from a chain can be appended to it once the old rows are
\* switched off: that is what one transaction does.
LEMMA ChainGrows ==
    ASSUME NEW rows \in Seq(PriceRows), Chained(rows), NEW price \in Prices
    PROVE  /\ Append(Deactivated(rows), NewRow(price, rows)) \in Seq(PriceRows)
           /\ Chained(Append(Deactivated(rows), NewRow(price, rows)))
<1> DEFINE old == Deactivated(rows)
           new == NewRow(price, rows)
           next == Append(old, new)
<1>1. DOMAIN rows = 1..Len(rows) /\ Len(rows) \in Nat
  OBVIOUS
<1>2. Prices \subseteq Nat \ {0}
  BY TablesAssumption
<1>3. \A i \in 1..Len(rows) : rows[i] \in PriceRows
  BY <1>1
<1>4. /\ old \in Seq(PriceRows)
      /\ Len(old) = Len(rows)
      /\ \A i \in 1..Len(rows) : /\ old[i].priceVnd = rows[i].priceVnd
                                 /\ old[i].changePct = rows[i].changePct
                                 /\ old[i].isActive = FALSE
  <2> DEFINE Off(r) == [r EXCEPT !.isActive = FALSE]
  <2>1. old = [i \in 1..Len(rows) |-> Off(rows[i])]
    BY <1>1 DEF Deactivated
  <2>2. ASSUME NEW r \in PriceRows
        PROVE  /\ Off(r) \in PriceRows
               /\ Off(r).priceVnd = r.priceVnd
               /\ Off(r).changePct = r.changePct
               /\ Off(r).isActive = FALSE
    BY DEF PriceRows
  <2> HIDE DEF Off, old
  <2>3. \A i \in 1..Len(rows) : Off(rows[i]) \in PriceRows
    BY <1>3, <2>2
  <2>4. old \in Seq(PriceRows) /\ Len(old) = Len(rows)
    BY <1>1, <2>1, <2>3
  <2>5. \A i \in 1..Len(rows) : old[i] = Off(rows[i])
    BY <2>1
  <2>6. ASSUME NEW i \in 1..Len(rows)
        PROVE  /\ old[i].priceVnd = rows[i].priceVnd
               /\ old[i].changePct = rows[i].changePct
               /\ old[i].isActive = FALSE
    <3>1. rows[i] \in PriceRows
      BY <1>3
    <3>2. old[i] = Off(rows[i])
      BY <2>5
    <3>3. QED
      BY <2>2, <3>1, <3>2
  <2>7. QED
    BY <2>4, <2>6
<1>5. ASSUME rows # <<>>
      PROVE  /\ new.changePct = computeChangePct(price, rows[Len(rows)].priceVnd)
             /\ rows[Len(rows)].priceVnd \in Nat \ {0}
  <2>1. Len(rows) \in 1..Len(rows)
    BY <1>1, <1>5
  <2>2. ActiveRows(rows) # {} /\ ActiveRow(rows) = rows[Len(rows)]
    BY <1>5, ActiveIsNewest
  <2>3. rows[Len(rows)].priceVnd \in Prices
    BY <1>3, <2>1 DEF PriceRows
  <2>4. QED
    BY <1>2, <2>2, <2>3 DEF NewRow
<1>6. rows = <<>> => new.changePct = NoChange
  BY ActiveIsNewest DEF NewRow
<1>7. new.priceVnd = price /\ new.isActive = TRUE
  BY DEF NewRow
<1>8. new.changePct \in Seq(Int)
  <2>1. CASE rows = <<>>
    <3>1. <<>> \in Seq(Int)
      OBVIOUS
    <3>2. QED
      BY <1>6, <2>1, <3>1 DEF NoChange
  <2>2. CASE rows # <<>>
    BY <1>2, <1>5, <2>2, ChangeIsInteger
  <2>3. QED
    BY <2>1, <2>2
<1>9. new \in PriceRows
  BY <1>7, <1>8 DEF PriceRows, NewRow
<1> HIDE DEF old, new
<1>10. /\ next \in Seq(PriceRows)
       /\ Len(next) = Len(rows) + 1
       /\ DOMAIN next = 1..(Len(rows) + 1)
       /\ \A i \in 1..Len(rows) : next[i] = old[i]
       /\ next[Len(rows) + 1] = new
  BY <1>1, <1>4, <1>9
<1> HIDE DEF next
<1>11. ASSUME NEW i \in DOMAIN next
       PROVE  /\ next[i].isActive <=> i = Len(next)
              /\ next[i].changePct = IF i = 1 THEN NoChange
                                     ELSE computeChangePct(next[i].priceVnd, next[i - 1].priceVnd)
  <2>1. CASE i = Len(rows) + 1
    <3>1. CASE rows = <<>>
      BY <1>6, <1>7, <1>10, <2>1, <3>1
    <3>2. CASE rows # <<>>
      <4>1. /\ Len(rows) \in 1..Len(rows)
            /\ i # 1
            /\ i - 1 = Len(rows)
        BY <1>1, <2>1, <3>2
      <4>2. next[i - 1].priceVnd = rows[Len(rows)].priceVnd
        BY <1>4, <1>10, <4>1
      <4>3. next[i] = new
        BY <1>10, <2>1
      <4>4. QED
        BY <1>5, <1>7, <1>10, <2>1, <3>2, <4>1, <4>2, <4>3
    <3>3. QED
      BY <3>1, <3>2
  <2>2. CASE i # Len(rows) + 1
    <3>1. i \in 1..Len(rows) /\ i # Len(next)
      BY <1>1, <1>10, <2>2
    <3>2. /\ rows[i].changePct = IF i = 1 THEN NoChange
                                 ELSE computeChangePct(rows[i].priceVnd, rows[i - 1].priceVnd)
      BY <1>1, <3>1 DEF Chained
    <3>3. /\ next[i].isActive = FALSE
          /\ next[i].changePct = rows[i].changePct
          /\ next[i].priceVnd = rows[i].priceVnd
      BY <1>4, <1>10, <3>1
    <3>4. i # 1 => next[i - 1].priceVnd = rows[i - 1].priceVnd
      <4>1. i # 1 => i - 1 \in 1..Len(rows)
        BY <1>1, <3>1
      <4>2. QED
        BY <1>4, <1>10, <4>1
    <3>5. QED
      BY <3>1, <3>2, <3>3, <3>4
  <2>3. QED
    BY <2>1, <2>2
<1>12. QED
  BY <1>10, <1>11 DEF Chained, old, new, next

----------------------------------------------------------------------------
\* The invariant: the rows are typed, every metal's are a chain, and so are
\* those a transaction sees.
HistoryOK == /\ history \in [Metals -> Seq(PriceRows)]
             /\ \A m \in Metals : Chained(history[m])

UpdatesOK == /\ DOMAIN upd = Updaters
             /\ \A u \in Updaters : UpdOK(upd[u])

\* A step that leaves a slot idle or as it was, or gives it a record of the
\* right type, keeps the types of all slots.
LEMMA SlotWritten ==
    ASSUME UpdatesOK, NEW u \in Updaters, NEW q, UpdOK(q),
           upd' = [upd EXCEPT ![u] = q]
    PROVE  UpdatesOK'
<1>1. DOMAIN upd' = Updaters
  BY DEF UpdatesOK
<1>2. ASSUME NEW v \in Updaters PROVE UpdOK(upd'[v])
  BY DEF UpdatesOK
<1>3. QED
  BY <1>1, <1>2 DEF UpdatesOK, UpdOK

\* Nothing but CommitPrice changes the rows of a metal.
LEMMA OthersKeepHistory ==
    ASSUME HistoryOK, UNCHANGED history
    PROVE  HistoryOK'
BY DEF HistoryOK, Chained

\* The invariant holds in the beginning.
LEMMA TablesInit == Init => HistoryOK /\ UpdatesOK
<1> SUFFICES ASSUME Init PROVE HistoryOK /\ UpdatesOK
  OBVIOUS
<1>1. HistoryOK
  BY SeedAssumption DEF Init, HistoryOK
<1>2. UpdatesOK
  BY DEF Init, UpdatesOK, UpdOK
<1>3. QED
  BY <1>1, <1>2

\* A commit appends to a chain: what the transaction saw is what there is.
LEMMA CommitKeeps ==
    ASSUME HistoryOK, UpdatesOK, NEW u \in Updaters, CommitPrice(u)
    PROVE  HistoryOK' /\ UpdatesOK'
<1> DEFINE m == upd[u].metal
           seen == upd[u].snapshot
<1>1. upd[u].at = "tx" /\ seen = history[m]
  BY DEF CommitPrice, Serializable
<1>2. UpdOK(upd[u])
  BY DEF UpdatesOK
<1>3. m \in Metals /\ upd[u].price \in Prices
  BY <1>1, <1>2 DEF UpdOK, IdleUpd
<1>4. history[m] \in Seq(PriceRows) /\ Chained(history[m])
  BY <1>3 DEF HistoryOK
<1>5. history' = [history EXCEPT ![m] =
                    Append(Deactivated(history[m]), NewRow(upd[u].price, history[m]))]
  BY <1>1 DEF CommitPrice
<1> HIDE DEF m, seen
<1>6. DEFINE rows == Append(Deactivated(history[m]), NewRow(upd[u].price, history[m]))
<1>7. rows \in Seq(PriceRows) /\ Chained(rows)
  BY <1>3, <1>4, ChainGrows
<1> HIDE DEF rows
<1>8. HistoryOK'
  <2>1. history' = [history EXCEPT ![m] = rows]
    BY <1>5 DEF rows
  <2>2. history' \in [Metals -> Seq(PriceRows)]
    BY <1>3, <1>7, <2>1 DEF HistoryOK
  <2>3. ASSUME NEW k \in Metals PROVE Chained(history'[k])
    BY <1>7, <2>1 DEF HistoryOK
  <2>4. QED
    BY <2>2, <2>3 DEF HistoryOK, Chained
<1>9. UpdatesOK'
  <2>1. upd' = Overlapping(u)
    BY DEF CommitPrice
  <2>2. DOMAIN upd' = Updaters
    BY <2>1 DEF Overlapping
  <2>3. ASSUME NEW v \in Updaters PROVE UpdOK(upd'[v])
    <3>1. UpdOK(upd[v])
      BY DEF UpdatesOK
    <3>2. CASE v = u
      BY <2>1, <3>2 DEF Overlapping, UpdOK
    <3>3. CASE v # u /\ upd[v].at = "tx"
      <4>1. upd'[v] = [upd[v] EXCEPT !.overlapped = TRUE]
        BY <2>1, <3>3 DEF Overlapping
      <4>2. QED
        BY <3>1, <3>3, <4>1 DEF UpdOK, IdleUpd
    <3>4. CASE v # u /\ upd[v].at # "tx"
      BY <2>1, <3>1, <3>4 DEF Overlapping
    <3>5. QED
      BY <3>2, <3>3, <3>4
  <2>4. QED
    BY <2>2, <2>3 DEF UpdatesOK, UpdOK
<1>10. QED
  BY <1>8, <1>9

\* The other steps of a price update change its slot only.
LEMMA UpdateKeeps ==
    ASSUME HistoryOK, UpdatesOK, NEW u \in Updaters, UpdatePrice(u)
    PROVE  HistoryOK' /\ UpdatesOK'
<1>1. CASE CommitPrice(u)
  BY <1>1, CommitKeeps
<1>2. CASE \E m \in Metals, price \in Prices : ReceivePrice(u, m, price)
  <2>1. PICK m \in Metals, price \in Prices : ReceivePrice(u, m, price)
    BY <1>2
  <2> DEFINE q == [at |-> "begin", metal |-> m, price |-> price, attempt |-> 1]
  <2>2. upd' = [upd EXCEPT ![u] = q] /\ UNCHANGED history
    BY <2>1 DEF ReceivePrice
  <2>3. UpdOK(q)
    BY TablesAssumption DEF UpdOK
  <2> HIDE DEF q
  <2>4. QED
    BY <2>2, <2>3, SlotWritten, OthersKeepHistory
<1>3. CASE BeginPriceTx(u)
  <2> DEFINE old == upd[u]
             q == [at |-> "tx", metal |-> old.metal, price |-> old.price,
                   attempt |-> old.attempt, snapshot |-> history[old.metal],
                   overlapped |-> FALSE]
  <2>1. upd' = [upd EXCEPT ![u] = q] /\ UNCHANGED history
    BY <1>3 DEF BeginPriceTx
  <2>2. old.at = "begin" /\ UpdOK(old)
    BY <1>3 DEF BeginPriceTx, UpdatesOK
  <2>3. /\ old.metal \in Metals
        /\ old.price \in Prices
        /\ old.attempt \in 1..MAX_ATTEMPTS
    BY <2>2 DEF UpdOK, IdleUpd
  <2>4. history[old.metal] \in Seq(PriceRows)
    BY <2>3 DEF HistoryOK
  <2>5. UpdOK(q)
    BY <2>3, <2>4 DEF UpdOK
  <2> HIDE DEF q
  <2>6. QED
    BY <2>1, <2>5, SlotWritten, OthersKeepHistory
<1>4. CASE ConflictPrice(u)
  <2> DEFINE old == upd[u]
             again == [at |-> "begin", metal |-> old.metal, price |-> old.price,
                       attempt |-> old.attempt + 1]
             q == IF MayRetry(u) THEN again ELSE IdleUpd
  <2>1. upd' = [upd EXCEPT ![u] = q] /\ UNCHANGED history
    BY <1>4 DEF ConflictPrice
  <2>2. old.at = "tx" /\ UpdOK(old)
    BY <1>4 DEF ConflictPrice, UpdatesOK
  <2>3. /\ old.metal \in Metals
        /\ old.price \in Prices
        /\ old.attempt \in 1..MAX_ATTEMPTS
    BY <2>2 DEF UpdOK, IdleUpd
  <2>4. MayRetry(u) => old.attempt + 1 \in 1..MAX_ATTEMPTS
    BY <2>3, TablesAssumption DEF MayRetry
  <2>5. MayRetry(u) => UpdOK(again)
    BY <2>3, <2>4 DEF UpdOK
  <2>6. UpdOK(q)
    BY <2>5 DEF UpdOK
  <2> HIDE DEF q
  <2>7. QED
    BY <2>1, <2>6, SlotWritten, OthersKeepHistory
<1>5. QED
  BY <1>1, <1>2, <1>3, <1>4 DEF UpdatePrice

\* Whatever an Admin does to formulas, materials and stones leaves the rows
\* and the price updates alone.
LEMMA EditKeeps ==
    ASSUME HistoryOK, UpdatesOK, UNCHANGED <<history, upd>>
    PROVE  HistoryOK' /\ UpdatesOK'
BY OthersKeepHistory DEF UpdatesOK, UpdOK

\* The requests of an Admin do not touch them.
LEMMA EditsElsewhere ==
    ASSUME NEW e \in Editors, EditFormula(e) \/ EditCatalogue(e)
    PROVE  UNCHANGED <<history, upd>>
<1>1. CASE EditFormula(e)
  BY <1>1 DEF EditFormula, ReceiveCreateFormula, ReceiveUpdateFormula,
       ReceiveRemoveFormula, ClearDefaults, InsertFormula, WriteFormula,
       CountMaterials, HideFormula
<1>2. CASE EditCatalogue(e)
  BY <1>2 DEF EditCatalogue, CreateMaterial, UpdateMaterial, RemoveMaterial,
       SetStonePrice, RemoveStone
<1>3. QED
  BY <1>1, <1>2

\* The invariant is inductive.
LEMMA TablesStep ==
    HistoryOK /\ UpdatesOK /\ [Next]_vars => HistoryOK' /\ UpdatesOK'
<1> SUFFICES ASSUME HistoryOK, UpdatesOK, [Next]_vars
             PROVE  HistoryOK' /\ UpdatesOK'
  OBVIOUS
<1>1. CASE \E u \in Updaters : UpdatePrice(u)
  BY <1>1, UpdateKeeps
<1>2. CASE \E e \in Editors : EditFormula(e) \/ EditCatalogue(e)
  BY <1>2, EditsElsewhere, EditKeeps
<1>3. CASE UNCHANGED vars
  BY <1>3, EditKeeps DEF vars
<1>4. QED
  BY <1>1, <1>2, <1>3 DEF Next

\* Types: whatever the number of Admins, metals and tries, the tables hold
\* rows of the right shape and no update is tried more than MAX_ATTEMPTS
\* times.
THEOREM TablesTyped == Spec => []TypeOK
<1>1. HistoryOK /\ UpdatesOK => TypeOK
  BY DEF HistoryOK, UpdatesOK, TypeOK
<1>2. QED
  BY <1>1, TablesInit, TablesStep, PTL DEF Spec

\* One active price per metal, and every change told against the price it
\* replaced, however updates overlap and are tried again.
THEOREM PricesChained == Spec => []PriceChain
<1>1. HistoryOK => PriceChain
  BY DEF HistoryOK, PriceChain
<1>2. QED
  BY <1>1, TablesInit, TablesStep, PTL DEF Spec
=============================================================================
