---------------------------- MODULE PriceTables ----------------------------
(***************************************************************************)
(* The tables prices are made from, and the requests that change and read  *)
(* them: metal-prices.service.ts, pricing-formulas.service.ts,             *)
(* materials.service.ts and the price of a stone.                          *)
(*                                                                         *)
(* A price update is a SERIALIZABLE transaction that is tried again; a     *)
(* change of a formula is a chain of statements; the calculations of       *)
(* OptionPricing are evaluated over whatever tables result.                *)
(***************************************************************************)
EXTENDS OptionPricing, FiniteSets

CONSTANTS Metals, Prices,      \* the metals, the prices an Admin may type in
          Updaters,            \* slots of updatePrice requests in flight
          MAX_ATTEMPTS,        \* tries of a price transaction
          Formulas, Configs,   \* names of formulas, contents of new ones
          Patches,             \* what an Admin may send to change one
          Materials, Ratios,   \* names of materials, their percentages
          Editors,             \* slots of requests on formulas and materials
          Stones,              \* the stones of the catalogue
          Products,            \* what a calculation may be asked for
          FirstHistory, FirstFormula, FirstMaterial, FirstStone,  \* the seed
          Categories,          \* labour and VAT per category of products
          Fee,                 \* an inspection fee
          MaxInFlight,         \* bound: requests in flight
          MaxChanges           \* bound: changes of the tables

ASSUME TablesAssumption ==
    /\ Prices \subseteq Nat \ {0}
    /\ MAX_ATTEMPTS \in Nat \ {0}

VARIABLES history,    \* per metal, its price rows, oldest first
          formula,    \* name |-> row, of the formulas there are
          material,   \* name |-> row
          stone,      \* id |-> price
          upd,        \* the price updates in flight
          edit,       \* the formula requests in flight
          changes     \* how many statements changed a table

vars == <<history, formula, material, stone, upd, edit, changes>>

----------------------------------------------------------------------------
(* The price of a metal.                                                   *)

NoChange == <<>>    \* changePct of the first row, else <<pct>>

\* Hundredths of a percent, rounded, within what the column can hold.
computeChangePct(next, prev) ==
    LET pct == Round(<<(next - prev) * Hundred * Hundred, prev>>)
        limit == Hundred * Hundred * Hundred - 1
    IN  CASE pct > limit -> <<limit>>
          [] pct < -limit -> <<-limit>>
          [] OTHER -> <<pct>>

\* findFirst: the active row of what a transaction sees.
ActiveRows(rows) == {i \in DOMAIN rows : rows[i].isActive}
ActiveRow(rows) == rows[CHOOSE i \in ActiveRows(rows) : TRUE]

\* getLatestAsync.
Latest == [m \in {k \in Metals : ActiveRows(history[k]) # {}} |-> ActiveRow(history[m]).priceVnd]

Deactivated(rows) == [i \in DOMAIN rows |-> [rows[i] EXCEPT !.isActive = FALSE]]

NewRow(price, seen) ==
    [priceVnd |-> price, isActive |-> TRUE,
     changePct |-> IF ActiveRows(seen) = {} THEN NoChange
                   ELSE computeChangePct(price, ActiveRow(seen).priceVnd)]

PriceRows == [priceVnd : Prices, isActive : BOOLEAN, changePct : Seq(Int)]

\* Only the newest row is active, and each one tells its change against the
\* one before it.
Chained(rows) ==
    \A i \in DOMAIN rows :
        /\ rows[i].isActive <=> i = Len(rows)
        /\ rows[i].changePct =
             IF i = 1 THEN NoChange
             ELSE computeChangePct(rows[i].priceVnd, rows[i - 1].priceVnd)

ASSUME SeedAssumption ==
    /\ FirstHistory \in [Metals -> Seq(PriceRows)]
    /\ \A m \in Metals : Chained(FirstHistory[m])

\* getHistory leaves out the rows that changed nothing.
Shown(rows) == SelectSeq(rows, LAMBDA r : r.changePct # <<0>>)

----------------------------------------------------------------------------
InFlight == Cardinality({u \in Updaters : upd[u].at # "idle"})
            + Cardinality({e \in Editors : edit[e].at # "idle"})

Room == InFlight < MaxInFlight

\* What a calculation reads.  Between two requests it is the same for all of
\* its queries; the models of the calculations are evaluated there.
Tables == [prices |-> Latest, formula |-> formula, material |-> material,
           stone |-> stone, category |-> Categories]

\* Called with every statement that changes a table.
Notice == changes < MaxChanges /\ changes' = changes + 1

----------------------------------------------------------------------------
(* updatePrice.                                                            *)

IdleUpd == [at |-> "idle"]

ReceivePrice(u, m, price) ==
    /\ upd[u].at = "idle"
    /\ Room
    /\ upd' = [upd EXCEPT ![u] = [at |-> "begin", metal |-> m, price |-> price, attempt |-> 1]]
    /\ UNCHANGED <<history, formula, material, stone, edit, changes>>

\* The first statement of the transaction takes the snapshot it works on.
BeginPriceTx(u) ==
    /\ upd[u].at = "begin"
    /\ upd' = [upd EXCEPT ![u] = [at |-> "tx", metal |-> @.metal, price |-> @.price,
                                  attempt |-> @.attempt,
                                  snapshot |-> history[@.metal], overlapped |-> FALSE]]
    /\ UNCHANGED <<history, formula, material, stone, edit, changes>>

\* mutant: the transaction without its isolation level
ReadCommitted(u) == upd[u].at = "tx"

\* SERIALIZABLE: a transaction commits only if nobody changed the rows it
\* read.
Serializable(u) == upd[u].snapshot = history[upd[u].metal]

\* Every other transaction in flight has now overlapped with a commit.
Overlapping(u) ==
    [v \in Updaters |->
        IF v = u THEN IdleUpd
        ELSE IF upd[v].at = "tx" THEN [upd[v] EXCEPT !.overlapped = TRUE] ELSE upd[v]]

CommitPrice(u) ==
    LET m == upd[u].metal
    IN  /\ upd[u].at = "tx"
        /\ Serializable(u)
        /\ history' = [history EXCEPT ![m] =
                          Append(Deactivated(@), NewRow(upd[u].price, upd[u].snapshot))]
        /\ upd' = Overlapping(u)
        /\ UNCHANGED <<formula, material, stone, edit>>
        /\ Notice

\* mutant: attempt > MAX_ATTEMPTS instead of >=
MayRetryOnceMore(u) == upd[u].attempt <= MAX_ATTEMPTS

\* P2034: after a conflict, or although there was none (the transaction of
\* another metal), the transaction is rolled back and tried again.
MayRetry(u) == upd[u].attempt < MAX_ATTEMPTS

ConflictPrice(u) ==
    /\ upd[u].at = "tx"
    /\ upd[u].overlapped
    /\ upd' = [upd EXCEPT ![u] =
                  IF MayRetry(u)
                  THEN [at |-> "begin", metal |-> @.metal, price |-> @.price,
                        attempt |-> @.attempt + 1]
                  ELSE IdleUpd]
    /\ UNCHANGED <<history, formula, material, stone, edit, changes>>

----------------------------------------------------------------------------
(* Formulas.  e is the slot of an Admin's request.                         *)

IdleEdit == [at |-> "idle"]
Exists(f) == f \in DOMAIN formula

\* mutant: the old default keeps its mark
StillMarked(rows) == rows

Unmarked(rows) == [f \in DOMAIN rows |-> [rows[f] EXCEPT !.isDefault = FALSE]]

\* create() and update() clear the old default in a statement of their own.
ReceiveCreateFormula(e, f, config, isDefault) ==
    /\ edit[e].at = "idle"
    /\ Room
    /\ edit' = [edit EXCEPT ![e] = [at |-> IF isDefault THEN "clear" ELSE "write",
                                    op |-> "create", f |-> f, config |-> config,
                                    isDefault |-> isDefault]]
    /\ UNCHANGED <<history, formula, material, stone, upd, changes>>

\* A patch has the fields of change; with a content the formula must exist
\* and keeps its type.
ReceiveUpdateFormula(e, f, change) ==
    /\ edit[e].at = "idle"
    /\ Room
    /\ "config" \in DOMAIN change => /\ Exists(f)
                                     /\ change.config.formulaType = formula[f].formulaType
    /\ edit' = [edit EXCEPT ![e] =
                   [at |-> IF "isDefault" \in DOMAIN change /\ change.isDefault
                           THEN "clear" ELSE "write",
                    op |-> "update", f |-> f, change |-> change]]
    /\ UNCHANGED <<history, formula, material, stone, upd, changes>>

\* update() spares the formula itself.
ClearDefaults(e) ==
    /\ edit[e].at = "clear"
    /\ formula' = [Unmarked(formula) EXCEPT
                     ![edit[e].f] = IF edit[e].op = "update" THEN formula[edit[e].f] ELSE @]
    /\ edit' = [edit EXCEPT ![e].at = "write"]
    /\ UNCHANGED <<history, material, stone, upd>>
    /\ Notice

\* The name is unique, for hidden formulas too: a second one is refused,
\* after the default was cleared.
InsertFormula(e) ==
    /\ edit[e].at = "write" /\ edit[e].op = "create"
    /\ edit' = [edit EXCEPT ![e] = IdleEdit]
    /\ UNCHANGED <<history, material, stone, upd>>
    /\ IF Exists(edit[e].f) THEN UNCHANGED <<formula, changes>>
       ELSE /\ formula' = [f \in DOMAIN formula \cup {edit[e].f} |->
                             IF f # edit[e].f THEN formula[f]
                             ELSE [formulaType |-> edit[e].config.formulaType,
                                   tiers |-> edit[e].config.tiers,
                                   multipliers |-> edit[e].config.multipliers,
                                   isDefault |-> edit[e].isDefault, isActive |-> TRUE]]
            /\ Notice

Patched(row, change) ==
    [row EXCEPT !.tiers = IF "config" \in DOMAIN change THEN change.config.tiers ELSE @,
                !.multipliers = IF "config" \in DOMAIN change
                                THEN change.config.multipliers ELSE @,
                !.isDefault = IF "isDefault" \in DOMAIN change THEN change.isDefault ELSE @]

WriteFormula(e) ==
    /\ edit[e].at = "write" /\ edit[e].op = "update"
    /\ edit' = [edit EXCEPT ![e] = IdleEdit]
    /\ UNCHANGED <<history, material, stone, upd>>
    /\ IF ~Exists(edit[e].f) THEN UNCHANGED <<formula, changes>>
       ELSE /\ formula' = [formula EXCEPT ![edit[e].f] = Patched(@, edit[e].change)]
            /\ Notice

\* mutant: the default is not excepted
MayRemoveAny(f) == Exists(f)

\* remove(): not the default, not in use, then hidden: three statements.
MayRemove(f) == Exists(f) /\ ~formula[f].isDefault

ReceiveRemoveFormula(e, f) ==
    /\ edit[e].at = "idle"
    /\ Room
    /\ MayRemove(f)
    /\ edit' = [edit EXCEPT ![e] = [at |-> "count", op |-> "remove", f |-> f]]
    /\ UNCHANGED <<history, formula, material, stone, upd, changes>>

InUse(f) == \E m \in DOMAIN material : material[m].isActive /\ material[m].formula = f

CountMaterials(e) ==
    /\ edit[e].at = "count"
    /\ edit' = [edit EXCEPT ![e] = IF InUse(edit[e].f) THEN IdleEdit
                                   ELSE [@ EXCEPT !.at = "hide"]]
    /\ UNCHANGED <<history, formula, material, stone, upd, changes>>

HideFormula(e) ==
    /\ edit[e].at = "hide"
    /\ formula' = [formula EXCEPT ![edit[e].f].isActive = FALSE]
    /\ edit' = [edit EXCEPT ![e] = IdleEdit]
    /\ UNCHANGED <<history, material, stone, upd>>
    /\ Notice

----------------------------------------------------------------------------
(* Materials and stones: one statement each, by an Admin who has nothing   *)
(* else in flight.                                                         *)

Free(e) == edit[e].at = "idle"

CreateMaterial(e, name, row) ==
    /\ Free(e) /\ name \notin DOMAIN material /\ Exists(row.formula)
    /\ material' = [n \in DOMAIN material \cup {name} |->
                      IF n = name THEN row ELSE material[n]]
    /\ UNCHANGED <<history, formula, stone, upd, edit>>
    /\ Notice

UpdateMaterial(e, name, ratio, f) ==
    /\ Free(e) /\ name \in DOMAIN material /\ Exists(f)
    /\ material' = [material EXCEPT ![name].ratio = ratio, ![name].formula = f]
    /\ UNCHANGED <<history, formula, stone, upd, edit>>
    /\ Notice

RemoveMaterial(e, name) ==
    /\ Free(e) /\ name \in DOMAIN material
    /\ material' = [material EXCEPT ![name].isActive = FALSE]
    /\ UNCHANGED <<history, formula, stone, upd, edit>>
    /\ Notice

SetStonePrice(e, s, price) ==
    /\ Free(e) /\ s \in DOMAIN stone
    /\ stone' = [stone EXCEPT ![s] = price]
    /\ UNCHANGED <<history, formula, material, upd, edit>>
    /\ Notice

RemoveStone(e, s) ==
    /\ Free(e) /\ s \in DOMAIN stone
    /\ stone' = [t \in DOMAIN stone \ {s} |-> stone[t]]
    /\ UNCHANGED <<history, formula, material, upd, edit>>
    /\ Notice

----------------------------------------------------------------------------
Init ==
    /\ history = FirstHistory
    /\ formula = FirstFormula
    /\ material = FirstMaterial
    /\ stone = FirstStone
    /\ upd = [u \in Updaters |-> IdleUpd]
    /\ edit = [e \in Editors |-> IdleEdit]
    /\ changes = 0

MaterialRows == [baseMetal : Metals \cup {NoMetal}, ratio : Ratios,
                 formula : Formulas, isActive : {TRUE}]

UpdatePrice(u) ==
    \/ \E m \in Metals, price \in Prices : ReceivePrice(u, m, price)
    \/ BeginPriceTx(u) \/ CommitPrice(u) \/ ConflictPrice(u)

EditFormula(e) ==
    \/ \E f \in Formulas, c \in Configs, d \in BOOLEAN : ReceiveCreateFormula(e, f, c, d)
    \/ \E f \in Formulas, c \in Patches : ReceiveUpdateFormula(e, f, c)
    \/ \E f \in Formulas : ReceiveRemoveFormula(e, f)
    \/ ClearDefaults(e) \/ InsertFormula(e) \/ WriteFormula(e)
    \/ CountMaterials(e) \/ HideFormula(e)

EditCatalogue(e) ==
    \/ \E m \in Materials, row \in MaterialRows : CreateMaterial(e, m, row)
    \/ \E m \in Materials, r \in Ratios, f \in Formulas : UpdateMaterial(e, m, r, f)
    \/ \E m \in Materials : RemoveMaterial(e, m)
    \/ \E s \in Stones : RemoveStone(e, s) \/ \E p \in Prices : SetStonePrice(e, s, p)

Next ==
    \/ \E u \in Updaters : UpdatePrice(u)
    \/ \E e \in Editors : EditFormula(e) \/ EditCatalogue(e)

Spec == Init /\ [][Next]_vars

----------------------------------------------------------------------------
UpdOK(q) ==
    \/ q = IdleUpd
    \/ /\ q.at \in {"begin", "tx"}
       /\ q.metal \in Metals
       /\ q.price \in Prices
       /\ q.attempt \in 1..MAX_ATTEMPTS
       /\ q.at = "tx" => q.snapshot \in Seq(PriceRows)

\* The rows of the metals and the price updates are what the code can hold;
\* an update is tried at most MAX_ATTEMPTS times.
TypeOK ==
    /\ history \in [Metals -> Seq(PriceRows)]
    /\ DOMAIN upd = Updaters
    /\ \A u \in Updaters : UpdOK(upd[u])

\* The rows of a metal are a chain: only the newest is active, and each one
\* tells its change against the one before it, whatever updates ran at the
\* same time and however often they were tried.
PriceChain == \A m \in Metals : Chained(history[m])

\* With one Admin at work there is never a second default formula, visible
\* or hidden, so that the tiers the stones are priced by are not a matter
\* of which row the database returns first.
OneDefault == \A f, g \in DOMAIN formula : formula[f].isDefault /\ formula[g].isDefault => f = g

\* remove() with one Admin at work never hides the default formula nor one
\* that a material in use is priced by.
HiddenIsUnused ==
    [][\A f \in DOMAIN formula :
         formula[f].isActive /\ f \in DOMAIN formula' /\ ~formula'[f].isActive
         => ~InUse(f) /\ ~formula[f].isDefault]_vars

\* The same product costs the same wherever it is priced, by any state of
\* the tables between two requests and for a Sale as for an Order: alone, in
\* a batch, as a mixture of materials, and again as a stored option.
SameAlone(product, tiers) ==
    LET single == calculate5StepPrice(Tables, tiers, product)
        multi == calculateMulti(Tables, tiers, product, 0)
        live == LivePrice(Tables, tiers, product)
    IN  /\ calculateBatch(Tables, tiers, <<product>>, 0) = <<single>>
        /\ multi.ok => /\ single.ok
                       /\ multi.quotedPrice = single.quotedPrice
                       /\ multi.materialPrice = single.materialPrice
        /\ live.ok => single.ok
        /\ live.ok /\ product.choice = NoChoice =>
              /\ live.total = single.quotedPrice
              /\ live.parts = PriceBreakdown(single.quotedPrice, single.stonePrice)

SameMixed(product, tiers) ==
    LET multi == calculateMulti(Tables, tiers, product, 0)
        live == LivePrice(Tables, tiers, product)
    IN  /\ multi.ok <=> live.ok
        /\ multi.ok => live.total = multi.quotedPrice

Requested ==
    {p \in Products : p.includeVat = "yes"}
    \cup {ForSale(Tables, [p EXCEPT !.includeVat = vat]) : p \in Products, vat \in {"yes", "no"}}

OnePriceEverywhere ==
    InFlight = 0 => \A p \in Requested, tiers \in DefaultTiers(formula) :
        IF Len(p.materials) = 1 THEN SameAlone(p, tiers) ELSE SameMixed(p, tiers)

\* The amounts shown with a price are rounded one by one and worked out
\* again from rounded columns when an option was saved; they differ from
\* each other by no more than the rounding.
Near(a, b, gap) == a - b <= gap /\ b - a <= gap

PartsAddUp(q, fee) ==
    Near(2 * q.quotedPrice, 2 * (q.materialPrice + q.stonePrice + fee), Thousand)

SavedAgrees(q) ==
    LET saved == computeCostBreakdown(q)
    IN  /\ Near(saved.metalVatAmount, q.metalVatAmount, 1)
        /\ Near(saved.metalProfit, q.metalProfit, 2)
        /\ saved.stoneVatAmount = q.stoneVatAmount
        /\ Near(saved.stoneProfit, q.stoneProfit, 1)

AmountsAgree ==
    InFlight = 0 => \A p \in Products, tiers \in DefaultTiers(formula) :
        LET batch == calculateBatch(Tables, tiers, <<p>>, Fee)[1]
            multi == calculateMulti(Tables, tiers, p, Fee)
        IN  /\ batch.ok => PartsAddUp(batch, Fee) /\ SavedAgrees(batch)
            /\ multi.ok => PartsAddUp(multi, Fee) /\ SavedAgrees(multi)
=============================================================================
