---------------------------- MODULE FinalOption ----------------------------
(***************************************************************************)
(* QuoteRequest.finalOptionId, the cached id of the option that stands for *)
(* the quote, which the database recomputes (sync_final_option) at the end *)
(* of every statement on quote_options.  The application computes the same *)
(* choice again when it shows a quote (pickPrimaryOption).                 *)
(*                                                                         *)
(* Transactions run at READ COMMITTED: a statement sees what was committed *)
(* when it started plus its own transaction's changes, a row changed by an *)
(* open transaction is locked, and the quote's row is one of them.  The    *)
(* trigger reads the options first and updates the quote's row after, so   *)
(* between the two another transaction may commit.                         *)
(*                                                                         *)
(* QUOTE, EDIT_PRICE, QUICK_* and SELECT_OPTION update the quote's row, or *)
(* fire the trigger once, before their last statement on the options.      *)
(* From then on no other transaction that changes the options can commit,  *)
(* so their last statement, its trigger and the commit are one step.       *)
(***************************************************************************)
EXTENDS Naturals

CONSTANTS
  Txs,         \* slots for transactions in flight
  Kinds,       \* the transactions of this instance
  Alone,       \* those of them that never overlap another one
  NoOption,    \* final_option_id = NULL
  NoTx,        \* nobody holds the lock on the quote's row
  MaxOptions,  \* bound: options written by one transaction
  MaxId,       \* bound: options written in a behaviour
  MaxTime      \* bound: values of Date.now()

TxKinds == {"replace", "quickReplace", "select", "delete"}

ASSUME FinalOptionAssumption ==
  /\ Kinds \subseteq TxKinds
  /\ NoTx \notin Txs
  /\ NoOption \notin Nat
  /\ {MaxOptions, MaxId, MaxTime} \subseteq Nat

VARIABLES
  rows,    \* the committed rows of quote_options
  final,   \* the committed final_option_id
  lock,    \* the transaction holding the lock on the quote's row
  nextId,  \* the next option id
  tx       \* the transactions in flight

vars == <<rows, final, lock, nextId, tx>>

\* priced: quoted_price is not null.  selected: selection_status = SELECTED.
Row == [id : Nat, at : Nat, priced : BOOLEAN, selected : BOOLEAN]

Ids(S) == { o.id : o \in S }

(***************************************************************************)
(* opt: the option named by the client.  snap: the options visible to the  *)
(* statement that opens the transaction.  locked: the option rows it       *)
(* changed.  pick: what the trigger of a DELETE read.                      *)
(***************************************************************************)
Steps == {"idle", "open", "rowsDone", "quoteLocked", "picked"}
Idle == [kind |-> "none", at |-> "idle", opt |-> NoOption, snap |-> {},
         locked |-> {}, pick |-> NoOption]

Tx == [kind : TxKinds \cup {"none"}, at : Steps, opt : Nat \cup {NoOption},
       snap : SUBSET Nat, locked : SUBSET Nat, pick : Nat \cup {NoOption}]

-----------------------------------------------------------------------------
(* Which option stands for the quote *)

\* mutant: the newest of the selected options instead of the oldest
BeforeNewestSelected(a, b) ==
  \/ a.selected /\ ~ b.selected
  \/ a.selected = b.selected /\ a.priced /\ ~ b.priced
  \/ a.selected = b.selected /\ a.priced = b.priced /\ a.at > b.at

\* the ORDER BY of sync_final_option()
Before(a, b) ==
  LET offered(o) == ~ o.selected /\ o.priced
  IN  \/ a.selected /\ ~ b.selected
      \/ a.selected = b.selected /\ offered(a) /\ ~ offered(b)
      \/ a.selected = b.selected /\ offered(a) /\ offered(b) /\ a.at > b.at
      \/ a.selected = b.selected /\ ~ offered(a) /\ ~ offered(b) /\ a.at < b.at

\* its LIMIT 1: any row no other comes before; NULL when there is none
SqlPrimary(S) ==
  IF S = {} THEN {NoOption}
  ELSE Ids({ o \in S : \A p \in S : ~ Before(p, o) })

Earliest(S) == { o \in S : \A p \in S : o.at <= p.at }
Latest(S)   == { o \in S : \A p \in S : p.at <= o.at }

\* pickPrimaryOption over rows ordered by created_at, ties in any order
JsPrimary(S) ==
  LET selected == { o \in S : o.selected }
      priced   == { o \in S : o.priced }
  IN  IF S = {} THEN {NoOption}
      ELSE IF selected # {} THEN Ids(Earliest(selected))
      ELSE IF priced # {} THEN Ids(Latest(priced))
      ELSE Ids(Earliest(S))

-----------------------------------------------------------------------------
TypeOK ==
  /\ rows \subseteq Row
  /\ final \in Nat \cup {NoOption}
  /\ lock \in Txs \cup {NoTx}
  /\ nextId \in Nat
  /\ tx \in [Txs -> Tx]
  /\ \A a, b \in rows : a.id = b.id => a = b

\* mutant: one randomUUID() for the whole request
BatchSameId(n, k, numbered) ==
  { { [id |-> n, at |-> IF numbered THEN base + i ELSE base,
       priced |-> i \in priced, selected |-> i \in selected] : i \in 0 .. k - 1 } :
      base \in 1 .. MaxTime,
      priced \in SUBSET (0 .. k - 1), selected \in SUBSET (0 .. k - 1) }

(***************************************************************************)
(* The rows one request inserts, with ids n, n + 1, ...  QUOTE and         *)
(* EDIT_PRICE number created_at (base + idx); the nested create of QUICK_* *)
(* and of create() gives all of them the same now().                       *)
(***************************************************************************)
Batch(n, k, numbered) ==
  { { [id |-> n + i, at |-> IF numbered THEN base + i ELSE base,
       priced |-> i \in priced, selected |-> i \in selected] : i \in 0 .. k - 1 } :
      base \in 1 .. MaxTime,
      priced \in SUBSET (0 .. k - 1), selected \in SUBSET (0 .. k - 1) }

\* how many options a request may write when the next id is n
Sizes(n) == { k \in 1 .. MaxOptions : n + k - 1 <= MaxId }

\* create(): the options the Sale entered, if any; the insert fired the trigger
Init ==
  /\ \E k \in {0} \cup Sizes(1) : rows \in Batch(1, k, FALSE) /\ nextId = 1 + k
  /\ final \in SqlPrimary(rows)
  /\ lock = NoTx
  /\ tx = [t \in Txs |-> Idle]

MayBegin(t, kind) ==
  /\ kind \in Kinds /\ tx[t].at = "idle"
  /\ \A x \in Txs : tx[x].at # "idle" => kind \notin Alone /\ tx[x].kind \notin Alone

Open(t, kind, at, opt, snap, locked) ==
  tx' = [tx EXCEPT ![t] = [kind |-> kind, at |-> at, opt |-> opt, snap |-> snap,
                           locked |-> locked, pick |-> NoOption]]

\* no row of S is locked by another transaction
Unlocked(t, S) == \A x \in Txs \ {t} : tx[x].locked \cap S = {}

\* UPDATE quote_requests: waits for the transaction that holds the row
LockQuote(t) ==
  /\ lock \in {NoTx, t}
  /\ lock' = t

ReleaseQuote(t) == lock' = IF lock = t THEN NoTx ELSE lock

Finish(t) == tx' = [tx EXCEPT ![t] = Idle]

-----------------------------------------------------------------------------
(* QUOTE, EDIT_PRICE: deleteMany, update of the quote, createMany *)

BeginReplace(t) ==
  /\ MayBegin(t, "replace")
  /\ Open(t, "replace", "open", NoOption, Ids(rows), {})
  /\ UNCHANGED <<rows, final, lock, nextId>>

\* DELETE, or UPDATE ... SET selection_status = 'NONE', of the rows of the
\* statement's snapshot that are still there
ChangeRows(t) ==
  /\ tx[t].at = "open"
  /\ Unlocked(t, tx[t].snap)
  /\ tx' = [tx EXCEPT ![t].at = "rowsDone", ![t].locked = tx[t].snap \cap Ids(rows)]
  /\ UNCHANGED <<rows, final, lock, nextId>>

UpdateQuote(t) ==
  /\ tx[t].kind \in {"replace", "select"} /\ tx[t].at = "rowsDone"
  /\ LockQuote(t)
  /\ tx' = [tx EXCEPT ![t].at = "quoteLocked"]
  /\ UNCHANGED <<rows, final, nextId>>

CommitReplace(t) ==
  /\ \/ tx[t].kind = "replace" /\ tx[t].at = "quoteLocked"
     \/ tx[t].kind = "quickReplace" /\ tx[t].at = "rowsDone"
  /\ \E k \in Sizes(nextId) :
       /\ \E new \in Batch(nextId, k, tx[t].kind = "replace") :
            rows' = { o \in rows : o.id \notin tx[t].locked } \cup new
       /\ nextId' = nextId + k
  /\ final' \in SqlPrimary(rows')
  /\ ReleaseQuote(t)
  /\ Finish(t)

(* QUICK_QUOTE, QUICK_APPROVE with options: the update of the quote comes    *)
(* first, then its nested deleteMany and create                              *)

BeginQuickReplace(t) ==
  /\ MayBegin(t, "quickReplace")
  /\ LockQuote(t)
  /\ Open(t, "quickReplace", "quoteLocked", NoOption, {}, {})
  /\ UNCHANGED <<rows, final, nextId>>

QuickDeleteMany(t) ==
  /\ tx[t].kind = "quickReplace" /\ tx[t].at = "quoteLocked"
  /\ tx' = [tx EXCEPT ![t].at = "open", ![t].snap = Ids(rows)]
  /\ UNCHANGED <<rows, final, lock, nextId>>

(* SELECT_OPTION: every option to NONE, then the chosen one to SELECTED      *)

BeginSelect(t) ==
  /\ MayBegin(t, "select")
  /\ \E o \in Ids(rows) : Open(t, "select", "open", o, Ids(rows), {})
  /\ UNCHANGED <<rows, final, lock, nextId>>

CommitSelect(t) ==
  /\ tx[t].kind = "select" /\ tx[t].at = "quoteLocked"
  /\ tx[t].opt \in Ids(rows) /\ Unlocked(t, {tx[t].opt})
  /\ rows' = { IF o.id = tx[t].opt THEN [o EXCEPT !.selected = TRUE]
               ELSE IF o.id \in tx[t].locked THEN [o EXCEPT !.selected = FALSE]
               ELSE o : o \in rows }
  /\ final' \in SqlPrimary(rows')
  /\ ReleaseQuote(t)
  /\ Finish(t)
  /\ UNCHANGED nextId

(* deleteOption: one DELETE, its trigger, and the commit                     *)

BeginDelete(t) ==
  /\ MayBegin(t, "delete")
  /\ \E a, b \in rows : a # b
  /\ \E o \in Ids(rows) :
       Unlocked(t, {o}) /\ Open(t, "delete", "rowsDone", o, {}, {o})
  /\ UNCHANGED <<rows, final, lock, nextId>>

\* the SELECT of sync_final_option
TriggerSelect(t) ==
  /\ tx[t].kind = "delete" /\ tx[t].at = "rowsDone"
  /\ \E p \in SqlPrimary({ o \in rows : o.id # tx[t].opt }) :
       tx' = [tx EXCEPT ![t].at = "picked", ![t].pick = p]
  /\ UNCHANGED <<rows, final, lock, nextId>>

\* its UPDATE, once the quote's row is free, and the commit
CommitDelete(t) ==
  /\ tx[t].kind = "delete" /\ tx[t].at = "picked"
  /\ lock = NoTx
  /\ rows' = { o \in rows : o.id # tx[t].opt }
  /\ final' = tx[t].pick
  /\ Finish(t)
  /\ UNCHANGED <<lock, nextId>>

\* Rollback: the row named is gone, the quote was cancelled, PostgreSQL breaks
\* a deadlock, or the connection is lost.
Abort(t) ==
  /\ tx[t].at # "idle"
  /\ ReleaseQuote(t)
  /\ Finish(t)
  /\ UNCHANGED <<rows, final, nextId>>

Begin(t) ==
  BeginReplace(t) \/ BeginQuickReplace(t) \/ BeginSelect(t) \/ BeginDelete(t)

Continue(t) ==
  ChangeRows(t) \/ UpdateQuote(t) \/ QuickDeleteMany(t) \/ TriggerSelect(t)

Commit(t) == CommitReplace(t) \/ CommitSelect(t) \/ CommitDelete(t)

Next == \E t \in Txs : Begin(t) \/ Continue(t) \/ Commit(t) \/ Abort(t)

Spec == Init /\ [][Next]_vars

-----------------------------------------------------------------------------
\* The cached final option is always one that pickPrimaryOption may choose from
\* the stored options: the trigger and the application agree on the order, and
\* no transaction overwrites the cache with what it read before another commit.
FinalIsPrimary == final \in JsPrimary(rows)
=============================================================================
