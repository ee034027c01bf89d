--------------------------- MODULE QuoteWorkflow ---------------------------
(***************************************************************************)
(* The life of one quote request, as the HTTP handlers of                  *)
(* quote-workflow.service.ts and quote-requests.service.ts drive it.       *)
(*                                                                         *)
(* A handler is a chain of database round trips with an await between any  *)
(* two of them, so handlers of different users interleave at every await.  *)
(* Each handler is modelled by the reads its decision rests on (Receive..) *)
(* and by the statement or transaction that writes (the action named after *)
(* the helper of the code).  What it remembers in between is req[r].       *)
(*                                                                         *)
(* A read that decides nothing the next read does not decide again is      *)
(* taken together with it: every pricing action passes the central guard   *)
(* "not cancelled" and then assertPricingCanProcess "is PROCESSING", which *)
(* implies it.  A failed check changes nothing and is no step.             *)
(***************************************************************************)
EXTENDS Naturals, FiniteSets

CONSTANTS
  Sales, Orders, Admins,  \* the users, by role
  Requester,              \* the user who created the quote
  NoUser,                 \* assigneeId = null
  Requests,               \* request slots: how many handlers may be in flight
  Actions,                \* the operations clients send in this instance
  OptionIds, NoOption,    \* ids of quote options, and "no option"
  MaxOptions,             \* bound: options submitted by one request
  MaxVersion              \* bound: value of the version column

Users   == Sales \cup Orders \cup Admins
Pricers == Orders \cup Admins

QuoteActions ==
  { "ACCEPT", "QUOTE", "REJECT", "RETURN", "RESUBMIT", "SELECT_OPTION",
    "QUICK_QUOTE", "QUICK_APPROVE", "QUICK_REJECT", "EDIT_PRICE", "CANCEL",
    "RESTORE", "deleteOption", "update", "remove" }

Statuses == { "PENDING", "PROCESSING", "QUOTED", "REJECTED",
              "NEED_MORE_INFO", "CANCELLED" }

CANCELLABLE_QUOTE_STATUSES ==
  { "PENDING", "PROCESSING", "NEED_MORE_INFO", "QUOTED" }

Null    == "null"     \* cancelledFromStatus = null
Deleted == "DELETED"  \* the row is gone

ASSUME UsersAssumption ==
  /\ Sales \cap Orders = {} /\ Sales \cap Admins = {} /\ Orders \cap Admins = {}
  /\ Requester \in Sales \cup Admins
  /\ NoUser \notin Users

ASSUME BoundsAssumption ==
  /\ Actions \subseteq QuoteActions
  /\ NoOption \notin OptionIds
  /\ MaxOptions \in Nat
  /\ MaxVersion \in Nat \ {0}

VARIABLES
  status,         \* QuoteRequest.status, or Deleted
  cancelledFrom,  \* QuoteRequest.cancelledFromStatus
  assignee,       \* QuoteRequest.assigneeId
  version,        \* QuoteRequest.version
  options,        \* ids of the quote's rows in quote_options
  selected,       \* those with selectionStatus = SELECTED
  req             \* the handlers in flight

quoteVars == <<status, cancelledFrom, assignee, version, options, selected>>
vars == <<quoteVars, req>>

(***************************************************************************)
(* at: the write the handler is about to perform, "idle" between requests. *)
(* seen: the status (CANCEL) or cancelledFromStatus (RESTORE) read by the  *)
(* central guard.  opt: the option named by the client.  snap: the options *)
(* visible to the DELETE statement that opens a pricing transaction.       *)
(***************************************************************************)
Writes == { "accept", "completeQuote", "completeQuoteInsert", "editQuotedPrice",
            "editQuotedPriceInsert", "quickQuote", "quickApproveCount",
            "quickApprove", "quickApproveAsIs", "rejectQuote", "returnQuote",
            "resubmitQuote", "selectOption", "deleteOption", "cancelQuote",
            "restoreQuote", "update", "remove" }

Idle == [at |-> "idle", user |-> NoUser, seen |-> Null, opt |-> NoOption,
         snap |-> {}]

Handler == [at : Writes \cup {"idle"}, user : Users \cup {NoUser},
            seen : Statuses \cup {Null}, opt : OptionIds \cup {NoOption},
            snap : SUBSET OptionIds]

TypeOK ==
  /\ status \in Statuses \cup {Deleted}
  /\ cancelledFrom \in CANCELLABLE_QUOTE_STATUSES \cup {Null}
  /\ assignee \in Pricers \cup {NoUser}
  /\ version \in 1 .. MaxVersion
  /\ options \subseteq OptionIds
  /\ selected \subseteq options
  /\ req \in [Requests -> Handler]

(***************************************************************************)
(* The quote as create() leaves it: PENDING, version 1, nobody assigned,   *)
(* with the options the Sale entered (possibly none), marked or not.       *)
(***************************************************************************)
Init ==
  /\ status = "PENDING"
  /\ cancelledFrom = Null
  /\ assignee = NoUser
  /\ version = 1
  /\ options \in { N \in SUBSET OptionIds : Cardinality(N) <= MaxOptions }
  /\ selected \in SUBSET options
  /\ req = [r \in Requests |-> Idle]

-----------------------------------------------------------------------------
(* Helpers *)

Start(r, u, write, seen, opt) ==
  req' = [req EXCEPT ![r] = [at |-> write, user |-> u, seen |-> seen,
                             opt |-> opt, snap |-> {}]]

Done(r) == req' = [req EXCEPT ![r] = Idle]

IncrementVersion ==
  /\ version < MaxVersion
  /\ version' = version + 1

\* assertNotCancelled for every action but RESTORE; a missing row is a 404
Visible == status \notin {"CANCELLED", Deleted}

\* mutant: where { id }, without activeQuote's condition
ActiveQuoteById == status # Deleted

\* where: this.activeQuote(id)
ActiveQuote == status \notin {"CANCELLED", Deleted}

\* mutant: the check of the holder forgotten
AnybodyCanProcess(u, allowAnyOrder) == status = "PROCESSING"

(***************************************************************************)
(* dto.version, when the client sends it, must equal the column at this    *)
(* read; a request that fails the comparison changes nothing, so the steps *)
(* of the requests that pass it are those of requests without a version.   *)
(***************************************************************************)
PricingCanProcess(u, allowAnyOrder) ==
  /\ status = "PROCESSING"
  /\ u \in Orders => allowAnyOrder \/ assignee = u

\* randomUUID(): ids neither stored nor remembered by a handler in flight
FreshOptions ==
  { N \in SUBSET (OptionIds \ (options \cup {req[x].opt : x \in Requests}
                                       \cup UNION {req[x].snap : x \in Requests})) :
      N # {} /\ Cardinality(N) <= MaxOptions }

AtMostOne(S) == \A x, y \in S : x = y

\* mutant: the option named need only exist
SomeOption == options # {}

\* deleteOption: quote.options.length <= 1 is a conflict
SeveralOptions == ~ AtMostOne(options)

\* mutant: the check update() had before Sales were kept out of accepted quotes
EditableUnlessRejected == status # "REJECTED"

\* update(): a Sale edits the specification before acceptance or after a return
SaleCanEdit == status \in {"PENDING", "NEED_MORE_INFO"}

-----------------------------------------------------------------------------
(* The first half of each handler: role check, reads, early returns *)

\* mutant: assertRole forgotten
ReceiveAcceptAnyRole(r, u) ==
  /\ "ACCEPT" \in Actions /\ req[r].at = "idle" /\ u \in Users
  /\ Visible
  /\ Start(r, u, "accept", Null, NoOption)
  /\ UNCHANGED quoteVars

ReceiveAccept(r, u) ==
  /\ "ACCEPT" \in Actions /\ req[r].at = "idle" /\ u \in Pricers
  /\ Visible
  /\ Start(r, u, "accept", Null, NoOption)
  /\ UNCHANGED quoteVars

ReceiveQuote(r, u) ==
  /\ "QUOTE" \in Actions /\ req[r].at = "idle" /\ u \in Pricers
  /\ PricingCanProcess(u, TRUE)
  /\ Start(r, u, "completeQuote", Null, NoOption)
  /\ UNCHANGED quoteVars

ReceiveQuickQuote(r, u) ==
  /\ "QUICK_QUOTE" \in Actions /\ req[r].at = "idle" /\ u \in Pricers
  /\ PricingCanProcess(u, FALSE)
  /\ Start(r, u, "quickQuote", Null, NoOption)
  /\ UNCHANGED quoteVars

\* with dto.options the handler need not count the stored options
ReceiveQuickApprove(r, u) ==
  /\ "QUICK_APPROVE" \in Actions /\ req[r].at = "idle" /\ u \in Pricers
  /\ PricingCanProcess(u, TRUE)
  /\ \E write \in {"quickApprove", "quickApproveCount"} :
       Start(r, u, write, Null, NoOption)
  /\ UNCHANGED quoteVars

QuickApproveCount(r) ==
  /\ req[r].at = "quickApproveCount"
  /\ status # Deleted /\ options # {}
  /\ req' = [req EXCEPT ![r].at = "quickApproveAsIs"]
  /\ UNCHANGED quoteVars

ReceiveReject(r, u) ==
  /\ {"REJECT", "QUICK_REJECT"} \cap Actions # {}
  /\ req[r].at = "idle" /\ u \in Pricers
  /\ PricingCanProcess(u, FALSE)
  /\ Start(r, u, "rejectQuote", Null, NoOption)
  /\ UNCHANGED quoteVars

ReceiveReturn(r, u) ==
  /\ "RETURN" \in Actions /\ req[r].at = "idle" /\ u \in Pricers
  /\ PricingCanProcess(u, FALSE)
  /\ Start(r, u, "returnQuote", Null, NoOption)
  /\ UNCHANGED quoteVars

ReceiveResubmit(r, u) ==
  /\ "RESUBMIT" \in Actions /\ req[r].at = "idle" /\ u \in Sales \cup Admins
  /\ u \in Sales => u = Requester
  /\ status = "NEED_MORE_INFO"
  /\ Start(r, u, "resubmitQuote", Null, NoOption)
  /\ UNCHANGED quoteVars

ReceiveSelectOption(r, u) ==
  /\ "SELECT_OPTION" \in Actions /\ req[r].at = "idle" /\ u \in Sales \cup Admins
  /\ u \in Sales => u = Requester
  /\ Visible
  /\ \E o \in options : Start(r, u, "selectOption", Null, o)
  /\ UNCHANGED quoteVars

ReceiveEditPrice(r, u) ==
  /\ "EDIT_PRICE" \in Actions /\ req[r].at = "idle" /\ u \in Pricers
  /\ status = "QUOTED"
  /\ Start(r, u, "editQuotedPrice", Null, NoOption)
  /\ UNCHANGED quoteVars

ReceiveCancel(r, u) ==
  /\ "CANCEL" \in Actions /\ req[r].at = "idle" /\ u \in Admins
  /\ status \in CANCELLABLE_QUOTE_STATUSES
  /\ Start(r, u, "cancelQuote", status, NoOption)
  /\ UNCHANGED quoteVars

ReceiveRestore(r, u) ==
  /\ "RESTORE" \in Actions /\ req[r].at = "idle" /\ u \in Admins
  /\ status = "CANCELLED" /\ cancelledFrom # Null
  /\ Start(r, u, "restoreQuote", cancelledFrom, NoOption)
  /\ UNCHANGED quoteVars

ReceiveDeleteOption(r, u) ==
  /\ "deleteOption" \in Actions /\ req[r].at = "idle" /\ u \in Pricers
  /\ Visible
  /\ u \in Orders => assignee = u
  /\ SeveralOptions
  /\ \E o \in options : Start(r, u, "deleteOption", Null, o)
  /\ UNCHANGED quoteVars

ReceiveUpdate(r, u) ==
  /\ "update" \in Actions /\ req[r].at = "idle"
  /\ u = Requester \/ u \in Admins
  /\ Visible /\ status # "REJECTED"
  /\ u \in Sales => SaleCanEdit
  /\ Start(r, u, "update", Null, NoOption)
  /\ UNCHANGED quoteVars

ReceiveRemove(r, u) ==
  /\ "remove" \in Actions /\ req[r].at = "idle"
  /\ u = Requester \/ u \in Admins
  /\ Visible /\ status # "REJECTED"
  /\ Start(r, u, "remove", Null, NoOption)
  /\ UNCHANGED quoteVars

-----------------------------------------------------------------------------
(* The second half: the write *)

\* mutant: accept written like the pricing writes, with activeQuote
StillActive == ActiveQuote

\* updateMany where { id, status: PENDING }, count must be 1
StillPending == status = "PENDING"

Accept(r) ==
  /\ req[r].at = "accept"
  /\ StillPending
  /\ status' = "PROCESSING"
  /\ assignee' = req[r].user
  /\ IncrementVersion
  /\ Done(r)
  /\ UNCHANGED <<cancelledFrom, options, selected>>

(***************************************************************************)
(* The pricing transaction of QUOTE and EDIT_PRICE opens with              *)
(* quoteOption.deleteMany: at READ COMMITTED the statement removes the     *)
(* rows of its own snapshot and not the ones another transaction commits   *)
(* while it waits for a row lock.  A statement of another handler on a row *)
(* of that snapshot would wait for the lock; here it may run, and the      *)
(* outcome is the one it has when it comes first.                          *)
(***************************************************************************)
OpenReplace(r) ==
  /\ \/ /\ req[r].at = "completeQuote"
        /\ req' = [req EXCEPT ![r].at = "completeQuoteInsert", ![r].snap = options]
     \/ /\ req[r].at = "editQuotedPrice"
        /\ req' = [req EXCEPT ![r].at = "editQuotedPriceInsert", ![r].snap = options]
  /\ UNCHANGED quoteVars

\* completeQuote keeps at most one isSelected among the options it was sent
CompleteQuote(r) ==
  /\ req[r].at = "completeQuoteInsert"
  /\ ActiveQuote
  /\ status' = "QUOTED"
  /\ assignee' = req[r].user
  /\ IncrementVersion
  /\ \E new \in FreshOptions : \E sel \in SUBSET new :
       /\ AtMostOne(sel)
       /\ options' = (options \ req[r].snap) \cup new
       /\ selected' = (selected \ req[r].snap) \cup sel
  /\ Done(r)
  /\ UNCHANGED cancelledFrom

\* as CompleteQuote, but status and assignee stay and isSelected is taken as sent
EditQuotedPrice(r) ==
  /\ req[r].at = "editQuotedPriceInsert"
  /\ ActiveQuote
  /\ IncrementVersion
  /\ \E new \in FreshOptions : \E sel \in SUBSET new :
       /\ options' = (options \ req[r].snap) \cup new
       /\ selected' = (selected \ req[r].snap) \cup sel
  /\ Done(r)
  /\ UNCHANGED <<status, cancelledFrom, assignee>>

\* options: { deleteMany: {}, create: [...] }, or undefined
ReplaceOptions ==
  \E new \in FreshOptions : \E sel \in SUBSET new :
    /\ options' = new
    /\ selected' = sel

QuickQuote(r) ==
  /\ req[r].at = "quickQuote"
  /\ ActiveQuote
  /\ status' = "PROCESSING"
  /\ ReplaceOptions \/ UNCHANGED <<options, selected>>
  /\ Done(r)
  /\ UNCHANGED <<cancelledFrom, assignee, version>>

QuickApprove(r) ==
  /\ \/ req[r].at = "quickApprove" /\ ReplaceOptions
     \/ req[r].at = "quickApproveAsIs" /\ UNCHANGED <<options, selected>>
  /\ ActiveQuote
  /\ status' = "QUOTED"
  /\ assignee' = req[r].user
  /\ Done(r)
  /\ UNCHANGED <<cancelledFrom, version>>

RejectQuote(r) ==
  /\ req[r].at = "rejectQuote"
  /\ ActiveQuote
  /\ status' = "REJECTED"
  /\ assignee' = req[r].user
  /\ IncrementVersion
  /\ Done(r)
  /\ UNCHANGED <<cancelledFrom, options, selected>>

ReturnQuote(r) ==
  /\ req[r].at = "returnQuote"
  /\ ActiveQuote
  /\ status' = "NEED_MORE_INFO"
  /\ assignee' = req[r].user
  /\ IncrementVersion
  /\ Done(r)
  /\ UNCHANGED <<cancelledFrom, options, selected>>

\* mutant: the assignee is not reset
ResubmitQuoteToHolder(r) ==
  /\ req[r].at = "resubmitQuote"
  /\ ActiveQuote
  /\ status' = "PENDING"
  /\ IncrementVersion
  /\ Done(r)
  /\ UNCHANGED <<cancelledFrom, assignee, options, selected>>

ResubmitQuote(r) ==
  /\ req[r].at = "resubmitQuote"
  /\ ActiveQuote
  /\ status' = "PENDING"
  /\ assignee' = NoUser
  /\ IncrementVersion
  /\ Done(r)
  /\ UNCHANGED <<cancelledFrom, options, selected>>

SelectOption(r) ==
  /\ req[r].at = "selectOption"
  /\ req[r].opt \in options
  /\ selected' = {req[r].opt}
  /\ Done(r)
  /\ UNCHANGED <<status, cancelledFrom, assignee, version, options>>

DeleteOption(r) ==
  /\ req[r].at = "deleteOption"
  /\ req[r].opt \in options
  /\ options' = options \ {req[r].opt}
  /\ selected' = selected \ {req[r].opt}
  /\ Done(r)
  /\ UNCHANGED <<status, cancelledFrom, assignee, version>>

\* mutant: updateMany where { id, status: { not: CANCELLED } }
StillCancellable(r) == ActiveQuote

\* updateMany where { id, status }: the status read by the guard
StillAsSeen(r) == status = req[r].seen

CancelQuote(r) ==
  /\ req[r].at = "cancelQuote"
  /\ StillAsSeen(r)
  /\ status' = "CANCELLED"
  /\ cancelledFrom' = req[r].seen
  /\ IncrementVersion
  /\ Done(r)
  /\ UNCHANGED <<assignee, options, selected>>

\* updateMany where status = CANCELLED, data.status read by the guard
RestoreQuote(r) ==
  /\ req[r].at = "restoreQuote"
  /\ status = "CANCELLED"
  /\ status' = req[r].seen
  /\ cancelledFrom' = Null
  /\ IncrementVersion
  /\ Done(r)
  /\ UNCHANGED <<assignee, options, selected>>

\* quoteRequest.update where { id }: writes the specification columns only
Update(r) ==
  /\ req[r].at = "update"
  /\ status # Deleted
  /\ Done(r)
  /\ UNCHANGED quoteVars

\* quoteRequest.delete where { id }: the options go with the row, and the other
\* columns of a row that is gone are kept at fixed values
Remove(r) ==
  /\ req[r].at = "remove"
  /\ status # Deleted
  /\ status' = Deleted
  /\ cancelledFrom' = Null
  /\ assignee' = NoUser
  /\ version' = 1
  /\ options' = {}
  /\ selected' = {}
  /\ Done(r)

(***************************************************************************)
(* The handler ends without its write: the where clause matched no row     *)
(* (404 or 409), PostgreSQL broke a deadlock, the connection was lost or   *)
(* the process restarted.  An open transaction is rolled back.             *)
(***************************************************************************)
GiveUp(r) ==
  /\ req[r].at # "idle"
  /\ Done(r)
  /\ UNCHANGED quoteVars

-----------------------------------------------------------------------------
Receive(r, u) ==
  \/ ReceiveAccept(r, u)       \/ ReceiveQuote(r, u)
  \/ ReceiveQuickQuote(r, u)   \/ ReceiveQuickApprove(r, u)
  \/ ReceiveReject(r, u)       \/ ReceiveReturn(r, u)
  \/ ReceiveResubmit(r, u)     \/ ReceiveSelectOption(r, u)
  \/ ReceiveEditPrice(r, u)    \/ ReceiveCancel(r, u)
  \/ ReceiveRestore(r, u)      \/ ReceiveDeleteOption(r, u)
  \/ ReceiveUpdate(r, u)       \/ ReceiveRemove(r, u)

Proceed(r) ==
  \/ QuickApproveCount(r) \/ OpenReplace(r)

Write(r) ==
  \/ Accept(r)         \/ CompleteQuote(r)  \/ EditQuotedPrice(r)
  \/ QuickQuote(r)     \/ QuickApprove(r)   \/ RejectQuote(r)
  \/ ReturnQuote(r)    \/ ResubmitQuote(r)  \/ SelectOption(r)
  \/ DeleteOption(r)   \/ CancelQuote(r)    \/ RestoreQuote(r)
  \/ Update(r)         \/ Remove(r)

Next ==
  \E r \in Requests :
    \/ \E u \in Users : Receive(r, u)
    \/ Proceed(r)
    \/ Write(r)
    \/ GiveUp(r)

Spec == Init /\ [][Next]_vars

-----------------------------------------------------------------------------
(* What holds whatever the interleaving *)

\* A quote is CANCELLED exactly while it remembers the status it was cancelled
\* in: no pricing handler that passed its guard before the cancellation brings
\* the quote back to life with cancelledFromStatus left over (activeQuote).
CancelRecord == status = "CANCELLED" <=> cancelledFrom # Null

\* Nothing but RESTORE (or removal of the row) changes the status, the
\* assignee, the version or the recorded status of a cancelled quote, and its
\* options are never replaced: a pricing transaction that lost the race against
\* CANCEL is undone as a whole (guardCancelRace).
CancelledFrozenStep ==
  status = "CANCELLED" =>
    \/ status' = Deleted
    \/ \E r \in Requests : RestoreQuote(r)
    \/ /\ UNCHANGED <<status, cancelledFrom, assignee, version>>
       /\ options' \subseteq options
CancelledFrozen == [][CancelledFrozenStep]_quoteVars

\* While a quote stays PROCESSING the Order who accepted it is not replaced:
\* of two concurrent ACCEPTs one gets the conflict answer (accept's updateMany).
AcceptedOnceStep ==
  status = "PROCESSING" /\ status' = "PROCESSING" => assignee' = assignee
AcceptedOnce == [][AcceptedOnceStep]_quoteVars

\* CANCEL never swallows a decision taken while it was in flight: the status it
\* records is the status the quote had, and a REJECTED quote is not cancelled.
CancelExactStep ==
  status # "CANCELLED" /\ status' = "CANCELLED" =>
    status \in CANCELLABLE_QUOTE_STATUSES /\ cancelledFrom' = status
CancelExact == [][CancelExactStep]_quoteVars

(***************************************************************************)
(* What holds under every interleaving of the operations other than        *)
(* QUICK_QUOTE (writes PROCESSING and leaves the assignee alone) and       *)
(* RESTORE (writes the status its guard read).                             *)
(***************************************************************************)
HeldStatus(s) == s \in {"PROCESSING", "QUOTED", "REJECTED", "NEED_MORE_INFO"}

\* Somebody is assigned exactly while the quote is past acceptance: no quote is
\* PROCESSING with nobody to process it, none is PENDING and already taken.
\* A CANCELLED quote keeps the assignee of the status it will return to.
AssigneeRecorded ==
  LET s == IF status = "CANCELLED" THEN cancelledFrom ELSE status
  IN  assignee # NoUser <=> HeldStatus(s)

(***************************************************************************)
(* What holds when requests do not overlap                                 *)
(***************************************************************************)
Lifecycle == INSTANCE QuoteLifecycle WITH
  status <- status, cancelledFrom <- cancelledFrom, assignee <- assignee

\* One request at a time, the handlers of updateStatus and remove implement the
\* lifecycle they promise.
ImplementsLifecycle == Lifecycle!Spec

\* deleteOption always leaves at least one option, so the quote still has a
\* price to show.
OptionKept ==
  [][\A r \in Requests : DeleteOption(r) => options' # {}]_vars

\* A Sale never edits the specification behind the back of the Order who is
\* pricing it or has priced it (the status check of update()).
SpecKept ==
  [][\A r \in Requests : Update(r) /\ req[r].user \in Sales
       => status \in {"PENDING", "NEED_MORE_INFO"}]_vars

\* RESTORE puts the quote back into exactly the status it was cancelled in.
RestoreExact ==
  [][status = "CANCELLED" /\ status' \notin {"CANCELLED", Deleted}
       => status' = cancelledFrom]_quoteVars

(***************************************************************************)
(* What a handler in flight may rely on, whatever the others do meanwhile: *)
(* who writes as a pricer is one, and CANCEL and RESTORE carry a status    *)
(* that can be cancelled.  The proofs need it.                             *)
(***************************************************************************)
PricerWrites == { "accept", "completeQuote", "completeQuoteInsert", "quickApprove",
                  "quickApproveCount", "quickApproveAsIs", "rejectQuote",
                  "returnQuote" }

HandlerOK ==
  \A r \in Requests :
    /\ req[r].at \in PricerWrites => req[r].user \in Pricers
    /\ req[r].at \in {"cancelQuote", "restoreQuote"}
         => req[r].seen \in CANCELLABLE_QUOTE_STATUSES

(***************************************************************************)
(* What a handler in flight may rely on when nobody else writes: the check *)
(* it made still holds.                                                    *)
(***************************************************************************)
StillHolds(h) ==
  /\ h.at \in { "completeQuote", "completeQuoteInsert", "quickQuote", "quickApprove",
               "quickApproveCount", "quickApproveAsIs", "rejectQuote", "returnQuote" }
       => status = "PROCESSING"
  /\ h.at \in {"rejectQuote", "returnQuote"} => (h.user \in Orders => assignee = h.user)
  /\ h.at = "resubmitQuote" => status = "NEED_MORE_INFO"
  /\ h.at = "restoreQuote" => h.seen = cancelledFrom
  /\ h.at = "remove" => status \in CANCELLABLE_QUOTE_STATUSES

ChecksHold == \A r \in Requests : StillHolds(req[r])
=============================================================================
