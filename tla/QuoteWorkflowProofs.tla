------------------------ MODULE QuoteWorkflowProofs ------------------------
(***************************************************************************)
(* Proofs about QuoteWorkflow for every set of users, request slots,       *)
(* option ids and every bound.                                             *)
(***************************************************************************)
EXTENDS QuoteWorkflow, TLAPS

\* The inductive invariant: the types, the cancel record, and what a handler
\* remembers from its reads.
IInv == TypeOK /\ CancelRecord /\ HandlerOK

\* The invariant holds of the quote create() leaves.
LEMMA InitIInv == Init => IInv
BY UsersAssumption, BoundsAssumption
   DEF Init, IInv, TypeOK, CancelRecord, HandlerOK, Idle, Handler, Null, Statuses,
       Deleted, PricerWrites, Users, Pricers

\* Receiving a request reads the quote and changes nothing but the slot.
LEMMA ReceiveIInv ==
  ASSUME IInv, NEW r \in Requests, NEW u \in Users, Receive(r, u)
  PROVE  IInv'
<1> USE DEF IInv, TypeOK, CancelRecord, HandlerOK, Handler, Null, Statuses,
            Deleted, PricerWrites, Users, Pricers, Writes, Start, quoteVars,
            CANCELLABLE_QUOTE_STATUSES
<1>1. CASE ReceiveAccept(r, u) BY <1>1 DEF ReceiveAccept
<1>2. CASE ReceiveQuote(r, u) BY <1>2 DEF ReceiveQuote
<1>3. CASE ReceiveQuickQuote(r, u) BY <1>3 DEF ReceiveQuickQuote
<1>4. CASE ReceiveQuickApprove(r, u) BY <1>4 DEF ReceiveQuickApprove
<1>5. CASE ReceiveReject(r, u) BY <1>5 DEF ReceiveReject
<1>6. CASE ReceiveReturn(r, u) BY <1>6 DEF ReceiveReturn
<1>7. CASE ReceiveResubmit(r, u) BY <1>7 DEF ReceiveResubmit
<1>8. CASE ReceiveSelectOption(r, u) BY <1>8 DEF ReceiveSelectOption
<1>9. CASE ReceiveEditPrice(r, u) BY <1>9 DEF ReceiveEditPrice
<1>10. CASE ReceiveCancel(r, u) BY <1>10 DEF ReceiveCancel
<1>11. CASE ReceiveRestore(r, u) BY <1>11 DEF ReceiveRestore
<1>12. CASE ReceiveDeleteOption(r, u) BY <1>12 DEF ReceiveDeleteOption
<1>13. CASE ReceiveUpdate(r, u) BY <1>13 DEF ReceiveUpdate
<1>14. CASE ReceiveRemove(r, u) BY <1>14 DEF ReceiveRemove
<1> QED
  BY <1>1, <1>2, <1>3, <1>4, <1>5, <1>6, <1>7, <1>8, <1>9, <1>10, <1>11, <1>12,
     <1>13, <1>14 DEF Receive

\* Counting the options and opening the pricing transaction only move the
\* handler on.
LEMMA ProceedIInv ==
  ASSUME IInv, NEW r \in Requests, Proceed(r)
  PROVE  IInv'
<1> USE DEF IInv, TypeOK, CancelRecord, HandlerOK, Handler, PricerWrites, Writes,
            quoteVars
<1>1. CASE QuickApproveCount(r) BY <1>1 DEF QuickApproveCount
<1>2. CASE OpenReplace(r) BY <1>2 DEF OpenReplace
<1> QED BY <1>1, <1>2 DEF Proceed

\* A handler that ends leaves an idle slot behind.
LEMMA GiveUpIInv ==
  ASSUME IInv, NEW r \in Requests, GiveUp(r)
  PROVE  IInv'
BY DEF IInv, TypeOK, CancelRecord, HandlerOK, Handler, PricerWrites, GiveUp, Done,
       Idle, quoteVars

\* The version column stays within its bound.
LEMMA IncrementVersionType ==
  ASSUME version \in 1 .. MaxVersion, IncrementVersion
  PROVE  version' \in 1 .. MaxVersion
BY BoundsAssumption DEF IncrementVersion

\* The write of every handler preserves the invariant: the writes guarded by
\* activeQuote never touch a CANCELLED quote, CANCEL records a status it may
\* cancel, RESTORE clears the record.
LEMMA WriteIInv ==
  ASSUME IInv, NEW r \in Requests, Write(r)
  PROVE  IInv'
<1> USE IncrementVersionType
    DEF IInv, TypeOK, CancelRecord, HandlerOK, Handler, Null, Statuses, Deleted,
        PricerWrites, Done, Idle, CANCELLABLE_QUOTE_STATUSES
<1>1. CASE Accept(r) BY <1>1 DEF Accept, StillPending
<1>2. CASE CompleteQuote(r) BY <1>2 DEF CompleteQuote, ActiveQuote, FreshOptions
<1>3. CASE EditQuotedPrice(r) BY <1>3 DEF EditQuotedPrice, ActiveQuote, FreshOptions
<1>4. CASE QuickQuote(r)
  BY <1>4 DEF QuickQuote, ActiveQuote, ReplaceOptions, FreshOptions
<1>5. CASE QuickApprove(r)
  BY <1>5 DEF QuickApprove, ActiveQuote, ReplaceOptions, FreshOptions
<1>6. CASE RejectQuote(r) BY <1>6 DEF RejectQuote, ActiveQuote
<1>7. CASE ReturnQuote(r) BY <1>7 DEF ReturnQuote, ActiveQuote
<1>8. CASE ResubmitQuote(r) BY <1>8 DEF ResubmitQuote, ActiveQuote
<1>9. CASE SelectOption(r) BY <1>9 DEF SelectOption
<1>10. CASE DeleteOption(r) BY <1>10 DEF DeleteOption
<1>11. CASE CancelQuote(r) BY <1>11 DEF CancelQuote, StillAsSeen
<1>12. CASE RestoreQuote(r) BY <1>12 DEF RestoreQuote
<1>13. CASE Update(r) BY <1>13 DEF Update, quoteVars
<1>14. CASE Remove(r) BY <1>14, BoundsAssumption DEF Remove
<1> QED
  BY <1>1, <1>2, <1>3, <1>4, <1>5, <1>6, <1>7, <1>8, <1>9, <1>10, <1>11, <1>12,
     <1>13, <1>14 DEF Write

LEMMA NextIInv == IInv /\ [Next]_vars => IInv'
<1> SUFFICES ASSUME IInv, [Next]_vars PROVE IInv' OBVIOUS
<1>1. CASE Next
  <2> PICK r \in Requests : \/ \E u \in Users : Receive(r, u)
                            \/ Proceed(r) \/ Write(r) \/ GiveUp(r)
    BY <1>1 DEF Next
  <2> QED BY ReceiveIInv, ProceedIInv, WriteIInv, GiveUpIInv
<1>2. CASE UNCHANGED vars
  BY <1>2 DEF IInv, TypeOK, CancelRecord, HandlerOK, vars, quoteVars
<1> QED BY <1>1, <1>2

\* Types: in particular selected stays within options and the assignee is never
\* a SALE.
THEOREM TypeCorrect == Spec => []TypeOK
<1>1. IInv => TypeOK BY DEF IInv
<1> QED BY InitIInv, NextIInv, <1>1, PTL DEF Spec

\* cancelledFromStatus is set exactly while the quote is CANCELLED, under every
\* interleaving of every number of handlers.
THEOREM CancelRecordCorrect == Spec => []CancelRecord
<1>1. IInv => CancelRecord BY DEF IInv
<1> QED BY InitIInv, NextIInv, <1>1, PTL DEF Spec

-----------------------------------------------------------------------------
(* Action properties: only the writes change the quote, so each needs one    *)
(* case per write.                                                           *)

\* A step that changes the quote is the write of some handler.
LEMMA OnlyWritesChange ==
  ASSUME [Next]_vars
  PROVE  (\E r \in Requests : Write(r)) \/ UNCHANGED quoteVars
<1>1. ASSUME NEW r \in Requests, NEW u \in Users, Receive(r, u)
      PROVE  UNCHANGED quoteVars
  BY <1>1 DEF Receive, ReceiveAccept, ReceiveQuote, ReceiveQuickQuote,
     ReceiveQuickApprove, ReceiveReject, ReceiveReturn, ReceiveResubmit,
     ReceiveSelectOption, ReceiveEditPrice, ReceiveCancel, ReceiveRestore,
     ReceiveDeleteOption, ReceiveUpdate, ReceiveRemove
<1>2. ASSUME NEW r \in Requests, Proceed(r) \/ GiveUp(r)
      PROVE  UNCHANGED quoteVars
  BY <1>2 DEF Proceed, QuickApproveCount, OpenReplace, GiveUp
<1>3. CASE UNCHANGED vars BY <1>3 DEF vars
<1> QED BY <1>1, <1>2, <1>3 DEF Next

LEMMA WriteFrozen ==
  ASSUME IInv, NEW r \in Requests, Write(r)
  PROVE  CancelledFrozenStep
<1> SUFFICES ASSUME status = "CANCELLED", status' # Deleted, ~ RestoreQuote(r)
             PROVE  /\ UNCHANGED <<status, cancelledFrom, assignee, version>>
                    /\ options' \subseteq options
  BY DEF CancelledFrozenStep
<1>1. SelectOption(r) \/ DeleteOption(r) \/ Update(r)
  BY DEF Write, Accept, StillPending, CompleteQuote, EditQuotedPrice, QuickQuote, QuickApprove,
     RejectQuote, ReturnQuote, ResubmitQuote, CancelQuote, StillAsSeen, Remove, ActiveQuote,
     IInv, HandlerOK, CANCELLABLE_QUOTE_STATUSES
<1> QED BY <1>1 DEF SelectOption, DeleteOption, Update, quoteVars

LEMMA WriteAcceptedOnce ==
  ASSUME NEW r \in Requests, Write(r)
  PROVE  AcceptedOnceStep
<1> SUFFICES ASSUME status = "PROCESSING", status' = "PROCESSING"
             PROVE  assignee' = assignee
  BY DEF AcceptedOnceStep
<1>1. \/ EditQuotedPrice(r) \/ QuickQuote(r) \/ SelectOption(r)
      \/ DeleteOption(r) \/ Update(r)
  BY DEF Write, Accept, StillPending, CompleteQuote, QuickApprove, RejectQuote, ReturnQuote,
     ResubmitQuote, CancelQuote, RestoreQuote, Remove, Deleted
<1> QED
  BY <1>1 DEF EditQuotedPrice, QuickQuote, SelectOption, DeleteOption, Update, quoteVars

LEMMA WriteCancelExact ==
  ASSUME IInv, NEW r \in Requests, Write(r)
  PROVE  CancelExactStep
<1> SUFFICES ASSUME status # "CANCELLED", status' = "CANCELLED"
             PROVE  /\ status \in CANCELLABLE_QUOTE_STATUSES
                    /\ cancelledFrom' = status
  BY DEF CancelExactStep
<1>1. CancelQuote(r)
  BY DEF Write, Accept, StillPending, CompleteQuote, EditQuotedPrice, QuickQuote, QuickApprove,
     RejectQuote, ReturnQuote, ResubmitQuote, SelectOption, DeleteOption,
     RestoreQuote, Update, Remove, Deleted, quoteVars
<1> QED BY <1>1 DEF CancelQuote, StillAsSeen, IInv, HandlerOK

\* A cancelled quote is frozen until it is restored or removed, however many
\* pricing handlers passed their checks before the cancellation.
THEOREM CancelledFrozenCorrect == Spec => CancelledFrozen
<1>1. IInv /\ [Next]_vars => [CancelledFrozenStep]_quoteVars
  BY OnlyWritesChange, WriteFrozen
<1> QED BY InitIInv, NextIInv, <1>1, PTL DEF Spec, CancelledFrozen

\* The Order who accepted a quote holds it for as long as it is PROCESSING.
THEOREM AcceptedOnceCorrect == Spec => AcceptedOnce
<1>1. [Next]_vars => [AcceptedOnceStep]_quoteVars
  BY OnlyWritesChange, WriteAcceptedOnce
<1> QED BY <1>1, PTL DEF Spec, AcceptedOnce

\* CANCEL records exactly the status it replaces.
THEOREM CancelExactCorrect == Spec => CancelExact
<1>1. IInv /\ [Next]_vars => [CancelExactStep]_quoteVars
  BY OnlyWritesChange, WriteCancelExact
<1> QED BY InitIInv, NextIInv, <1>1, PTL DEF Spec, CancelExact

-----------------------------------------------------------------------------
(* Who holds the quote, when neither QUICK_QUOTE nor RESTORE is used.        *)

Unused == {"QUICK_QUOTE", "RESTORE"}

AssigneeInv ==
  /\ IInv
  /\ AssigneeRecorded
  /\ \A r \in Requests : req[r].at \notin {"quickQuote", "restoreQuote"}

LEMMA AssigneeInit == Init => AssigneeInv
BY InitIInv DEF Init, AssigneeInv, AssigneeRecorded, HeldStatus, Idle

\* Each write sets the assignee exactly when it moves the quote past acceptance.
LEMMA AssigneeWrite ==
  ASSUME AssigneeInv, NEW r \in Requests, Write(r)
  PROVE  AssigneeRecorded'
<1> USE DEF AssigneeInv, AssigneeRecorded, HeldStatus, IInv, TypeOK, CancelRecord,
            HandlerOK, PricerWrites, Null, Users, Pricers
<1>1. CASE Accept(r) BY <1>1, UsersAssumption DEF Accept, StillPending
<1>2. CASE CompleteQuote(r) BY <1>2, UsersAssumption DEF CompleteQuote
<1>3. CASE EditQuotedPrice(r) BY <1>3 DEF EditQuotedPrice
<1>4. CASE QuickQuote(r) BY <1>4 DEF QuickQuote
<1>5. CASE QuickApprove(r) BY <1>5, UsersAssumption DEF QuickApprove
<1>6. CASE RejectQuote(r) BY <1>6, UsersAssumption DEF RejectQuote
<1>7. CASE ReturnQuote(r) BY <1>7, UsersAssumption DEF ReturnQuote
<1>8. CASE ResubmitQuote(r) BY <1>8 DEF ResubmitQuote
<1>9. CASE SelectOption(r) BY <1>9 DEF SelectOption
<1>10. CASE DeleteOption(r) BY <1>10 DEF DeleteOption
<1>11. CASE CancelQuote(r)
  BY <1>11 DEF CancelQuote, StillAsSeen, CANCELLABLE_QUOTE_STATUSES
<1>12. CASE RestoreQuote(r) BY <1>12 DEF RestoreQuote
<1>13. CASE Update(r) BY <1>13 DEF Update, quoteVars
<1>14. CASE Remove(r) BY <1>14 DEF Remove, Deleted
<1> QED
  BY <1>1, <1>2, <1>3, <1>4, <1>5, <1>6, <1>7, <1>8, <1>9, <1>10, <1>11, <1>12,
     <1>13, <1>14 DEF Write

\* No handler of an unused action is ever in flight.
LEMMA UnusedNext ==
  ASSUME Unused \cap Actions = {}, AssigneeInv, [Next]_vars, NEW x \in Requests
  PROVE  req'[x].at \notin {"quickQuote", "restoreQuote"}
<1> USE DEF AssigneeInv, IInv, TypeOK, Unused
<1>1. ASSUME NEW r \in Requests, NEW u \in Users, Receive(r, u)
      PROVE  req'[x].at \notin {"quickQuote", "restoreQuote"}
  <2> DEFINE Used == { "accept", "completeQuote", "quickApprove", "quickApproveCount",
                       "rejectQuote", "returnQuote", "resubmitQuote", "selectOption",
                       "editQuotedPrice", "cancelQuote", "deleteOption", "update", "remove" }
  <2>1. \E write \in Used, seen \in Statuses \cup {Null}, opt \in OptionIds \cup {NoOption} :
          Start(r, u, write, seen, opt)
    <3>1. ~ ReceiveQuickQuote(r, u) /\ ~ ReceiveRestore(r, u)
      BY DEF ReceiveQuickQuote, ReceiveRestore
    <3>2. CASE ReceiveAccept(r, u) \/ ReceiveQuote(r, u) \/ ReceiveQuickApprove(r, u)
               \/ ReceiveReject(r, u) \/ ReceiveReturn(r, u) \/ ReceiveResubmit(r, u)
               \/ ReceiveEditPrice(r, u) \/ ReceiveUpdate(r, u) \/ ReceiveRemove(r, u)
      <4>1. \E write \in Used : Start(r, u, write, Null, NoOption)
        BY <3>2 DEF ReceiveAccept, ReceiveQuote, ReceiveQuickApprove, ReceiveReject,
           ReceiveReturn, ReceiveResubmit, ReceiveEditPrice, ReceiveUpdate, ReceiveRemove
      <4> QED BY <4>1
    <3>3. CASE ReceiveSelectOption(r, u) \/ ReceiveDeleteOption(r, u)
      <4>1. \E write \in Used, o \in OptionIds : Start(r, u, write, Null, o)
        BY <3>3 DEF ReceiveSelectOption, ReceiveDeleteOption
      <4> QED BY <4>1
    <3>4. CASE ReceiveCancel(r, u)
      BY <3>4 DEF ReceiveCancel, Statuses, CANCELLABLE_QUOTE_STATUSES
    <3> QED BY <1>1, <3>1, <3>2, <3>3, <3>4 DEF Receive
  <2> QED BY <2>1 DEF Start
<1>2. ASSUME NEW r \in Requests, Proceed(r) \/ GiveUp(r)
      PROVE  req'[x].at \notin {"quickQuote", "restoreQuote"}
  <2>1. CASE QuickApproveCount(r) BY <2>1 DEF QuickApproveCount, Handler
  <2>2. CASE OpenReplace(r) BY <2>2 DEF OpenReplace, Handler
  <2>3. CASE GiveUp(r) BY <2>3 DEF GiveUp, Done, Idle
  <2> QED BY <1>2, <2>1, <2>2, <2>3 DEF Proceed
<1>3. ASSUME NEW r \in Requests, Write(r)
      PROVE  req'[x].at \notin {"quickQuote", "restoreQuote"}
  <2>1. Done(r)
    BY <1>3 DEF Write, Accept, StillPending, CompleteQuote, EditQuotedPrice, QuickQuote,
       QuickApprove, RejectQuote, ReturnQuote, ResubmitQuote, SelectOption,
       DeleteOption, CancelQuote, RestoreQuote, Update, Remove
  <2> QED BY <2>1 DEF Done, Idle
<1>4. CASE UNCHANGED vars BY <1>4 DEF vars
<1> QED BY <1>1, <1>2, <1>3, <1>4 DEF Next

\* Without QUICK_QUOTE and RESTORE, whatever else interleaves, a quote is
\* assigned to somebody exactly when it is past acceptance.
THEOREM AssigneeRecordedCorrect ==
  ASSUME Unused \cap Actions = {}
  PROVE  Spec => []AssigneeRecorded
<1>1. AssigneeInv /\ [Next]_vars => AssigneeInv'
  <2> SUFFICES ASSUME AssigneeInv, [Next]_vars PROVE AssigneeInv' OBVIOUS
  <2>1. IInv' BY NextIInv DEF AssigneeInv
  <2>2. AssigneeRecorded'
    <3>1. CASE UNCHANGED quoteVars
      BY <3>1 DEF quoteVars, AssigneeInv, AssigneeRecorded
    <3> QED BY <3>1, OnlyWritesChange, AssigneeWrite
  <2>3. \A x \in Requests : req'[x].at \notin {"quickQuote", "restoreQuote"}
    BY UnusedNext
  <2> QED BY <2>1, <2>2, <2>3 DEF AssigneeInv
<1>2. AssigneeInv => AssigneeRecorded BY DEF AssigneeInv
<1> QED BY AssigneeInit, <1>1, <1>2, PTL DEF Spec
=============================================================================
