------------------------ MODULE QuoteLifecycleProofs ------------------------
(***************************************************************************)
(* One request at a time, QuoteWorkflow implements QuoteLifecycle.  The    *)
(* inductive invariant adds ChecksHold: what a handler read to decide      *)
(* still holds when it writes.  That conjunct is exactly what a second     *)
(* handler in flight breaks.                                               *)
(***************************************************************************)
EXTENDS QuoteWorkflowProofs

OneHandler == \A r, s \in Requests : r = s

SerialInv == IInv /\ ChecksHold

LEMMA SerialInit == Init => SerialInv
BY InitIInv DEF Init, SerialInv, ChecksHold, StillHolds, Idle

\* A handler starts with checks that hold.
LEMMA ReceiveChecks ==
  ASSUME SerialInv, NEW r \in Requests, NEW u \in Users, Receive(r, u), OneHandler
  PROVE  StillHolds(req[r])'
<1> USE DEF SerialInv, IInv, TypeOK, StillHolds, Start, quoteVars, OneHandler,
            Visible, PricingCanProcess, CANCELLABLE_QUOTE_STATUSES, Statuses
<1>1. CASE ReceiveAccept(r, u) BY <1>1 DEF ReceiveAccept
<1>2. CASE ReceiveQuote(r, u) BY <1>2 DEF ReceiveQuote
<1>3. CASE ReceiveQuickQuote(r, u) BY <1>3 DEF ReceiveQuickQuote
<1>4. CASE ReceiveQuickApprove(r, u) BY <1>4 DEF ReceiveQuickApprove
<1>5. CASE ReceiveReject(r, u) BY <1>5 DEF ReceiveReject
<1>6. CASE ReceiveReturn(r, u) BY <1>6 DEF ReceiveReturn
<1>7. CASE ReceiveResubmit(r, u) BY <1>7 DEF ReceiveResubmit
<1>8. CASE ReceiveSelectOption(r, u) BY <1>8 DEF ReceiveSelectOption
<1>9. CASE ReceiveEditPrice(r, u) BY <1>9 DEF ReceiveEditPrice
<1>10. CASE ReceiveCancel(r, u) BY <1>10 DEF ReceiveCancel
<1>11. CASE ReceiveRestore(r, u) BY <1>11 DEF ReceiveRestore
<1>12. CASE ReceiveDeleteOption(r, u) BY <1>12 DEF ReceiveDeleteOption
<1>13. CASE ReceiveUpdate(r, u) BY <1>13 DEF ReceiveUpdate
<1>14. CASE ReceiveRemove(r, u) BY <1>14 DEF ReceiveRemove
<1> QED
  BY <1>1, <1>2, <1>3, <1>4, <1>5, <1>6, <1>7, <1>8, <1>9, <1>10, <1>11, <1>12,
     <1>13, <1>14 DEF Receive

\* With one slot no other handler moves the quote between a check and its write.
LEMMA SerialNext ==
  ASSUME OneHandler, SerialInv, [Next]_vars
  PROVE  SerialInv'
<1>1. IInv' BY NextIInv DEF SerialInv
<1>2. ASSUME NEW r \in Requests, StillHolds(req[r])' PROVE ChecksHold'
  BY <1>2 DEF OneHandler, ChecksHold
<1>3. ASSUME NEW r \in Requests, Done(r) PROVE StillHolds(req[r])'
  BY <1>3 DEF Done, StillHolds, Idle, SerialInv, IInv, TypeOK
<1>4. ASSUME NEW r \in Requests, Proceed(r) PROVE StillHolds(req[r])'
  <2> USE DEF SerialInv, ChecksHold, StillHolds, IInv, TypeOK, Handler, quoteVars
  <2>1. CASE QuickApproveCount(r) BY <2>1 DEF QuickApproveCount
  <2>2. CASE OpenReplace(r) BY <2>2 DEF OpenReplace
  <2> QED BY <1>4, <2>1, <2>2 DEF Proceed
<1>5. ASSUME NEW r \in Requests, Write(r) \/ GiveUp(r) PROVE Done(r)
  BY <1>5 DEF Write, Accept, CompleteQuote, EditQuotedPrice, QuickQuote,
     QuickApprove, RejectQuote, ReturnQuote, ResubmitQuote, SelectOption,
     DeleteOption, CancelQuote, RestoreQuote, Update, Remove, GiveUp
<1>6. CASE UNCHANGED vars
  BY <1>1, <1>6 DEF vars, quoteVars, SerialInv, ChecksHold, StillHolds
<1>7. CASE Next
  <2> PICK r \in Requests : \/ \E u \in Users : Receive(r, u)
                            \/ Proceed(r) \/ Write(r) \/ GiveUp(r)
    BY <1>7 DEF Next
  <2>1. StillHolds(req[r])' BY ReceiveChecks, <1>3, <1>4, <1>5
  <2> QED BY <1>1, <1>2, <2>1 DEF SerialInv
<1> QED BY <1>6, <1>7

\* Every write is the step of the lifecycle it is named for, or changes nothing
\* the lifecycle speaks of.
LEMMA WriteRefines ==
  ASSUME SerialInv, NEW r \in Requests, Write(r)
  PROVE  [Lifecycle!Next]_(Lifecycle!lifecycleVars)
<1> DEFINE h == req[r]
<1> USE DEF SerialInv, IInv, TypeOK, HandlerOK, PricerWrites, Pricers,
            ChecksHold, StillHolds, Lifecycle!Next, Lifecycle!lifecycleVars
<1>1. CASE Accept(r)
  <2>1. Lifecycle!Accept(h.user) BY <1>1 DEF Accept, StillPending, Lifecycle!Accept
  <2> QED BY <1>1, <2>1 DEF Accept
<1>2. CASE CompleteQuote(r) \/ QuickApprove(r)
  <2>1. Lifecycle!Quote(h.user)
    BY <1>2 DEF CompleteQuote, QuickApprove, Lifecycle!Quote
  <2> QED BY <1>2, <2>1 DEF CompleteQuote, QuickApprove
<1>3. CASE RejectQuote(r) \/ ReturnQuote(r)
  <2>1. Lifecycle!SendBack(h.user)
    BY <1>3 DEF RejectQuote, ReturnQuote, Lifecycle!SendBack, Lifecycle!Holds
  <2> QED BY <1>3, <2>1 DEF RejectQuote, ReturnQuote
<1>4. CASE QuickQuote(r) BY <1>4 DEF QuickQuote
<1>5. CASE EditQuotedPrice(r) BY <1>5 DEF EditQuotedPrice
<1>6. CASE SelectOption(r) \/ DeleteOption(r) \/ Update(r)
  BY <1>6 DEF SelectOption, DeleteOption, Update, quoteVars
<1>7. CASE ResubmitQuote(r) BY <1>7 DEF ResubmitQuote, Lifecycle!Resubmit
<1>8. CASE CancelQuote(r)
  BY <1>8 DEF CancelQuote, StillAsSeen, Lifecycle!Cancel, Lifecycle!Open, CANCELLABLE_QUOTE_STATUSES
<1>9. CASE RestoreQuote(r)
  BY <1>9 DEF RestoreQuote, Lifecycle!Restore, Null
<1>10. CASE Remove(r)
  BY <1>10 DEF Remove, Lifecycle!Remove, Lifecycle!Open, CANCELLABLE_QUOTE_STATUSES,
     Null, Deleted, CancelRecord
<1> QED
  BY <1>1, <1>2, <1>3, <1>4, <1>5, <1>6, <1>7, <1>8, <1>9, <1>10 DEF Write

\* One request at a time, the handlers implement the promised lifecycle: who may
\* accept, price, reject and return, REJECTED is final, RESTORE is exact, history
\* is never removed.
THEOREM SerialImplementsLifecycle ==
  ASSUME OneHandler
  PROVE  Spec => ImplementsLifecycle
<1>1. Init => Lifecycle!Init BY DEF Init, Lifecycle!Init, Null
<1>2. SerialInv /\ [Next]_vars => [Lifecycle!Next]_(Lifecycle!lifecycleVars)
  <2> SUFFICES ASSUME SerialInv, [Next]_vars
               PROVE  [Lifecycle!Next]_(Lifecycle!lifecycleVars)
    OBVIOUS
  <2>1. CASE UNCHANGED quoteVars BY <2>1 DEF quoteVars, Lifecycle!lifecycleVars
  <2> QED BY <2>1, OnlyWritesChange, WriteRefines
<1>3. SerialInv /\ [Next]_vars => SerialInv' BY SerialNext
<1> QED BY SerialInit, <1>1, <1>2, <1>3, PTL DEF Spec, ImplementsLifecycle, Lifecycle!Spec
=============================================================================
