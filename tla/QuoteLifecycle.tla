--------------------------- MODULE QuoteLifecycle ---------------------------
(***************************************************************************)
(* What the workflow promises its users, without handlers or awaits: the   *)
(* status graph of a quote and who may move it.  An Order accepts a        *)
(* PENDING quote; any Order may price it; only the Order who holds it (or  *)
(* an ADMIN) rejects or returns it; REJECTED is final; an ADMIN cancels an *)
(* open quote and restores it to exactly the status it was cancelled in;   *)
(* history (REJECTED, CANCELLED) is never removed.                         *)
(***************************************************************************)
CONSTANTS Orders, Admins, NoUser

VARIABLES status, cancelledFrom, assignee

lifecycleVars == <<status, cancelledFrom, assignee>>

Open == {"PENDING", "PROCESSING", "NEED_MORE_INFO", "QUOTED"}

Init ==
  /\ status = "PENDING"
  /\ cancelledFrom = "null"
  /\ assignee = NoUser

Holds(u) == u \in Orders => assignee = u

Accept(u) ==
  /\ status = "PENDING" /\ status' = "PROCESSING"
  /\ assignee' = u
  /\ UNCHANGED cancelledFrom

Quote(u) ==
  /\ status = "PROCESSING" /\ status' = "QUOTED"
  /\ assignee' = u
  /\ UNCHANGED cancelledFrom

SendBack(u) ==
  /\ status = "PROCESSING" /\ Holds(u)
  /\ status' \in {"REJECTED", "NEED_MORE_INFO"}
  /\ assignee' = u
  /\ UNCHANGED cancelledFrom

Resubmit ==
  /\ status = "NEED_MORE_INFO" /\ status' = "PENDING"
  /\ assignee' = NoUser
  /\ UNCHANGED cancelledFrom

Cancel ==
  /\ status \in Open /\ status' = "CANCELLED"
  /\ cancelledFrom' = status
  /\ UNCHANGED assignee

Restore ==
  /\ status = "CANCELLED" /\ status' = cancelledFrom
  /\ cancelledFrom' = "null"
  /\ UNCHANGED assignee

Remove ==
  /\ status \in Open /\ status' = "DELETED"
  /\ assignee' = NoUser
  /\ UNCHANGED cancelledFrom

Next ==
  \/ \E u \in Orders \cup Admins : Accept(u) \/ Quote(u) \/ SendBack(u)
  \/ Resubmit \/ Cancel \/ Restore \/ Remove

Spec == Init /\ [][Next]_lifecycleVars
=============================================================================
