-------------------------- MODULE OrderAssignment --------------------------
(***************************************************************************)
(* The last part of QuoteRequestsService.create(): which Order a new quote *)
(* is assigned to.  One transaction takes the advisory lock                *)
(* ASSIGN_ORDER_LOCK_KEY, reads the Orders and their loads, chooses        *)
(* (pickLeastLoadedOrder) and inserts the quote; the lock goes with the    *)
(* transaction.  When the random code collides (P2002) the transaction is  *)
(* rolled back and tried again, five times in all.                         *)
(*                                                                         *)
(* Staff may be deactivated and midnight (Vietnam time) may pass between   *)
(* any two statements.  Cancelling a quote, restoring one and adding an    *)
(* Order change the loads by themselves and are not in this module.        *)
(***************************************************************************)
EXTENDS Naturals, FiniteSets, SequencesExt

CONSTANTS
  Orders,     \* the users with role ORDER, numbered in the order of their ids
  Requests,   \* slots for create() requests in flight
  NoOrder,    \* assignedOrderId = null
  NoRequest,  \* nobody holds the advisory lock
  MaxQuotes,  \* bound: quotes created
  MaxDays     \* bound: midnights

ASSUME AssignmentAssumption ==
  /\ Orders \subseteq Nat
  /\ NoOrder \notin Orders
  /\ NoRequest \notin Requests
  /\ MaxQuotes \in Nat /\ MaxDays \in Nat

VARIABLES
  active,  \* the Orders with isActive and isApproved
  today,   \* their quotes created since startOfVietnamDay(now)
  last,    \* when they were last assigned a quote, 0 = never
  total,   \* the quotes they were ever assigned
  clock,   \* createdAt of the newest quote
  day,     \* midnights passed
  lock,    \* the request holding the advisory lock
  queue,   \* the requests waiting for it, first come first served
  req      \* the create() requests

loads == <<today, last, total, clock>>
vars == <<active, loads, day, lock, queue, req>>

Attempts == 5
Fresh(step, n) == [at |-> step, staff |-> {}, pick |-> NoOrder, attempt |-> n]
Idle == Fresh("idle", 0)

TypeOK ==
  /\ active \subseteq Orders
  /\ {today, last, total} \subseteq [Orders -> Nat]
  /\ clock \in Nat /\ day \in 0 .. MaxDays
  /\ lock \in Requests \cup {NoRequest}
  /\ queue \in Seq(Requests)
  /\ req \in [Requests -> [at : {"idle", "begin", "waiting", "locked", "counting", "insert"},
                           staff : SUBSET Orders, pick : Orders \cup {NoOrder},
                           attempt : 0 .. Attempts - 1]]

Init ==
  /\ active \in SUBSET Orders
  /\ today = [o \in Orders |-> 0] /\ last = today /\ total = today
  /\ clock = 0 /\ day = 0
  /\ lock = NoRequest /\ queue = <<>>
  /\ req = [r \in Requests |-> Idle]

-----------------------------------------------------------------------------
\* mutant: an equal load is decided by the id alone
BeforeById(a, b) == today[a] < today[b] \/ (today[a] = today[b] /\ a < b)

\* the comparator of pickLeastLoadedOrder
Before(a, b) ==
  \/ today[a] < today[b]
  \/ today[a] = today[b] /\ last[a] < last[b]
  \/ today[a] = today[b] /\ last[a] = last[b] /\ a < b

\* the first of the sorted candidates, null when there is none
PickLeastLoadedOrder(S) ==
  IF S = {} THEN {NoOrder} ELSE { o \in S : \A p \in S \ {o} : ~ Before(p, o) }

\* the uploads and lookups before the transaction are over
Create(r) ==
  /\ req[r].at = "idle"
  /\ clock + Cardinality({ x \in Requests : req[x].at # "idle" }) < MaxQuotes
  /\ req' = [req EXCEPT ![r].at = "begin"]
  /\ UNCHANGED <<active, loads, day, lock, queue>>

\* SELECT pg_advisory_xact_lock(...): joins the waiters
RequestLock(r) ==
  /\ req[r].at = "begin"
  /\ queue' = Append(queue, r)
  /\ req' = [req EXCEPT ![r].at = "waiting"]
  /\ UNCHANGED <<active, loads, day, lock>>

\* mutant: the counts are read without the lock
GrantAtOnce(r) == req[r].at = "waiting" /\ queue # <<>> /\ Head(queue) = r

\* PostgreSQL hands the lock to the waiter that came first
Granted(r) ==
  /\ req[r].at = "waiting" /\ queue # <<>> /\ Head(queue) = r
  /\ lock = NoRequest

GetLock(r) ==
  /\ Granted(r)
  /\ lock' = r
  /\ queue' = Tail(queue)
  /\ req' = [req EXCEPT ![r].at = "locked"]
  /\ UNCHANGED <<active, loads, day>>

\* user.findMany
FindOrders(r) ==
  /\ req[r].at = "locked"
  /\ req' = [req EXCEPT ![r].at = "counting", ![r].staff = active]
  /\ UNCHANGED <<active, loads, day, lock, queue>>

\* the two groupBy and pickLeastLoadedOrder
PickOrder(r) ==
  /\ req[r].at = "counting"
  /\ \E o \in PickLeastLoadedOrder(req[r].staff) :
       req' = [req EXCEPT ![r].at = "insert", ![r].pick = o]
  /\ UNCHANGED <<active, loads, day, lock, queue>>

Release(r) == lock' = IF lock = r THEN NoRequest ELSE lock

\* quoteRequest.create and COMMIT; createdAt is the time of the insert
Insert(r) ==
  LET o == req[r].pick
  IN  /\ req[r].at = "insert"
      /\ clock' = clock + 1
      /\ IF o = NoOrder THEN UNCHANGED <<today, last, total>>
         ELSE /\ today' = [today EXCEPT ![o] = today[o] + 1]
              /\ last'  = [last EXCEPT ![o] = clock + 1]
              /\ total' = [total EXCEPT ![o] = total[o] + 1]
      /\ Release(r)
      /\ req' = [req EXCEPT ![r] = Idle]
      /\ UNCHANGED <<active, day, queue>>

\* mutant: attempt <= 4 also on the last one
MayRetryOnceMore(r) == req[r].attempt <= Attempts - 1

\* mutant: the loop does not count its attempts
SameAttempt(r) == req[r].attempt

\* attempt < 4
MayRetry(r) == req[r].attempt < Attempts - 1
NextAttempt(r) == req[r].attempt + 1

\* P2002 on code: rolled back; tried again, or the error is thrown
CodeTaken(r) ==
  /\ req[r].at = "insert"
  /\ Release(r)
  /\ req' = [req EXCEPT ![r] = IF MayRetry(r)
                               THEN Fresh("begin", NextAttempt(r))
                               ELSE Idle]
  /\ UNCHANGED <<active, loads, day, queue>>

\* maxWait or timeout of the transaction, or a lost connection
Abort(r) ==
  /\ req[r].at # "idle"
  /\ Release(r)
  /\ IF req[r].at = "waiting"
     THEN \E i \in DOMAIN queue : queue[i] = r /\ queue' = RemoveAt(queue, i)
     ELSE UNCHANGED queue
  /\ req' = [req EXCEPT ![r] = Idle]
  /\ UNCHANGED <<active, loads, day>>

\* users.service: an Order is deactivated
Deactivate ==
  /\ \E o \in active : active' = active \ {o}
  /\ UNCHANGED <<loads, day, lock, queue, req>>

\* 00:00 in Vietnam: createdAt >= startOfVietnamDay(now) holds for no quote
Midnight ==
  /\ day < MaxDays
  /\ day' = day + 1
  /\ today' = [o \in Orders |-> 0]
  /\ UNCHANGED <<active, last, total, clock, lock, queue, req>>

Work(r) ==
  RequestLock(r) \/ GetLock(r) \/ FindOrders(r) \/ PickOrder(r) \/ Insert(r) \/ CodeTaken(r)

Next ==
  \/ \E r \in Requests : Create(r) \/ Work(r) \/ Abort(r)
  \/ Deactivate
  \/ Midnight

\* A handler's next statement is sent and answered, and the lock is handed on.
Fairness == \A r \in Requests : WF_vars(Work(r))

Spec == Init /\ [][Next]_vars /\ Fairness

-----------------------------------------------------------------------------
\* On any day the Orders who can take quotes were assigned the same number,
\* give or take one, however many create() requests run at the same time.
FairDay == \A a, b \in active : today[a] <= today[b] + 1

\* The rotation goes on over midnight: over all days too nobody is more than
\* one quote ahead.
RoundRobin == \A a, b \in active : total[a] <= total[b] + 1

\* Every create() ends, with a quote or with an error: the lock is always handed
\* on and a run of code collisions is finite.
EveryCreateEnds == \A r \in Requests : req[r].at = "begin" ~> req[r].at = "idle"
=============================================================================
