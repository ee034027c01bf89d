----------------------- MODULE OrderAssignmentProofs -----------------------
(***************************************************************************)
(* The balance of OrderAssignment for any number of Orders, requests,      *)
(* quotes and days.  The argument: whoever was assigned fewer quotes today *)
(* was also assigned one longer ago, so the choice is always the Order     *)
(* whose last quote is the oldest, and the rotation is never broken.       *)
(***************************************************************************)
EXTENDS OrderAssignment, SequenceTheorems, TLAPS

InLock == {"locked", "counting", "insert"}

Types ==
  /\ active \subseteq Orders
  /\ today \in [Orders -> Nat] /\ last \in [Orders -> Nat] /\ total \in [Orders -> Nat]
  /\ clock \in Nat
  /\ req \in [Requests -> [at : {"idle", "begin", "waiting", "locked", "counting", "insert"},
                           staff : SUBSET Orders, pick : Orders \cup {NoOrder},
                           attempt : Nat]]

\* Only the holder of the advisory lock counts and inserts.
LockHeld == \A r \in Requests : req[r].at \in InLock => lock = r

\* Loads and last assignments order the Orders the same way.
Balance ==
  /\ \A o \in Orders : last[o] <= clock
  /\ \A a, b \in active : /\ today[a] <= today[b] + 1
                          /\ total[a] <= total[b] + 1
                          /\ today[a] < today[b] => last[a] < last[b]
                          /\ total[a] < total[b] => last[a] < last[b]

\* What the holder has read is still true of the Orders who can take quotes; an
\* Order deactivated in the meantime may get the quote and no longer matters.
PickOK ==
  \A r \in Requests :
    /\ req[r].at = "counting" => active \subseteq req[r].staff
    /\ req[r].at = "insert" /\ req[r].pick \in active =>
         \A x \in active : /\ today[req[r].pick] <= today[x]
                           /\ last[req[r].pick] <= last[x]

BInv == Types /\ LockHeld /\ Balance /\ PickOK

LEMMA InitBInv == Init => BInv
BY AssignmentAssumption
   DEF Init, BInv, Types, LockHeld, Balance, PickOK, Idle, Fresh, InLock, Attempts

\* A step that leaves the loads and the lock alone, or gives the lock back.
LEMMA ReleaseBInv ==
  ASSUME BInv, NEW r \in Requests, Release(r), UNCHANGED <<active, loads>>,
         NEW new \in [at : {"idle", "begin"}, staff : SUBSET Orders,
                      pick : Orders \cup {NoOrder}, attempt : Nat],
         req' = [req EXCEPT ![r] = new]
  PROVE  BInv'
<1>1. Types' BY DEF BInv, Types, loads
<1>2. LockHeld' BY DEF BInv, Types, LockHeld, Release, InLock
<1>3. Balance' BY DEF BInv, Balance, loads
<1>4. PickOK' BY DEF BInv, Types, PickOK, loads
<1> QED BY <1>1, <1>2, <1>3, <1>4 DEF BInv

LEMMA GetLockBInv ==
  ASSUME BInv, NEW r \in Requests, GetLock(r)
  PROVE  BInv'
<1>1. /\ lock = NoRequest /\ lock' = r /\ UNCHANGED <<active, loads>>
      /\ req' = [req EXCEPT ![r].at = "locked"]
  BY DEF GetLock, Granted
<1>2. Types' BY <1>1 DEF BInv, Types, loads
<1>3. LockHeld'
  <2>1. ASSUME NEW x \in Requests PROVE req[x].at \notin InLock
    BY <1>1, AssignmentAssumption DEF BInv, LockHeld
  <2>2. ASSUME NEW x \in Requests, x # r PROVE req'[x] = req[x]
    BY <1>1, <2>2 DEF BInv, Types
  <2> QED BY <1>1, <2>1, <2>2 DEF LockHeld
<1>4. Balance' BY <1>1 DEF BInv, Balance, loads
<1>5. PickOK'
  <2>1. req'[r].at = "locked" BY <1>1 DEF BInv, Types
  <2>2. ASSUME NEW x \in Requests, x # r PROVE req'[x] = req[x]
    BY <1>1, <2>2 DEF BInv, Types
  <2> QED BY <1>1, <2>1, <2>2 DEF BInv, PickOK, loads
<1> QED BY <1>2, <1>3, <1>4, <1>5 DEF BInv

LEMMA FindOrdersBInv ==
  ASSUME BInv, NEW r \in Requests, FindOrders(r)
  PROVE  BInv'
<1> USE DEF FindOrders
<1>1. Types' BY DEF BInv, Types, loads
<1>2. LockHeld' BY DEF BInv, Types, LockHeld, InLock
<1>3. Balance' BY DEF BInv, Balance, loads
<1>4. PickOK' BY DEF BInv, Types, PickOK, loads
<1> QED BY <1>1, <1>2, <1>3, <1>4 DEF BInv

\* The least loaded Order is also the one whose last quote is the oldest.
LEMMA PickOrderBInv ==
  ASSUME BInv, NEW r \in Requests, PickOrder(r)
  PROVE  BInv'
<1> DEFINE S == req[r].staff
<1>1. PICK o \in PickLeastLoadedOrder(S) :
        req' = [req EXCEPT ![r].at = "insert", ![r].pick = o]
  BY DEF PickOrder
<1>2. o \in Orders \cup {NoOrder} /\ S \subseteq Orders
  BY DEF BInv, Types, PickLeastLoadedOrder
<1>3. ASSUME o \in active, NEW x \in active
      PROVE  today[o] <= today[x] /\ last[o] <= last[x]
  <2>1. x \in S BY DEF PickOrder, BInv, PickOK
  <2>2. o \in S /\ \A p \in S \ {o} : ~ Before(p, o)
    BY <2>1 DEF PickLeastLoadedOrder
  <2>3. o \in Orders /\ x \in Orders BY <1>3 DEF BInv, Types
  <2>4. x = o \/ ~ Before(x, o) BY <2>1, <2>2
  <2>5. today[o] <= today[x] BY <2>3, <2>4 DEF Before, BInv, Types
  <2>6. last[o] <= last[x]
    BY <1>3, <2>3, <2>4, <2>5 DEF Before, BInv, Types, Balance
  <2> QED BY <2>5, <2>6
<1>4. UNCHANGED <<active, loads, day, lock, queue>> /\ req[r].at = "counting"
  BY DEF PickOrder
<1>5. Types' BY <1>1, <1>2, <1>4 DEF BInv, Types, loads
<1>6. LockHeld' BY <1>1, <1>4 DEF BInv, Types, LockHeld, InLock
<1>7. Balance' BY <1>4 DEF BInv, Balance, loads
<1>8. PickOK'
  <2>1. req'[r].at = "insert" /\ req'[r].pick = o BY <1>1 DEF BInv, Types
  <2>2. \A x \in Requests \ {r} : req'[x] = req[x] BY <1>1 DEF BInv, Types
  <2> QED BY <1>3, <1>4, <2>1, <2>2 DEF BInv, PickOK, loads
<1> QED BY <1>5, <1>6, <1>7, <1>8 DEF BInv

\* The Order chosen has neither more quotes than another today nor more in all,
\* so one more keeps everybody within one.
LEMMA InsertBInv ==
  ASSUME BInv, NEW r \in Requests, Insert(r)
  PROVE  BInv'
<1> DEFINE o == req[r].pick
<1>1. /\ req[r].at = "insert" /\ clock' = clock + 1
      /\ Release(r) /\ req' = [req EXCEPT ![r] = Idle] /\ active' = active
  BY DEF Insert
<1>2. Types'
  BY AssignmentAssumption, <1>1 DEF Insert, BInv, Types, Idle, Fresh
<1>3. LockHeld' BY <1>1 DEF BInv, Types, LockHeld, Release, Idle, Fresh, InLock
<1>4. PickOK'
  <2>1. lock = r BY <1>1 DEF BInv, LockHeld, InLock
  <2>2. ASSUME NEW x \in Requests PROVE req'[x].at \notin {"counting", "insert"}
    BY <1>1, <2>1 DEF BInv, Types, LockHeld, InLock, Idle, Fresh
  <2> QED BY <2>2 DEF PickOK
<1>5. Balance'
  <2>1. CASE o = NoOrder
    BY <1>1, <2>1 DEF Insert, BInv, Types, Balance
  <2>2. CASE o # NoOrder
    <3>1. /\ today' = [today EXCEPT ![o] = today[o] + 1]
          /\ last'  = [last EXCEPT ![o] = clock + 1]
          /\ total' = [total EXCEPT ![o] = total[o] + 1]
      BY <2>2 DEF Insert
    <3>2. o \in Orders BY <2>2 DEF BInv, Types
    <3>3. \A x \in Orders : last'[x] <= clock'
      BY <1>1, <3>1, <3>2 DEF BInv, Types, Balance
    <3>4. CASE o \notin active
      BY <1>1, <3>1, <3>3, <3>4 DEF BInv, Types, Balance
    <3>5. CASE o \in active
      <4>1. \A x \in active : /\ x \in Orders
                              /\ today[o] <= today[x] /\ last[o] <= last[x]
                              /\ total[o] <= total[x]
        BY <1>1, <3>5 DEF BInv, Types, Balance, PickOK
      <4>2. ASSUME NEW a \in active, NEW b \in active
            PROVE  /\ today'[a] <= today'[b] + 1
                   /\ total'[a] <= total'[b] + 1
                   /\ today'[a] < today'[b] => last'[a] < last'[b]
                   /\ total'[a] < total'[b] => last'[a] < last'[b]
        <5>1. CASE a = o /\ b = o BY <3>1, <3>2, <5>1 DEF BInv, Types
        <5>2. CASE a = o /\ b # o
          BY <3>1, <3>2, <4>1, <5>2 DEF BInv, Types, Balance
        <5>3. CASE a # o /\ b = o
          BY <3>1, <3>2, <3>5, <4>1, <5>3 DEF BInv, Types, Balance
        <5>4. CASE a # o /\ b # o
          BY <3>1, <3>2, <5>4 DEF BInv, Types, Balance
        <5> QED BY <5>1, <5>2, <5>3, <5>4
      <4> QED BY <1>1, <3>3, <4>2 DEF Balance
    <3> QED BY <3>4, <3>5
  <2> QED BY <2>1, <2>2
<1> QED BY <1>2, <1>3, <1>4, <1>5 DEF BInv

\* Waiting for the lock, losing the transaction, staff and midnight.
LEMMA OtherBInv ==
  ASSUME BInv, NEW r \in Requests,
         Create(r) \/ RequestLock(r) \/ CodeTaken(r) \/ Abort(r)
  PROVE  BInv'
<1> USE DEF BInv, Types
<1>1. CASE Create(r)
  BY <1>1 DEF Create, LockHeld, Balance, PickOK, InLock, loads
<1>2. CASE RequestLock(r)
  <2>1. /\ req[r].at = "begin" /\ req' = [req EXCEPT ![r].at = "waiting"]
        /\ UNCHANGED <<active, loads, lock>>
    BY <1>2 DEF RequestLock
  <2>2. Types' BY <2>1 DEF loads
  <2>3. LockHeld' BY <2>1 DEF LockHeld, InLock
  <2>4. Balance' BY <2>1 DEF Balance, loads
  <2>5. PickOK' BY <2>1 DEF PickOK, loads
  <2> QED BY <2>2, <2>3, <2>4, <2>5
<1>3. CASE CodeTaken(r)
  <2>1. Release(r) /\ UNCHANGED <<active, loads>> BY <1>3 DEF CodeTaken
  <2>2. CASE MayRetry(r)
    <3>1. req' = [req EXCEPT ![r] = Fresh("begin", NextAttempt(r))]
      BY <1>3, <2>2 DEF CodeTaken
    <3>2. NextAttempt(r) \in Nat BY DEF NextAttempt
    <3> QED BY <2>1, <3>1, <3>2, ReleaseBInv DEF Fresh
  <2>3. CASE ~ MayRetry(r)
    BY <1>3, <2>1, <2>3, ReleaseBInv DEF CodeTaken, Idle, Fresh
  <2> QED BY <2>2, <2>3
<1>4. CASE Abort(r)
  BY <1>4, ReleaseBInv DEF Abort, Idle, Fresh
<1> QED BY <1>1, <1>2, <1>3, <1>4

LEMMA DeactivateBInv == ASSUME BInv, Deactivate PROVE BInv'
BY DEF Deactivate, BInv, Types, LockHeld, Balance, PickOK, InLock, loads

LEMMA MidnightBInv == ASSUME BInv, Midnight PROVE BInv'
BY DEF Midnight, BInv, Types, LockHeld, Balance, PickOK, InLock

LEMMA NextBInv == BInv /\ [Next]_vars => BInv'
<1> SUFFICES ASSUME BInv, [Next]_vars PROVE BInv' OBVIOUS
<1>1. CASE UNCHANGED vars
  BY <1>1 DEF vars, loads, BInv, Types, LockHeld, Balance, PickOK, InLock
<1> QED
  BY <1>1, GetLockBInv, FindOrdersBInv, PickOrderBInv, InsertBInv, OtherBInv,
     DeactivateBInv, MidnightBInv DEF Next, Work

\* However many quotes are created at the same time, on any day the active
\* Orders were assigned the same number of quotes, give or take one.
THEOREM FairDayCorrect == Spec => []FairDay
<1>1. BInv => FairDay BY DEF BInv, Balance, FairDay
<1> QED BY InitBInv, NextBInv, <1>1, PTL DEF Spec

\* The rotation never starts over at midnight: over any number of days nobody
\* is more than one quote ahead.
THEOREM RoundRobinCorrect == Spec => []RoundRobin
<1>1. BInv => RoundRobin BY DEF BInv, Balance, RoundRobin
<1> QED BY InitBInv, NextBInv, <1>1, PTL DEF Spec

\* A waiter leaves the queue and the others stay in it.
LEMMA RemoveAtType ==
  ASSUME NEW S, NEW s \in Seq(S), NEW i \in DOMAIN s
  PROVE  RemoveAt(s, i) \in Seq(S)
<1>1. i \in 1 .. Len(s) /\ Len(s) \in Nat
  BY LenProperties
<1>2. SubSeq(s, 1, i - 1) \in Seq(S)
  BY <1>1, SubSeqProperties
<1>3. SubSeq(s, i + 1, Len(s)) \in Seq(S)
  BY <1>1, SubSeqProperties
<1> QED BY <1>2, <1>3, ConcatProperties DEF RemoveAt

\* The lock, its queue, the midnights and the count of attempts: what the
\* balance does not depend on.
Waiters ==
  /\ day \in 0 .. MaxDays
  /\ lock \in Requests \cup {NoRequest}
  /\ queue \in Seq(Requests)
  /\ \A r \in Requests : req[r].attempt \in 0 .. Attempts - 1

LEMMA NextWaiters ==
  ASSUME BInv, Waiters, [Next]_vars
  PROVE  Waiters'
<1> USE DEF Waiters
<1>0. req \in [Requests -> [at : {"idle", "begin", "waiting", "locked", "counting", "insert"},
                           staff : SUBSET Orders, pick : Orders \cup {NoOrder},
                           attempt : Nat]]
  BY DEF BInv, Types
<1>a. ASSUME NEW r \in Requests, NEW new, new.attempt \in 0 .. Attempts - 1,
             req' = [req EXCEPT ![r] = new]
      PROVE  \A x \in Requests : req'[x].attempt \in 0 .. Attempts - 1
  BY <1>a, <1>0
<1>i. Idle.attempt \in 0 .. Attempts - 1
  BY DEF Idle, Fresh, Attempts
<1>1. ASSUME NEW r \in Requests,
             Create(r) \/ RequestLock(r) \/ GetLock(r) \/ FindOrders(r) \/ PickOrder(r)
      PROVE  Waiters'
  <2>1. \A x \in Requests : req'[x].attempt = req[x].attempt
    <3>1. CASE Create(r) \/ RequestLock(r) \/ GetLock(r)
      <4>1. PICK at : req' = [req EXCEPT ![r].at = at]
        BY <3>1 DEF Create, RequestLock, GetLock
      <4> QED BY <4>1, <1>0
    <3>2. CASE FindOrders(r)
      <4>1. req' = [req EXCEPT ![r].at = "counting", ![r].staff = active]
        BY <3>2 DEF FindOrders
      <4> QED BY <4>1, <1>0
    <3>3. CASE PickOrder(r)
      <4>1. PICK o : req' = [req EXCEPT ![r].at = "insert", ![r].pick = o]
        BY <3>3 DEF PickOrder
      <4> QED BY <4>1, <1>0
    <3> QED BY <1>1, <3>1, <3>2, <3>3
  <2>2. day' = day
    BY <1>1 DEF Create, RequestLock, GetLock, FindOrders, PickOrder
  <2>3. lock' \in Requests \cup {NoRequest}
    BY <1>1 DEF Create, RequestLock, GetLock, FindOrders, PickOrder
  <2>4. queue' \in Seq(Requests)
    <3>1. CASE RequestLock(r)
      BY <3>1, AppendProperties DEF RequestLock
    <3>2. CASE GetLock(r)
      BY <3>2, HeadTailProperties DEF GetLock, Granted
    <3>3. CASE Create(r) \/ FindOrders(r) \/ PickOrder(r)
      BY <3>3 DEF Create, FindOrders, PickOrder
    <3> QED BY <1>1, <3>1, <3>2, <3>3
  <2> QED BY <2>1, <2>2, <2>3, <2>4
<1>2. ASSUME NEW r \in Requests, Insert(r)
      PROVE  Waiters'
  <2>1. /\ req' = [req EXCEPT ![r] = Idle]
        /\ day' = day /\ queue' = queue /\ lock' \in {lock, NoRequest}
    BY <1>2 DEF Insert, Release
  <2> QED BY <2>1, <1>a, <1>i
<1>3. ASSUME NEW r \in Requests, CodeTaken(r)
      PROVE  Waiters'
  <2>1. day' = day /\ queue' = queue /\ lock' \in {lock, NoRequest}
    BY <1>3 DEF CodeTaken, Release
  <2>2. \A x \in Requests : req'[x].attempt \in 0 .. Attempts - 1
    <3>1. CASE MayRetry(r)
      <4> DEFINE new == Fresh("begin", NextAttempt(r))
      <4>1. req' = [req EXCEPT ![r] = new]
        BY <1>3, <3>1 DEF CodeTaken
      <4>2. new.attempt \in 0 .. Attempts - 1
        BY <3>1 DEF MayRetry, NextAttempt, Fresh, Attempts
      <4> HIDE DEF new
      <4> QED BY <4>1, <4>2, <1>a
    <3>2. CASE ~ MayRetry(r)
      <4>1. req' = [req EXCEPT ![r] = Idle]
        BY <1>3, <3>2 DEF CodeTaken
      <4> QED BY <4>1, <1>a, <1>i
    <3> QED BY <3>1, <3>2
  <2> QED BY <2>1, <2>2
<1>4. ASSUME NEW r \in Requests, Abort(r)
      PROVE  Waiters'
  <2>1. /\ req' = [req EXCEPT ![r] = Idle]
        /\ day' = day /\ lock' \in {lock, NoRequest}
    BY <1>4 DEF Abort, Release, loads
  <2>2. queue' \in Seq(Requests)
    BY <1>4, RemoveAtType DEF Abort
  <2> QED BY <2>1, <2>2, <1>a, <1>i
<1>5. CASE Deactivate
  BY <1>5 DEF Deactivate
<1>6. CASE Midnight
  BY <1>6, AssignmentAssumption DEF Midnight
<1>7. CASE UNCHANGED vars
  BY <1>7 DEF vars
<1> QED BY <1>1, <1>2, <1>3, <1>4, <1>5, <1>6, <1>7 DEF Next, Work

\* Every variable keeps its type; in particular create() tries a taken code at
\* most five times.
THEOREM TypeCorrect == Spec => []TypeOK
<1>1. Init => Waiters
  BY EmptySeq, AssignmentAssumption DEF Init, Waiters, Idle, Fresh, Attempts
<1>2. BInv /\ Waiters => TypeOK
  BY DEF BInv, Types, Waiters, TypeOK
<1>3. BInv /\ Waiters /\ [Next]_vars => Waiters'
  BY NextWaiters
<1> QED BY InitBInv, NextBInv, <1>1, <1>2, <1>3, PTL DEF Spec
=============================================================================
