-------------------------- MODULE UserCacheProofs --------------------------
(***************************************************************************)
(* Proofs about UserCache, for any users, roles, requests and bounds.      *)
(* The argument: a lookup is owned by one request and is the only one of   *)
(* its user; what it found was true at some moment since it began; so an   *)
(* entry is at most one lookup older than its time stamp.                  *)
(***************************************************************************)
EXTENDS UserCache, FiniteSetTheorems, TLAPS

Looking(r) == req[r].at \in {"query", "found"}

\* the owner of a lookup is known by its user, and not for too long
Owners ==
  \A r \in Requests : Looking(r) =>
    /\ req[r].user \in Users /\ inFlight[req[r].user] = r
    /\ req[r].since <= now /\ now <= req[r].since + MaxLookup

Owned ==
  \A u \in Users : inFlight[u] # Nobody => Looking(inFlight[u]) /\ req[inFlight[u]].user = u

Shares ==
  \A r \in Requests : req[r].at = "shared" =>
    req[r].user \in Users /\ inFlight[req[r].user] # Nobody

\* what a query returned has been true since the lookup began
Found ==
  \A r \in Requests : req[r].at = "found" =>
    req[r].seen \in Verdicts /\ req[r].since <= held[req[r].user][req[r].seen]

EntryOK ==
  \A u \in Users : userCache[u] # NoEntry =>
    /\ userCache[u] \in Entries /\ userCache[u].at <= now
    /\ userCache[u].at <= held[u][userCache[u].role] + MaxLookup

History ==
  \A u \in Users :
    /\ held[u][Verdict(account[u])] = now
    /\ \A v \in Verdicts : held[u][v] <= now

Answered ==
  answer.verdict \in Verdicts =>
    /\ answer.user \in Users
    /\ answer.verdict \in Roles => now <= held[answer.user][answer.verdict] + (TTL + MaxLookup)
    /\ answer.verdict = Denied => now <= held[answer.user][Denied] + MaxLookup

IInv ==
  /\ TypeOK /\ Owners /\ Owned /\ Shares /\ Found /\ EntryOK /\ History /\ Answered

-----------------------------------------------------------------------------
\* The verdict of a row is one of the verdicts.
LEMMA VerdictType == \A a \in Accounts : Verdict(a) \in Verdicts
BY DEF Accounts, Verdict, Verdicts

\* What the history becomes in a step: it never goes back, never exceeds the clock,
\* and knows what every account says now.
LEMMA HeldStep ==
  ASSUME IInv, Witness, account' \in [Users -> Accounts], now' \in Nat, now <= now'
  PROVE  /\ held' \in [Users -> [Verdicts -> Nat]]
         /\ History'
         /\ \A u \in Users, v \in Verdicts : held[u][v] <= held'[u][v]
<1>1. \A u \in Users : Verdict(account'[u]) \in Verdicts
  BY VerdictType
<1>2. \A u \in Users : held'[u] = [held[u] EXCEPT ![Verdict(account'[u])] = now']
  BY DEF Witness
<1>3. held \in [Users -> [Verdicts -> Nat]] /\ now \in Nat
  BY CacheAssumption DEF IInv, TypeOK
<1>4. \A u \in Users, v \in Verdicts :
        held'[u][v] = IF v = Verdict(account'[u]) THEN now' ELSE held[u][v]
  BY <1>2, <1>3
<1>5. \A u \in Users, v \in Verdicts : held[u][v] <= now
  BY DEF IInv, History
<1>6. held' \in [Users -> [Verdicts -> Nat]]
  BY <1>3, <1>2, <1>1 DEF Witness
<1>7. \A u \in Users, v \in Verdicts : held[u][v] <= held'[u][v] /\ held'[u][v] <= now'
  BY <1>3, <1>4, <1>5
<1>8. \A u \in Users : held'[u][Verdict(account'[u])] = now'
  BY <1>1, <1>4
<1> QED BY <1>6, <1>7, <1>8 DEF History, Verdict

\* The first state.
LEMMA InitInv == ASSUME Init PROVE IInv
<1>1. \A u \in Users : Verdict(account[u]) \in Verdicts
  BY VerdictType DEF Init
<1>2. held \in [Users -> [Verdicts -> Nat]]
  BY DEF Init, Never
<1>3. TypeOK
  <2>1. now \in 1 .. MaxTime + 1 /\ account \in [Users -> Accounts]
    BY CacheAssumption DEF Init
  <2>2. userCache \in [Users -> Entries \cup {NoEntry}]
    BY DEF Init
  <2>3. /\ inFlight \in [Users -> Requests \cup {Nobody}]
        /\ answer \in [user : Users \cup {Nobody}, verdict : Verdicts \cup {Nobody}]
    BY DEF Init, NoAnswer
  <2>4. req \in [Requests -> [at : {"idle", "query", "found", "shared"}, user : Users \cup {Nobody},
                              seen : Verdicts \cup {Nobody}, since : Nat]]
    BY DEF Init, Idle
  <2> QED BY <1>2, <2>1, <2>2, <2>3, <2>4 DEF TypeOK
<1>4. \A r \in Requests : req[r].at = "idle"
  BY DEF Init, Idle
<1>5. Owners /\ Owned /\ Shares /\ Found /\ EntryOK
  BY <1>4 DEF Init, Owners, Owned, Shares, Found, EntryOK, Looking
<1>6. History
  BY <1>1, CacheAssumption DEF Init, History, Never
<1>7. Answered
  BY CacheAssumption DEF Init, NoAnswer, Answered, Verdicts
<1> QED BY <1>3, <1>5, <1>6, <1>7 DEF IInv

-----------------------------------------------------------------------------
Reqs == [Requests -> [at : {"idle", "query", "found", "shared"}, user : Users \cup {Nobody},
                      seen : Verdicts \cup {Nobody}, since : Nat]]

\* Facts every step that lets no time pass and changes no account can use.
LEMMA QuietHistory ==
  ASSUME IInv, Witness, now' = now, account' \in [Users -> Accounts]
  PROVE  /\ held' \in [Users -> [Verdicts -> Nat]] /\ History'
         /\ \A x \in Users, v \in Verdicts :
              held[x][v] \in Nat /\ held'[x][v] \in Nat /\ held[x][v] <= held'[x][v]
         /\ now \in Nat /\ MaxLookup \in Nat /\ req \in Reqs
<1>1. now \in Nat /\ MaxLookup \in Nat /\ req \in Reqs /\ held \in [Users -> [Verdicts -> Nat]]
  BY CacheAssumption DEF IInv, TypeOK, Reqs
<1>2. /\ held' \in [Users -> [Verdicts -> Nat]] /\ History'
      /\ \A x \in Users, v \in Verdicts : held[x][v] <= held'[x][v]
  BY <1>1, HeldStep
<1> QED BY <1>1, <1>2

\* The entries keep their bound as long as the Map is left alone.
LEMMA EntriesKept ==
  ASSUME IInv, userCache' = userCache, now \in Nat, now' \in Nat, now <= now',
         held' \in [Users -> [Verdicts -> Nat]],
         \A x \in Users, v \in Verdicts : held[x][v] <= held'[x][v]
  PROVE  EntryOK'
<1>1. held \in [Users -> [Verdicts -> Nat]] /\ MaxLookup \in Nat
  BY CacheAssumption DEF IInv, TypeOK
<1> SUFFICES ASSUME NEW u \in Users, userCache[u] # NoEntry
             PROVE  /\ userCache[u] \in Entries /\ userCache[u].at <= now'
                    /\ userCache[u].at <= held'[u][userCache[u].role] + MaxLookup
  BY DEF EntryOK
<1>2. /\ userCache[u] \in Entries /\ userCache[u].at <= now
      /\ userCache[u].at <= held[u][userCache[u].role] + MaxLookup
  BY DEF IInv, EntryOK
<1>3. userCache[u].role \in Verdicts /\ userCache[u].at \in Nat
  BY <1>2 DEF Entries, Verdicts
<1>4. /\ held[u][userCache[u].role] \in Nat /\ held'[u][userCache[u].role] \in Nat
      /\ held[u][userCache[u].role] <= held'[u][userCache[u].role]
  BY <1>1, <1>3
<1> QED BY <1>1, <1>2, <1>3, <1>4

\* What the lookups found keeps being true of the past, for those that go on.
LEMMA FoundKept ==
  ASSUME IInv, req \in Reqs,
         \A x \in Users, v \in Verdicts :
           held[x][v] \in Nat /\ held'[x][v] \in Nat /\ held[x][v] <= held'[x][v],
         \A x \in Requests : req'[x].at = "found" => req'[x] = req[x]
  PROVE  Found'
<1> SUFFICES ASSUME NEW x \in Requests, req'[x].at = "found"
             PROVE  req'[x].seen \in Verdicts /\ req'[x].since <= held'[req'[x].user][req'[x].seen]
  BY DEF Found
<1>1. req'[x] = req[x] /\ req[x].at = "found"
  OBVIOUS
<1>2. /\ req[x].seen \in Verdicts /\ req[x].user \in Users /\ req[x].since \in Nat
      /\ req[x].since <= held[req[x].user][req[x].seen]
  BY <1>1 DEF IInv, Found, Owners, Looking, Reqs
<1> QED BY <1>1, <1>2

\* A request that answers from the cache.
LEMMA CachedStep ==
  ASSUME IInv, NEW r \in Requests, NEW u \in Users, ValidateCached(r, u), Witness
  PROVE  IInv'
<1>1. /\ userCache[u] \in Entries /\ userCache[u].at <= now /\ now - userCache[u].at < TTL
      /\ userCache[u].at <= held[u][userCache[u].role] + MaxLookup
  BY DEF ValidateCached, Fresh, IInv, EntryOK
<1>2. /\ account' = account /\ now' = now /\ userCache' = userCache /\ inFlight' = inFlight
      /\ req' = req /\ answer' = [user |-> u, verdict |-> userCache[u].role]
  BY DEF ValidateCached, Say
<1>3. account' \in [Users -> Accounts]
  BY <1>2 DEF IInv, TypeOK
<1>4. /\ held' \in [Users -> [Verdicts -> Nat]] /\ History'
      /\ \A x \in Users, v \in Verdicts :
           held[x][v] \in Nat /\ held'[x][v] \in Nat /\ held[x][v] <= held'[x][v]
      /\ now \in Nat /\ MaxLookup \in Nat /\ req \in Reqs
  BY <1>2, <1>3, QuietHistory
<1>5. userCache[u].role \in Roles /\ userCache[u].role \in Verdicts /\ userCache[u].at \in Nat
  BY <1>1 DEF Entries, Verdicts
<1>6. TypeOK'
  BY <1>2, <1>4, <1>5 DEF IInv, TypeOK
<1>7. Owners' /\ Owned' /\ Shares'
  BY <1>2 DEF IInv, Owners, Owned, Shares, Looking
<1>8. Found'
  BY <1>2, <1>4, FoundKept
<1>9. EntryOK'
  BY <1>2, <1>4, EntriesKept
<1>10. Answered'
  <2>1. now <= held'[u][userCache[u].role] + (TTL + MaxLookup)
    BY <1>1, <1>4, <1>5, CacheAssumption
  <2> QED BY <1>2, <1>5, <2>1, CacheAssumption DEF Answered
<1> QED BY <1>4, <1>6, <1>7, <1>8, <1>9, <1>10 DEF IInv

\* A request that waits for the lookup of another.
LEMMA SharedStep ==
  ASSUME IInv, NEW r \in Requests, NEW u \in Users, ValidateShared(r, u), Witness
  PROVE  IInv'
<1>1. /\ account' = account /\ now' = now /\ userCache' = userCache /\ inFlight' = inFlight
      /\ req' = [req EXCEPT ![r] = [at |-> "shared", user |-> u, seen |-> Nobody, since |-> now]]
      /\ answer' = NoAnswer /\ req[r].at = "idle" /\ inFlight[u] # Nobody
  BY DEF ValidateShared, InFlight
<1>2. account' \in [Users -> Accounts]
  BY <1>1 DEF IInv, TypeOK
<1>3. /\ held' \in [Users -> [Verdicts -> Nat]] /\ History'
      /\ \A x \in Users, v \in Verdicts :
           held[x][v] \in Nat /\ held'[x][v] \in Nat /\ held[x][v] <= held'[x][v]
      /\ now \in Nat /\ MaxLookup \in Nat /\ req \in Reqs
  BY <1>1, <1>2, QuietHistory
<1>4. req' \in Reqs /\ answer' \in [user : Users \cup {Nobody}, verdict : Verdicts \cup {Nobody}]
  BY <1>1, <1>3 DEF Reqs, NoAnswer
<1>5. TypeOK'
  BY <1>1, <1>3, <1>4 DEF IInv, TypeOK, Reqs
<1>6. \A x \in Requests : req'[x] = IF x = r
        THEN [at |-> "shared", user |-> u, seen |-> Nobody, since |-> now] ELSE req[x]
  BY <1>1, <1>3 DEF Reqs
<1>7. Owners'
  BY <1>1, <1>6 DEF IInv, Owners, Looking
<1>8. Owned'
  BY <1>1, <1>6 DEF IInv, TypeOK, Owned, Looking
<1>9. Shares'
  BY <1>1, <1>6 DEF IInv, Shares
<1>10. Found'
  BY <1>3, <1>6, FoundKept
<1>11. EntryOK'
  BY <1>1, <1>3, EntriesKept
<1>12. Answered'
  BY <1>1, CacheAssumption DEF Answered, NoAnswer, Verdicts
<1> QED BY <1>3, <1>5, <1>7, <1>8, <1>9, <1>10, <1>11, <1>12 DEF IInv

\* A request that starts a lookup.
LEMMA LookupStep ==
  ASSUME IInv, NEW r \in Requests, NEW u \in Users, ValidateLookup(r, u), Witness
  PROVE  IInv'
<1>1. /\ account' = account /\ now' = now /\ userCache' = userCache
      /\ inFlight' = [inFlight EXCEPT ![u] = r] /\ inFlight[u] = Nobody
      /\ req' = [req EXCEPT ![r] = [at |-> "query", user |-> u, seen |-> Nobody, since |-> now]]
      /\ answer' = NoAnswer /\ req[r].at = "idle"
  BY DEF ValidateLookup, InFlight
<1>2. account' \in [Users -> Accounts] /\ inFlight \in [Users -> Requests \cup {Nobody}]
  BY <1>1 DEF IInv, TypeOK
<1>3. /\ held' \in [Users -> [Verdicts -> Nat]] /\ History'
      /\ \A x \in Users, v \in Verdicts :
           held[x][v] \in Nat /\ held'[x][v] \in Nat /\ held[x][v] <= held'[x][v]
      /\ now \in Nat /\ MaxLookup \in Nat /\ req \in Reqs
  BY <1>1, <1>2, QuietHistory
<1>4. req' \in Reqs /\ answer' \in [user : Users \cup {Nobody}, verdict : Verdicts \cup {Nobody}]
  BY <1>1, <1>3 DEF Reqs, NoAnswer
<1>5. TypeOK'
  BY <1>1, <1>2, <1>3, <1>4 DEF IInv, TypeOK, Reqs
<1>6. \A x \in Requests : req'[x] = IF x = r
        THEN [at |-> "query", user |-> u, seen |-> Nobody, since |-> now] ELSE req[x]
  BY <1>1, <1>3 DEF Reqs
<1>7. \A x \in Users : inFlight'[x] = IF x = u THEN r ELSE inFlight[x]
  BY <1>1, <1>2
<1>8. \A x \in Requests : x # Nobody
  BY CacheAssumption
<1>9. Owners'
  <2> SUFFICES ASSUME NEW x \in Requests, req'[x].at \in {"query", "found"}
               PROVE  /\ req'[x].user \in Users /\ inFlight'[req'[x].user] = x
                      /\ req'[x].since <= now /\ now <= req'[x].since + MaxLookup
    BY <1>1 DEF Owners, Looking
  <2>1. CASE x = r
    BY <1>3, <1>6, <1>7, <2>1
  <2>2. CASE x # r
    <3>1. /\ req'[x] = req[x] /\ req[x].user \in Users /\ inFlight[req[x].user] = x
          /\ req[x].since <= now /\ now <= req[x].since + MaxLookup
      BY <1>6, <2>2 DEF IInv, Owners, Looking
    <3>2. req[x].user # u
      BY <1>1, <1>8, <3>1
    <3> QED BY <1>7, <3>1, <3>2
  <2> QED BY <2>1, <2>2
<1>10. Owned'
  BY <1>1, <1>2, <1>6, <1>7 DEF IInv, Owned, Looking
<1>11. Shares'
  BY <1>6, <1>7, <1>8 DEF IInv, Shares
<1>12. Found'
  BY <1>3, <1>6, FoundKept
<1>13. EntryOK'
  BY <1>1, <1>3, EntriesKept
<1>14. Answered'
  BY <1>1, CacheAssumption DEF Answered, NoAnswer, Verdicts
<1> QED BY <1>3, <1>5, <1>9, <1>10, <1>11, <1>12, <1>13, <1>14 DEF IInv

\* The query runs.
LEMMA ReadStep ==
  ASSUME IInv, NEW r \in Requests, ReadUser(r), Witness
  PROVE  IInv'
<1> DEFINE v == Verdict(account[req[r].user])
<1>1. /\ account' = account /\ now' = now /\ userCache' = userCache /\ inFlight' = inFlight
      /\ req' = [req EXCEPT ![r].at = "found", ![r].seen = v]
      /\ answer' = NoAnswer /\ req[r].at = "query"
  BY DEF ReadUser
<1>2. account' \in [Users -> Accounts]
  BY <1>1 DEF IInv, TypeOK
<1>3. /\ held' \in [Users -> [Verdicts -> Nat]] /\ History'
      /\ \A x \in Users, w \in Verdicts :
           held[x][w] \in Nat /\ held'[x][w] \in Nat /\ held[x][w] <= held'[x][w]
      /\ now \in Nat /\ MaxLookup \in Nat /\ req \in Reqs
  BY <1>1, <1>2, QuietHistory
<1>4. req[r].user \in Users /\ req[r].since <= now /\ req[r].since \in Nat
  BY <1>1, <1>3 DEF IInv, Owners, Looking, Reqs
<1>5. v \in Verdicts
  BY <1>1, <1>2, <1>4, VerdictType
<1> HIDE DEF v
<1>6. req' \in Reqs /\ answer' \in [user : Users \cup {Nobody}, verdict : Verdicts \cup {Nobody}]
  BY <1>1, <1>3, <1>5 DEF Reqs, NoAnswer
<1>7. TypeOK'
  BY <1>1, <1>3, <1>6 DEF IInv, TypeOK, Reqs
<1>8. \A x \in Requests :
        /\ req'[x].user = req[x].user /\ req'[x].since = req[x].since
        /\ req'[x].at = (IF x = r THEN "found" ELSE req[x].at)
        /\ req'[x].seen = (IF x = r THEN v ELSE req[x].seen)
  BY <1>1, <1>3 DEF Reqs
<1>9. Owners' /\ Owned' /\ Shares'
  <2>1. Owners'
    BY <1>1, <1>8 DEF IInv, Owners, Looking
  <2>2. Owned'
    BY <1>1, <1>8, <1>3 DEF IInv, TypeOK, Owned, Looking
  <2>3. \A x \in Requests : req'[x].at = "shared" => req[x].at = "shared"
    BY <1>8
  <2>4. Shares'
    BY <1>1, <1>8, <2>3 DEF IInv, Shares
  <2> QED BY <2>1, <2>2, <2>4
<1>10. Found'
  <2> SUFFICES ASSUME NEW x \in Requests, req'[x].at = "found"
               PROVE  req'[x].seen \in Verdicts /\ req'[x].since <= held'[req'[x].user][req'[x].seen]
    BY DEF Found
  <2>1. CASE x = r
    <3>1. held'[req[r].user][v] = now
      BY <1>1, <1>3, <1>4 DEF History, v
    <3> QED BY <1>4, <1>5, <1>8, <2>1, <3>1
  <2>2. CASE x # r
    <3>1. /\ req[x].seen \in Verdicts /\ req[x].user \in Users /\ req[x].since \in Nat
          /\ req[x].since <= held[req[x].user][req[x].seen]
      BY <1>3, <1>8, <2>2 DEF IInv, Found, Owners, Looking, Reqs
    <3> QED BY <1>3, <1>8, <2>2, <3>1
  <2> QED BY <2>1, <2>2
<1>11. EntryOK'
  BY <1>1, <1>3, EntriesKept
<1>12. Answered'
  BY <1>1, CacheAssumption DEF Answered, NoAnswer, Verdicts
<1> QED BY <1>3, <1>7, <1>9, <1>10, <1>11, <1>12 DEF IInv

\* A lookup ends, well or not: its owner and those who shared it are free, and the
\* lookups of other users go on.
LEMMA EndOfLookup ==
  ASSUME IInv, NEW r \in Requests, Looking(r), now' = now,
         inFlight' = Released(r, req[r].user),
         req' = [x \in Requests |-> IF x \in Sharing(r, req[r].user) THEN Idle ELSE req[x]]
  PROVE  /\ inFlight' \in [Users -> Requests \cup {Nobody}] /\ req' \in Reqs
         /\ \A x \in Requests : req'[x] = Idle \/ req'[x] = req[x]
         /\ Owners' /\ Owned' /\ Shares'
<1> DEFINE u == req[r].user
<1>1. inFlight \in [Users -> Requests \cup {Nobody}] /\ req \in Reqs
  BY DEF IInv, TypeOK, Reqs
<1>2. u \in Users /\ inFlight[u] = r
  BY DEF IInv, Owners
<1>3. \A x \in Users : inFlight'[x] = IF x = u THEN Nobody ELSE inFlight[x]
  BY <1>1 DEF Released
<1>4. inFlight' \in [Users -> Requests \cup {Nobody}]
  BY <1>1 DEF Released
<1>5. Idle \in [at : {"idle", "query", "found", "shared"}, user : Users \cup {Nobody},
                 seen : Verdicts \cup {Nobody}, since : Nat]
  BY DEF Idle
<1>6. req' \in Reqs /\ \A x \in Requests : req'[x] = Idle \/ req'[x] = req[x]
  BY <1>1, <1>5 DEF Reqs
<1>7. \A x \in Requests : Looking(x)' => x # r /\ req'[x] = req[x] /\ Looking(x)
  BY DEF Looking, Idle, Sharing
<1>8. \A x \in Requests : Looking(x) /\ x # r => req'[x] = req[x] /\ req[x].user # u
  BY <1>2 DEF IInv, Owners, Looking, Sharing
<1> HIDE DEF u
<1>9. Owners'
  BY <1>3, <1>7, <1>8 DEF IInv, Owners, Looking
<1>10. Owned'
  <2> SUFFICES ASSUME NEW x \in Users, inFlight'[x] # Nobody
               PROVE  /\ req'[inFlight'[x]].at \in {"query", "found"}
                      /\ req'[inFlight'[x]].user = x
    BY DEF Owned, Looking
  <2>1. x # u /\ inFlight'[x] = inFlight[x] /\ inFlight[x] # Nobody /\ inFlight[x] \in Requests
    BY <1>1, <1>3
  <2>2. Looking(inFlight[x]) /\ req[inFlight[x]].user = x
    BY <2>1 DEF IInv, Owned
  <2>3. inFlight[x] # r
    BY <2>1, <2>2 DEF u
  <2> QED BY <1>8, <2>1, <2>2, <2>3 DEF Looking
<1>11. Shares'
  <2> SUFFICES ASSUME NEW x \in Requests, req'[x].at = "shared"
               PROVE  req'[x].user \in Users /\ inFlight'[req'[x].user] # Nobody
    BY DEF Shares
  <2>1. req'[x] = req[x] /\ x \notin Sharing(r, u)
    BY DEF Idle, u
  <2>2. req[x].user \in Users /\ inFlight[req[x].user] # Nobody /\ req[x].user # u
    BY <2>1 DEF IInv, Shares, Sharing
  <2> QED BY <1>3, <2>1, <2>2
<1> QED BY <1>4, <1>6, <1>9, <1>10, <1>11

\* The row arrives.
LEMMA LoadStep ==
  ASSUME IInv, NEW r \in Requests, LoadUser(r), Witness
  PROVE  IInv'
<1> DEFINE u == req[r].user
           e == [role |-> req[r].seen, at |-> now]
<1>1. /\ account' = account /\ now' = now /\ req[r].at = "found"
      /\ inFlight' = Released(r, u)
      /\ req' = [x \in Requests |-> IF x \in Sharing(r, u) THEN Idle ELSE req[x]]
      /\ answer' = [user |-> u, verdict |-> req[r].seen]
      /\ userCache' = IF req[r].seen # Denied THEN [Trimmed EXCEPT ![u] = e]
                      ELSE [userCache EXCEPT ![u] = NoEntry]
  BY DEF LoadUser, Say, Usable
<1>2. account' \in [Users -> Accounts] /\ userCache \in [Users -> Entries \cup {NoEntry}]
  BY <1>1 DEF IInv, TypeOK
<1>3. /\ held' \in [Users -> [Verdicts -> Nat]] /\ History'
      /\ \A x \in Users, v \in Verdicts :
           held[x][v] \in Nat /\ held'[x][v] \in Nat /\ held[x][v] <= held'[x][v]
      /\ now \in Nat /\ MaxLookup \in Nat /\ req \in Reqs
  BY <1>1, <1>2, QuietHistory
<1>4. Looking(r)
  BY <1>1 DEF Looking
<1>5. /\ inFlight' \in [Users -> Requests \cup {Nobody}] /\ req' \in Reqs
      /\ \A x \in Requests : req'[x] = Idle \/ req'[x] = req[x]
      /\ Owners' /\ Owned' /\ Shares'
  BY <1>1, <1>4, EndOfLookup
<1>6. u \in Users /\ req[r].seen \in Verdicts /\ now <= held'[u][req[r].seen] + MaxLookup
  <2>1. /\ u \in Users /\ req[r].seen \in Verdicts /\ req[r].since \in Nat
        /\ now <= req[r].since + MaxLookup /\ req[r].since <= held[u][req[r].seen]
    BY <1>1, <1>3, <1>4 DEF IInv, Owners, Found, Reqs
  <2> QED BY <1>3, <2>1
<1>7. Found'
  <2>1. \A x \in Requests : req'[x].at = "found" => req'[x] = req[x]
    BY <1>5 DEF Idle
  <2> QED BY <1>3, <2>1, FoundKept
<1>8. req[r].seen # Denied => e \in Entries
  BY <1>3, <1>6 DEF Entries, Verdicts
<1> HIDE DEF u
<1>9. /\ userCache' \in [Users -> Entries \cup {NoEntry}]
      /\ \A x \in Users : \/ userCache'[x] = NoEntry
                          \/ userCache'[x] = userCache[x]
                          \/ x = u /\ req[r].seen # Denied /\ userCache'[x] = e
  <2>1. /\ Trimmed \in [Users -> Entries \cup {NoEntry}]
        /\ \A x \in Users : Trimmed[x] = NoEntry \/ Trimmed[x] = userCache[x]
    BY <1>2 DEF Trimmed
  <2> HIDE DEF e
  <2>2. CASE req[r].seen # Denied
    BY <1>1, <1>6, <1>8, <2>1, <2>2
  <2>3. CASE req[r].seen = Denied
    BY <1>1, <1>2, <1>6, <2>3
  <2> QED BY <2>2, <2>3
<1>10. EntryOK'
  <2> SUFFICES ASSUME NEW x \in Users, userCache'[x] # NoEntry
               PROVE  /\ userCache'[x] \in Entries /\ userCache'[x].at <= now
                      /\ userCache'[x].at <= held'[x][userCache'[x].role] + MaxLookup
    BY <1>1 DEF EntryOK
  <2>1. CASE userCache'[x] = userCache[x]
    <3>1. /\ userCache[x] \in Entries /\ userCache[x].at <= now
          /\ userCache[x].at <= held[x][userCache[x].role] + MaxLookup
      BY <2>1 DEF IInv, EntryOK
    <3>2. userCache[x].role \in Verdicts /\ userCache[x].at \in Nat
      BY <3>1 DEF Entries, Verdicts
    <3> QED BY <1>3, <2>1, <3>1, <3>2
  <2>2. CASE x = u /\ req[r].seen # Denied /\ userCache'[x] = e
    BY <1>3, <1>6, <1>8, <2>2
  <2> QED BY <1>9, <2>1, <2>2
<1>11. Answered'
  <2>1. answer'.user = u /\ answer'.verdict = req[r].seen
    BY <1>1
  <2>2. held'[u][req[r].seen] \in Nat /\ TTL \in Nat
    BY <1>3, <1>6, CacheAssumption
  <2>3. now <= held'[u][req[r].seen] + (TTL + MaxLookup)
    BY <1>3, <1>6, <2>2
  <2> QED BY <1>1, <1>6, <2>1, <2>3 DEF Answered
<1>12. answer' \in [user : Users \cup {Nobody}, verdict : Verdicts \cup {Nobody}]
  BY <1>1, <1>6
<1>13. TypeOK'
  BY <1>1, <1>2, <1>3, <1>5, <1>9, <1>12 DEF IInv, TypeOK, Reqs
<1> QED BY <1>3, <1>5, <1>7, <1>10, <1>11, <1>13 DEF IInv

\* The query fails.
LEMMA FailStep ==
  ASSUME IInv, NEW r \in Requests, LookupFails(r), Witness
  PROVE  IInv'
<1>1. /\ account' = account /\ now' = now /\ userCache' = userCache /\ Looking(r)
      /\ inFlight' = Released(r, req[r].user)
      /\ req' = [x \in Requests |-> IF x \in Sharing(r, req[r].user) THEN Idle ELSE req[x]]
      /\ answer' = NoAnswer
  BY DEF LookupFails, Looking
<1>2. account' \in [Users -> Accounts]
  BY <1>1 DEF IInv, TypeOK
<1>3. /\ held' \in [Users -> [Verdicts -> Nat]] /\ History'
      /\ \A x \in Users, v \in Verdicts :
           held[x][v] \in Nat /\ held'[x][v] \in Nat /\ held[x][v] <= held'[x][v]
      /\ now \in Nat /\ MaxLookup \in Nat /\ req \in Reqs
  BY <1>1, <1>2, QuietHistory
<1>4. /\ inFlight' \in [Users -> Requests \cup {Nobody}] /\ req' \in Reqs
      /\ \A x \in Requests : req'[x] = Idle \/ req'[x] = req[x]
      /\ Owners' /\ Owned' /\ Shares'
  BY <1>1, EndOfLookup
<1>5. \A x \in Requests : req'[x].at = "found" => req'[x] = req[x]
  BY <1>4 DEF Idle
<1>6. Found'
  BY <1>3, <1>5, FoundKept
<1>7. EntryOK'
  BY <1>1, <1>3, EntriesKept
<1>8. Answered' /\ answer' \in [user : Users \cup {Nobody}, verdict : Verdicts \cup {Nobody}]
  BY <1>1, CacheAssumption DEF Answered, NoAnswer, Verdicts
<1>9. TypeOK'
  BY <1>1, <1>3, <1>4, <1>8 DEF IInv, TypeOK, Reqs
<1> QED BY <1>3, <1>4, <1>6, <1>7, <1>8, <1>9 DEF IInv

\* An administrator changes an account.
LEMMA AdminStep ==
  ASSUME IInv, Administrate, Witness
  PROVE  IInv'
<1>1. /\ now' = now /\ userCache' = userCache /\ inFlight' = inFlight /\ req' = req
      /\ answer' = NoAnswer
  BY DEF Administrate, SetActive, ApproveUser
<1>2. account' \in [Users -> Accounts]
  <2>1. account \in [Users -> Accounts]
    BY DEF IInv, TypeOK
  <2>2. ASSUME NEW u \in Users, NEW b \in BOOLEAN, SetActive(u, b)
        PROVE  account' \in [Users -> Accounts]
    BY <2>1, <2>2 DEF SetActive, Accounts
  <2>3. ASSUME NEW u \in Users, NEW role \in Roles, ApproveUser(u, role)
        PROVE  account' \in [Users -> Accounts]
    BY <2>1, <2>3 DEF ApproveUser, Accounts
  <2> QED BY <2>2, <2>3 DEF Administrate
<1>3. /\ held' \in [Users -> [Verdicts -> Nat]] /\ History'
      /\ \A x \in Users, v \in Verdicts :
           held[x][v] \in Nat /\ held'[x][v] \in Nat /\ held[x][v] <= held'[x][v]
      /\ now \in Nat /\ MaxLookup \in Nat /\ req \in Reqs
  BY <1>1, <1>2, QuietHistory
<1>4. Owners' /\ Owned' /\ Shares'
  BY <1>1 DEF IInv, Owners, Owned, Shares, Looking
<1>5. Found'
  BY <1>1, <1>3, FoundKept
<1>6. EntryOK'
  BY <1>1, <1>3, EntriesKept
<1>7. Answered' /\ answer' \in [user : Users \cup {Nobody}, verdict : Verdicts \cup {Nobody}]
  BY <1>1, CacheAssumption DEF Answered, NoAnswer, Verdicts
<1>8. TypeOK'
  BY <1>1, <1>2, <1>3, <1>7 DEF IInv, TypeOK
<1> QED BY <1>3, <1>4, <1>5, <1>6, <1>7, <1>8 DEF IInv

\* Time passes.
LEMMA TickStep ==
  ASSUME IInv, Tick, Witness
  PROVE  IInv'
<1>1. /\ now' = now + 1 /\ now <= MaxTime /\ account' = account /\ userCache' = userCache
      /\ inFlight' = inFlight /\ req' = req /\ answer' = NoAnswer
      /\ \A r \in Requests : Looking(r) => now - req[r].since < MaxLookup
  BY DEF Tick, Looking
<1>2. /\ now \in Nat /\ now' \in Nat /\ now <= now' /\ MaxLookup \in Nat /\ req \in Reqs
      /\ account' \in [Users -> Accounts] /\ now' \in 1 .. MaxTime + 1
      /\ held \in [Users -> [Verdicts -> Nat]]
  BY <1>1, CacheAssumption DEF IInv, TypeOK, Reqs
<1>3. /\ held' \in [Users -> [Verdicts -> Nat]] /\ History'
      /\ \A x \in Users, v \in Verdicts : held[x][v] <= held'[x][v]
  BY <1>2, HeldStep
<1>4. Owners'
  <2> SUFFICES ASSUME NEW r \in Requests, Looking(r)
               PROVE  /\ req[r].user \in Users /\ inFlight[req[r].user] = r
                      /\ req[r].since <= now' /\ now' <= req[r].since + MaxLookup
    BY <1>1 DEF Owners, Looking
  <2>1. /\ req[r].user \in Users /\ inFlight[req[r].user] = r /\ req[r].since <= now
        /\ req[r].since \in Nat /\ now - req[r].since < MaxLookup
    BY <1>1, <1>2 DEF IInv, Owners, Reqs
  <2> QED BY <1>1, <1>2, <2>1
<1>5. Owned' /\ Shares'
  BY <1>1 DEF IInv, Owned, Shares, Looking
<1>6. Found'
  BY <1>1, <1>2, <1>3, FoundKept
<1>7. EntryOK'
  BY <1>1, <1>2, <1>3, EntriesKept
<1>8. Answered' /\ answer' \in [user : Users \cup {Nobody}, verdict : Verdicts \cup {Nobody}]
  BY <1>1, CacheAssumption DEF Answered, NoAnswer, Verdicts
<1>9. TypeOK'
  BY <1>1, <1>2, <1>3, <1>8 DEF IInv, TypeOK
<1> QED BY <1>3, <1>4, <1>5, <1>6, <1>7, <1>8, <1>9 DEF IInv

\* The process restarts.
LEMMA RestartStep ==
  ASSUME IInv, Restart, Witness
  PROVE  IInv'
<1>1. /\ account' = account /\ now' = now /\ userCache' = [u \in Users |-> NoEntry]
      /\ inFlight' = [u \in Users |-> Nobody] /\ req' = [r \in Requests |-> Idle]
      /\ answer' = NoAnswer
  BY DEF Restart
<1>2. account' \in [Users -> Accounts]
  BY <1>1 DEF IInv, TypeOK
<1>3. held' \in [Users -> [Verdicts -> Nat]] /\ History'
  BY <1>1, <1>2, QuietHistory
<1>4. req' \in Reqs /\ \A r \in Requests : req'[r].at = "idle"
  BY <1>1 DEF Reqs, Idle
<1>5. Owners' /\ Owned' /\ Shares' /\ Found' /\ EntryOK'
  BY <1>1, <1>4 DEF Owners, Owned, Shares, Found, EntryOK, Looking
<1>6. Answered' /\ answer' \in [user : Users \cup {Nobody}, verdict : Verdicts \cup {Nobody}]
  BY <1>1, CacheAssumption DEF Answered, NoAnswer, Verdicts
<1>7. TypeOK'
  BY <1>1, <1>2, <1>3, <1>4, <1>6 DEF IInv, TypeOK, Reqs
<1> QED BY <1>3, <1>5, <1>6, <1>7 DEF IInv

-----------------------------------------------------------------------------
\* Every step, and none, keeps the invariant.
LEMMA NextInv == ASSUME IInv, [Next]_vars PROVE IInv'
<1>1. CASE Next
  <2>1. Witness
    BY <1>1 DEF Next
  <2>2. ASSUME NEW r \in Requests, Validate(r) PROVE IInv'
    BY <2>1, <2>2, CachedStep, SharedStep, LookupStep, ReadStep, LoadStep, FailStep DEF Validate
  <2> QED BY <1>1, <2>1, <2>2, AdminStep, TickStep, RestartStep DEF Next
<1>2. CASE UNCHANGED vars
  BY <1>2 DEF vars, IInv, TypeOK, Owners, Owned, Shares, Found, EntryOK, History, Answered, Looking
<1> QED BY <1>1, <1>2

LEMMA Invariance == Spec => []IInv
<1>1. Init => IInv
  BY InitInv
<1>2. IInv /\ [Next]_vars => IInv'
  BY NextInv
<1> QED BY <1>1, <1>2, PTL DEF Spec

\* Every variable keeps its type: in particular no refused account is ever stored.
THEOREM TypeCorrect == Spec => []TypeOK
<1>1. IInv => TypeOK
  BY DEF IInv
<1> QED BY <1>1, Invariance, PTL

\* A lock, an unlock or a new role shows after the TTL and one lookup at the latest.
THEOREM ChangeShowsCorrect == Spec => []ChangeShows
<1>1. ASSUME IInv PROVE ChangeShows
  <2> SUFFICES ASSUME answer.verdict \in Roles
               PROVE  now - held[answer.user][answer.verdict] <= TTL + MaxLookup
    BY DEF ChangeShows
  <2>1. /\ answer.verdict \in Verdicts /\ answer.user \in Users
        /\ now <= held[answer.user][answer.verdict] + (TTL + MaxLookup)
    BY <1>1 DEF IInv, Answered, Verdicts
  <2>2. /\ now \in Nat /\ TTL \in Nat /\ MaxLookup \in Nat
        /\ held[answer.user][answer.verdict] \in Nat
    BY <1>1, <2>1, CacheAssumption DEF IInv, TypeOK
  <2> QED BY <2>1, <2>2
<1> QED BY <1>1, Invariance, PTL

\* Nobody is refused for what was true before his lookup began.
THEOREM RefusedNowCorrect == Spec => []RefusedNow
<1>1. ASSUME IInv PROVE RefusedNow
  <2> SUFFICES ASSUME answer.verdict = Denied
               PROVE  now - held[answer.user][Denied] <= MaxLookup
    BY DEF RefusedNow
  <2>1. answer.user \in Users /\ now <= held[answer.user][Denied] + MaxLookup
    BY <1>1 DEF IInv, Answered, Verdicts
  <2>2. now \in Nat /\ MaxLookup \in Nat /\ held[answer.user][Denied] \in Nat
    BY <1>1, <2>1, CacheAssumption DEF IInv, TypeOK, Verdicts
  <2> QED BY <2>1, <2>2
<1> QED BY <1>1, Invariance, PTL

\* Never two lookups of one user at a time.
THEOREM OneLookupCorrect == Spec => []OneLookup
<1>1. IInv => OneLookup
  BY DEF IInv, Owners, Looking, OneLookup
<1> QED BY <1>1, Invariance, PTL

\* Whoever waits, waits for a lookup that is still to end.
THEOREM NoneForgottenCorrect == Spec => []NoneForgotten
<1>1. ASSUME IInv PROVE NoneForgotten
  <2> SUFFICES ASSUME NEW r \in Requests, req[r].at = "shared"
               PROVE  \E s \in Requests : /\ inFlight[req[r].user] = s
                                          /\ req[s].user = req[r].user
                                          /\ req[s].at \in {"query", "found"}
    BY DEF NoneForgotten
  <2>1. req[r].user \in Users /\ inFlight[req[r].user] # Nobody
    BY <1>1 DEF IInv, Shares
  <2>2. inFlight[req[r].user] \in Requests
    BY <1>1, <2>1 DEF IInv, TypeOK
  <2> QED BY <1>1, <2>1, <2>2 DEF IInv, Owned, Looking
<1> QED BY <1>1, Invariance, PTL

\* What the Map holds, as a set that can be counted.
Counted == IsFiniteSet(Cached) /\ CacheBounded

\* A set that is small enough to be trimmed no further, and one user more.
LEMMA OneMoreUser ==
  ASSUME NEW S, IsFiniteSet(S), Cardinality(S) <= MaxCached, NEW u,
         NEW T, T \subseteq S \cup {u}
  PROVE  IsFiniteSet(T) /\ Cardinality(T) <= MaxCached + 1
<1>1. /\ IsFiniteSet(S \cup {u})
      /\ Cardinality(S \cup {u}) = IF u \in S THEN Cardinality(S) ELSE Cardinality(S) + 1
  BY FS_AddElement
<1>2. IsFiniteSet(T) /\ Cardinality(T) <= Cardinality(S \cup {u})
  BY <1>1, FS_Subset
<1>3. Cardinality(S) \in Nat /\ Cardinality(T) \in Nat /\ MaxCached \in Nat
  BY <1>2, FS_CardinalityType, CacheAssumption
<1> QED BY <1>1, <1>2, <1>3

\* Only a lookup that ends adds an entry, and it trims the Map before.
LEMMA LoadCounted ==
  ASSUME IInv, Counted, NEW r \in Requests, LoadUser(r)
  PROVE  Counted'
<1> DEFINE u == req[r].user
           Kept == { x \in Users : Trimmed[x] # NoEntry }
<1>1. userCache' = IF Usable(r) THEN [Trimmed EXCEPT ![u] = [role |-> req[r].seen, at |-> now]]
                   ELSE [userCache EXCEPT ![u] = NoEntry]
  BY DEF LoadUser
<1>2. userCache = [x \in Users |-> userCache[x]]
  BY DEF IInv, TypeOK
<1>3. CASE Usable(r)
  <2>1. \A x \in Users \ {u} : userCache'[x] = Trimmed[x]
    BY <1>1, <1>2, <1>3 DEF Trimmed
  <2>2. Cached' \subseteq Kept \cup {u}
    BY <2>1 DEF Cached
  <2>3. IsFiniteSet(Kept) /\ Cardinality(Kept) <= MaxCached
    <3>1. CASE Cardinality(Cached) > MaxCached
      <4>1. Kept = {}
        BY <3>1 DEF Trimmed
      <4> QED BY <4>1, FS_EmptySet, CacheAssumption
    <3>2. CASE ~ Cardinality(Cached) > MaxCached
      <4>1. Kept = Cached
        BY <3>2 DEF Trimmed, Cached
      <4>2. Cardinality(Cached) \in Nat /\ MaxCached \in Nat
        BY FS_CardinalityType, CacheAssumption DEF Counted
      <4> QED BY <3>2, <4>1, <4>2 DEF Counted
    <3> QED BY <3>1, <3>2
  <2> HIDE DEF Kept, u
  <2> QED BY <2>2, <2>3, OneMoreUser DEF Counted, CacheBounded
<1>4. CASE ~ Usable(r)
  <2>1. Cached' \subseteq Cached
    BY <1>1, <1>2, <1>4 DEF Cached
  <2>2. IsFiniteSet(Cached') /\ Cardinality(Cached') <= Cardinality(Cached)
    BY <2>1, FS_Subset DEF Counted
  <2>3. /\ Cardinality(Cached') \in Nat /\ Cardinality(Cached) \in Nat
        /\ MaxCached \in Nat
    BY <2>2, FS_CardinalityType, CacheAssumption DEF Counted
  <2> QED BY <2>2, <2>3 DEF Counted, CacheBounded
<1> QED BY <1>3, <1>4

\* The Map never holds more than one entry above its threshold, for any number
\* of users and requests.  jwt.strategy.ts: userCache.clear() before set().
THEOREM CacheBoundedCorrect == Spec => []CacheBounded
<1>1. ASSUME userCache' = [u \in Users |-> NoEntry] PROVE Counted'
  <2>1. Cached' = {}
    BY <1>1 DEF Cached
  <2> QED BY <2>1, FS_EmptySet, CacheAssumption DEF Counted, CacheBounded
<1>2. Init => Counted
  <2> SUFFICES ASSUME Init PROVE Counted
    OBVIOUS
  <2>1. Cached = {}
    BY DEF Init, Cached
  <2> QED BY <2>1, FS_EmptySet, CacheAssumption DEF Counted, CacheBounded
<1>3. IInv /\ Counted /\ [Next]_vars => Counted'
  <2> SUFFICES ASSUME IInv, Counted, [Next]_vars PROVE Counted'
    OBVIOUS
  <2>1. CASE userCache' = userCache
    BY <2>1 DEF Counted, Cached, CacheBounded
  <2>2. ASSUME NEW r \in Requests, LoadUser(r) PROVE Counted'
    BY <2>2, LoadCounted
  <2>3. CASE Restart
    BY <2>3, <1>1 DEF Restart
  <2>4. ASSUME NEW r \in Requests, Validate(r), ~ LoadUser(r) PROVE userCache' = userCache
    BY <2>4 DEF Validate, ValidateCached, ValidateShared, ValidateLookup, ReadUser, LookupFails
  <2>5. Administrate \/ Tick => userCache' = userCache
    BY DEF Administrate, SetActive, ApproveUser, Tick
  <2> QED BY <2>1, <2>2, <2>3, <2>4, <2>5 DEF Next, vars
<1>4. Counted => CacheBounded
  BY DEF Counted
<1> QED BY <1>2, <1>3, <1>4, Invariance, PTL DEF Spec
=============================================================================
