----------------------------- MODULE UserCache -----------------------------
(***************************************************************************)
(* JwtStrategy: who a request with a valid access token is, and whether    *)
(* the account may still be used.  The answer of the database is kept for  *)
(* userCacheTtlMs, and requests that miss the cache at the same time share *)
(* one lookup.  UsersService changes the account meanwhile.                *)
(*                                                                         *)
(* Time is counted in ticks.  JavaScript runs one callback at a time, so a *)
(* handler is cut only where it awaits the database.                       *)
(***************************************************************************)
EXTENDS Naturals, FiniteSets

CONSTANTS
  Users,
  Roles,
  Requests,   \* slots for requests in flight
  Denied,     \* no account, locked, or not approved: UnauthorizedException
  Nobody,     \* no request owns a lookup; no answer was given
  TTL,        \* userCacheTtlMs
  MaxCached,  \* 5_000
  MaxLookup,  \* bound: ticks a lookup takes
  MaxTime     \* bound: ticks of the behaviour

ASSUME CacheAssumption ==
  /\ Denied \notin Roles /\ Nobody \notin Roles \cup Requests \cup {Denied}
  /\ {TTL, MaxCached, MaxLookup, MaxTime} \subseteq Nat

Verdicts == Roles \cup {Denied}

VARIABLES
  account,    \* role, isActive and isApproved of the rows
  now,        \* Date.now()
  userCache,  \* the entries of the Map, [role, at]
  inFlight,   \* the request whose lookup the others of its user share
  req,        \* the requests: at = step, user, seen = what the query returned,
              \* since = when the lookup or the wait for it began
  answer,     \* history: the answer given in the last step
  held        \* history: when each user last had each verdict

vars == <<account, now, userCache, inFlight, req, answer, held>>

NoAnswer == [user |-> Nobody, verdict |-> Nobody]
Idle == [at |-> "idle", user |-> Nobody, seen |-> Nobody, since |-> 0]
Never == 0

\* what the row says: the user with his role, or UnauthorizedException
Verdict(a) == IF a.active /\ a.approved THEN a.role ELSE Denied

Accounts == [role : Roles, active : BOOLEAN, approved : BOOLEAN]
Entries == [role : Roles, at : Nat]
NoEntry == [role |-> Denied, at |-> Never]

TypeOK ==
  /\ account \in [Users -> Accounts]
  /\ now \in 1 .. MaxTime + 1
  /\ userCache \in [Users -> Entries \cup {NoEntry}]
  /\ inFlight \in [Users -> Requests \cup {Nobody}]
  /\ req \in [Requests -> [at : {"idle", "query", "found", "shared"}, user : Users \cup {Nobody},
                           seen : Verdicts \cup {Nobody}, since : Nat]]
  /\ answer \in [user : Users \cup {Nobody}, verdict : Verdicts \cup {Nobody}]
  /\ held \in [Users -> [Verdicts -> Nat]]

Init ==
  /\ account \in [Users -> Accounts]
  /\ now = 1
  /\ userCache = [u \in Users |-> NoEntry]
  /\ inFlight = [u \in Users |-> Nobody]
  /\ req = [r \in Requests |-> Idle]
  /\ answer = NoAnswer
  /\ held = [u \in Users |-> [v \in Verdicts |-> IF v = Verdict(account[u]) THEN now ELSE Never]]

Cached == { u \in Users : userCache[u] # NoEntry }

-----------------------------------------------------------------------------
\* the history: what every account says after the step
Witness ==
  held' = [u \in Users |-> [held[u] EXCEPT ![Verdict(account'[u])] = now']]

Say(u, v) == answer' = [user |-> u, verdict |-> v]

\* mutant: an entry once stored is good for ever
EverFresh(u) == userCache[u] # NoEntry

\* the entry is there and younger than the TTL
Fresh(u) == userCache[u] # NoEntry /\ now - userCache[u].at < TTL

\* a fresh entry answers at once
ValidateCached(r, u) ==
  /\ req[r].at = "idle" /\ Fresh(u)
  /\ Say(u, userCache[u].role)
  /\ UNCHANGED <<account, now, userCache, inFlight, req>>

\* mutant: requests that miss together do not wait for each other
NoneShared(u) == FALSE

\* a lookup of the same user is under way
InFlight(u) == inFlight[u] # Nobody

\* the request waits for the promise of another one
ValidateShared(r, u) ==
  /\ req[r].at = "idle" /\ ~ Fresh(u) /\ InFlight(u)
  /\ req' = [req EXCEPT ![r] = [at |-> "shared", user |-> u, seen |-> Nobody, since |-> now]]
  /\ answer' = NoAnswer
  /\ UNCHANGED <<account, now, userCache, inFlight>>

\* the request asks the database itself
ValidateLookup(r, u) ==
  /\ req[r].at = "idle" /\ ~ Fresh(u) /\ ~ InFlight(u)
  /\ req' = [req EXCEPT ![r] = [at |-> "query", user |-> u, seen |-> Nobody, since |-> now]]
  /\ inFlight' = [inFlight EXCEPT ![u] = r]
  /\ answer' = NoAnswer
  /\ UNCHANGED <<account, now, userCache>>

\* findUnique runs in the database
ReadUser(r) ==
  /\ req[r].at = "query"
  /\ req' = [req EXCEPT ![r].at = "found", ![r].seen = Verdict(account[req[r].user])]
  /\ answer' = NoAnswer
  /\ UNCHANGED <<account, now, userCache, inFlight>>

\* mutant: what the query returned counts as an account in use
AnyAnswer(r) == TRUE

\* the condition of loadUser: the account exists, is active and approved
Usable(r) == req[r].seen # Denied

\* mutant: the Map only grows
NeverCleared == userCache

\* the Map before set(): emptied when it holds too many entries
Trimmed ==
  IF Cardinality(Cached) > MaxCached THEN [u \in Users |-> NoEntry] ELSE userCache

\* mutant: a refused lookup stays in the map of lookups in flight
ReleasedIfGranted(r, u) ==
  IF ~ Usable(r) THEN inFlight ELSE [inFlight EXCEPT ![u] = Nobody]

\* the finally of validate
Released(r, u) == [inFlight EXCEPT ![u] = Nobody]

\* the requests that hold the promise of this lookup
Sharing(r, u) == { x \in Requests : req[x].at = "shared" /\ req[x].user = u } \cup {r}

\* the row arrives: the entry is stored or deleted, and all who wait are answered
LoadUser(r) ==
  LET u == req[r].user IN
  /\ req[r].at = "found"
  /\ userCache' = IF Usable(r) THEN [Trimmed EXCEPT ![u] = [role |-> req[r].seen, at |-> now]]
                   ELSE [userCache EXCEPT ![u] = NoEntry]
  /\ inFlight' = Released(r, u)
  /\ Say(u, req[r].seen)
  /\ req' = [x \in Requests |-> IF x \in Sharing(r, u) THEN Idle ELSE req[x]]
  /\ UNCHANGED <<account, now>>

\* the query fails: everybody who waits gets the error, the entry stays
LookupFails(r) ==
  LET u == req[r].user IN
  /\ req[r].at \in {"query", "found"}
  /\ inFlight' = Released(r, u)
  /\ req' = [x \in Requests |-> IF x \in Sharing(r, u) THEN Idle ELSE req[x]]
  /\ answer' = NoAnswer
  /\ UNCHANGED <<account, now, userCache>>

-----------------------------------------------------------------------------
\* UsersService.setActive: lock or unlock
SetActive(u, b) ==
  /\ account' = [account EXCEPT ![u].active = b]
  /\ answer' = NoAnswer
  /\ UNCHANGED <<now, userCache, inFlight, req>>

\* UsersService.approveUser, also used to change the role
ApproveUser(u, role) ==
  /\ account' = [account EXCEPT ![u].approved = TRUE, ![u].role = role]
  /\ answer' = NoAnswer
  /\ UNCHANGED <<now, userCache, inFlight, req>>

\* a lookup takes at most MaxLookup ticks
Tick ==
  /\ now <= MaxTime
  /\ \A r \in Requests : req[r].at \in {"query", "found"} => now - req[r].since < MaxLookup
  /\ now' = now + 1
  /\ answer' = NoAnswer
  /\ UNCHANGED <<account, userCache, inFlight, req>>

\* the process restarts: its maps and its requests are gone
Restart ==
  /\ userCache' = [u \in Users |-> NoEntry]
  /\ inFlight' = [u \in Users |-> Nobody]
  /\ req' = [r \in Requests |-> Idle]
  /\ answer' = NoAnswer
  /\ UNCHANGED <<account, now>>

Validate(r) ==
  \/ \E u \in Users : ValidateCached(r, u) \/ ValidateShared(r, u) \/ ValidateLookup(r, u)
  \/ ReadUser(r) \/ LoadUser(r) \/ LookupFails(r)

Administrate ==
  \E u \in Users :
    \/ \E b \in BOOLEAN : SetActive(u, b)
    \/ \E role \in Roles : ApproveUser(u, role)

Next ==
  /\ (\E r \in Requests : Validate(r)) \/ Administrate \/ Tick \/ Restart
  /\ Witness

Spec == Init /\ [][Next]_vars

-----------------------------------------------------------------------------
\* A change of an account (lock, unlock, new role) shows: whoever is let in with
\* a role had that role, in an account in use, within the last TTL, plus the time
\* one lookup may take.  (The comment of the strategy promises the TTL alone.)
ChangeShows ==
  answer.verdict \in Roles =>
    now - held[answer.user][answer.verdict] <= TTL + MaxLookup

\* Nobody is refused on account of the past: whoever is refused had no usable
\* account at some moment of the lookup that refused him.
RefusedNow ==
  answer.verdict = Denied =>
    now - held[answer.user][Denied] <= MaxLookup

\* Requests of one user that arrive together cost one query: never two lookups of
\* one user at a time, whatever the order of misses, answers and failures.
OneLookup ==
  \A r, s \in Requests :
    /\ req[r].at \in {"query", "found"} /\ req[s].at \in {"query", "found"}
    /\ req[r].user = req[s].user
    => r = s

\* Nobody waits for ever: whoever shares a promise shares one whose lookup is still
\* to end, also when that lookup was refused or failed.
NoneForgotten ==
  \A r \in Requests : req[r].at = "shared" =>
    \E s \in Requests : /\ inFlight[req[r].user] = s /\ req[s].user = req[r].user
                        /\ req[s].at \in {"query", "found"}

\* The Map stays small: at most one entry more than the threshold.
CacheBounded == Cardinality(Cached) <= MaxCached + 1
=============================================================================
