--------------------------- MODULE SessionsProofs ---------------------------
(***************************************************************************)
(* Two properties of Sessions for any tabs, browsers, passwords and        *)
(* bounds.  What a revocation leaves behind is proved from an invariant    *)
(* about everything a session can come from: the checks that were passed   *)
(* and not yet turned into a token.  What an approval protects from is     *)
(* proved from an invariant about the rejection in flight.                 *)
(***************************************************************************)
EXTENDS Sessions, TLAPS

Checked == [at : {"grant"}, root : Nat, raced : BOOLEAN]

\* A check that was passed goes back to the present epoch or knows that it
\* was overtaken; nothing else has a mark to set.
Sound(r, now) ==
    /\ r.at = "grant" => r \in Checked /\ (r.root = now \/ r.raced)
    /\ r.at # "grant" => "raced" \notin DOMAIN r

TasksSound ==
    /\ task = [t \in Tabs |-> task[t]]
    /\ \A t \in Tabs : Sound(task[t], epoch)

SessionSound ==
    /\ session.root \in Nat
    /\ session.raced \in BOOLEAN
    /\ RevokedStaysOut

RevocationInv ==
    /\ epoch \in Nat
    /\ TasksSound
    /\ Sound(lark, epoch)
    /\ SessionSound

----------------------------------------------------------------------------
\* Overtaken makes every check sound for whatever epoch comes.
LEMMA OvertakenSound ==
    ASSUME NEW r, NEW e, NEW f, Sound(r, e)
    PROVE  Sound(Overtaken(r), f)
<1>1. CASE r.at = "grant"
  <2>1. r \in Checked
    BY <1>1 DEF Sound
  <2>2. Overtaken(r) = [r EXCEPT !.raced = TRUE]
    BY <2>1 DEF Overtaken, Checked
  <2>3. [r EXCEPT !.raced = TRUE] \in Checked /\ [r EXCEPT !.raced = TRUE].raced
    BY <2>1 DEF Checked
  <2>4. [r EXCEPT !.raced = TRUE].at = "grant"
    BY <2>3 DEF Checked
  <2> QED
    BY <2>2, <2>3, <2>4 DEF Sound
<1>2. CASE r.at # "grant"
  BY <1>2 DEF Sound, Overtaken
<1> QED
  BY <1>1, <1>2

\* The records of requests that hold no check are sound in every epoch.
LEMMA PlainSound ==
    ASSUME NEW e, NEW x
    PROVE  /\ Sound(Idle, e)
           /\ Sound([at |-> "answer", token |-> x], e)
           /\ Sound([at |-> "password", new |-> x], e)
           /\ Sound([at |-> "lark"], e)
           /\ Sound([at |-> "asking"], e)
           /\ Sound([at |-> "refused"], e)
           /\ Sound([at |-> "granted", token |-> x], e)
BY DEF Sound, Idle

\* A check passed now is sound.
LEMMA PassedSound ==
    ASSUME NEW e \in Nat
    PROVE  Sound(Passed("grant", e), e)
BY DEF Sound, Passed, Checked

\* One request changes: the others stay sound.
LEMMA OneTask ==
    ASSUME TasksSound, NEW t \in Tabs, NEW r, Sound(r, epoch),
           task' = [task EXCEPT ![t] = r], epoch' = epoch
    PROVE  TasksSound'
<1>1. \A u \in Tabs : task'[u] = IF u = t THEN r ELSE task[u]
  BY DEF TasksSound
<1>2. task' = [u \in Tabs |-> task'[u]]
  BY DEF TasksSound
<1>3. \A u \in Tabs : Sound(task'[u], epoch)
  BY <1>1 DEF TasksSound
<1> QED
  BY <1>2, <1>3 DEF TasksSound

\* A revocation keeps the invariant: all checks are overtaken.
LEMMA RevokeSound ==
    ASSUME MaxEpoch \in Nat, epoch \in Nat, Sound(lark, epoch), NEW tasks,
           \A t \in Tabs : Sound(tasks[t], epoch), Revoke(tasks)
    PROVE  RevocationInv'
<1>1. epoch' \in Nat
  BY DEF Revoke
<1>2. TasksSound'
  <2>1. task' = [t \in Tabs |-> Overtaken(tasks[t])]
    BY DEF Revoke
  <2>2. ASSUME NEW t \in Tabs PROVE Sound(task'[t], epoch')
    <3> DEFINE r == tasks[t]
    <3> DEFINE now == epoch'
    <3>1. Sound(r, epoch)
      OBVIOUS
    <3>2. task'[t] = Overtaken(r)
      BY <2>1
    <3> HIDE DEF r, now
    <3>3. Sound(Overtaken(r), now)
      BY <3>1, OvertakenSound
    <3> QED
      BY <3>2, <3>3 DEF now
  <2> QED
    BY <2>1, <2>2 DEF TasksSound
<1>3. Sound(lark, epoch)'
  <2> DEFINE now == epoch'
  <2>1. lark' = Overtaken(lark)
    BY DEF Revoke
  <2> HIDE DEF now
  <2>2. Sound(Overtaken(lark), now)
    BY OvertakenSound
  <2> QED
    BY <2>1, <2>2 DEF Sound, now
<1>4. SessionSound'
  BY DEF Revoke, SessionSound, NoSession, RevokedStaysOut
<1> QED
  BY <1>1, <1>2, <1>3, <1>4 DEF RevocationInv

\* A granted token carries the epoch of its check into the session.
LEMMA GrantSound ==
    ASSUME NEW r \in Checked, r.root = epoch \/ r.raced, NEW doubled,
           Grant(r, doubled), epoch' = epoch
    PROVE  SessionSound'
BY DEF Grant, SessionSound, RevokedStaysOut, Checked

----------------------------------------------------------------------------
\* Nothing is checked and nobody is signed in at the start.
LEMMA RevocationInit ==
    ASSUME MaxEpoch \in Nat, Init
    PROVE  RevocationInv
<1>1. TasksSound
  BY PlainSound DEF Init, TasksSound
<1>2. Sound(lark, epoch)
  BY PlainSound DEF Init
<1>3. SessionSound
  BY DEF Init, SessionSound, NoSession, RevokedStaysOut
<1> QED
  BY <1>1, <1>2, <1>3 DEF RevocationInv, Init

\* The requests of a tab keep it.
LEMMA RevocationTab ==
    ASSUME MaxEpoch \in Nat, RevocationInv, NEW t \in Tabs, NEW p,
           \/ LoginCheck(t, p) \/ ResetCheck(t, p) \/ ChangeCheck(t, p)
           \/ RefreshCheck(t) \/ GrantToken(t) \/ SetCookies(t) \/ Logout(t)
           \/ SetPassword(t) \/ LarkCallback(t) \/ LarkAnswer(t)
    PROVE  RevocationInv'
<1> USE DEF RevocationInv
<1>0. ASSUME NEW r, Sound(r, epoch), task' = [task EXCEPT ![t] = r],
             epoch' = epoch, session' = session, Sound(lark, epoch)'
      PROVE  RevocationInv'
  <2>1. TasksSound'
    BY <1>0, OneTask
  <2>2. SessionSound'
    BY <1>0 DEF SessionSound, RevokedStaysOut, NoSession
  <2> QED
    BY <2>1, <2>2, <1>0
<1>k. ASSUME lark' = lark, epoch' = epoch PROVE Sound(lark, epoch)'
  BY <1>k DEF Sound
<1>1. CASE LoginCheck(t, p)
  <2>1. Sound(Passed("grant", epoch), epoch)
    BY PassedSound
  <2> QED
    BY <1>1, <2>1, <1>0, <1>k DEF LoginCheck
<1>2. CASE ResetCheck(t, p)
  BY <1>2, PlainSound, <1>0, <1>k DEF ResetCheck
<1>3. CASE ChangeCheck(t, p)
  BY <1>3, PlainSound, <1>0, <1>k DEF ChangeCheck
<1>4. CASE RefreshCheck(t)
  <2> DEFINE r == [Passed("grant", session.root) EXCEPT !.raced = session.raced]
  <2>1. session.root = epoch \/ session.raced
    BY <1>4 DEF RefreshCheck, TokenMatches, SessionSound, RevokedStaysOut
  <2>2. r = [at |-> "grant", root |-> session.root, raced |-> session.raced]
    BY DEF Passed
  <2>3. Sound(r, epoch)
    BY <2>1, <2>2 DEF Sound, Checked, SessionSound
  <2>4. task' = [task EXCEPT ![t] = r] /\ epoch' = epoch /\ session' = session /\ lark' = lark
    BY <1>4 DEF RefreshCheck
  <2> HIDE DEF r
  <2> QED
    BY <2>3, <2>4, <1>0, <1>k
<1>5. CASE GrantToken(t)
  <2>1. CASE Alive
    <3> DEFINE r == task[t]
    <3>1. r \in Checked /\ (r.root = epoch \/ r.raced)
      BY <1>5 DEF GrantToken, TasksSound, Sound
    <3>2. Grant(r, Others(t) # {}) /\ epoch' = epoch /\ lark' = lark
          /\ task' = [task EXCEPT ![t] = [at |-> "answer", token |-> clock]]
      BY <1>5, <2>1 DEF GrantToken
    <3>3. SessionSound'
      <4> DEFINE d == Others(t) # {}
      <4>1. Grant(r, d)
        BY <3>2
      <4> HIDE DEF r, d
      <4> QED
        BY <3>1, <3>2, <4>1, GrantSound
    <3>4. TasksSound'
      BY <3>2, PlainSound, OneTask
    <3> QED
      BY <3>2, <3>3, <3>4, <1>k
  <2>2. CASE ~Alive
    BY <1>5, <2>2, PlainSound, <1>0, <1>k DEF GrantToken, Answered
  <2> QED
    BY <2>1, <2>2
<1>6. CASE SetCookies(t)
  BY <1>6, PlainSound, <1>0, <1>k DEF SetCookies, Answered
<1>7. CASE Logout(t)
  <2>1. CASE Alive
    <3>1. Revoke(task)
      BY <1>7, <2>1 DEF Logout
    <3>2. \A u \in Tabs : Sound(task[u], epoch)
      BY DEF TasksSound
    <3> QED
      BY <3>1, <3>2, RevokeSound
  <2>2. CASE ~Alive
    BY <1>7, <2>2, <1>k DEF Logout, TasksSound, Sound, SessionSound, RevokedStaysOut, NoSession
  <2> QED
    BY <2>1, <2>2
<1>8. CASE SetPassword(t)
  <2>1. CASE Alive
    <3> DEFINE tasks == Answered(t)
    <3>1. Revoke(tasks)
      BY <1>8, <2>1 DEF SetPassword
    <3>2. \A u \in Tabs : Sound(tasks[u], epoch)
      BY PlainSound DEF TasksSound, Answered
    <3> HIDE DEF tasks
    <3> QED
      BY <3>1, <3>2, RevokeSound
  <2>2. CASE ~Alive
    BY <1>8, <2>2, PlainSound, <1>0, <1>k DEF SetPassword, Answered
  <2> QED
    BY <2>1, <2>2
<1>9. CASE LarkCallback(t)
  <2>1. Sound(lark, epoch)'
    <3>1. lark' = [at |-> "asking"] \/ lark' = lark
      BY <1>9 DEF LarkCallback
    <3>2. epoch' = epoch
      BY <1>9 DEF LarkCallback
    <3> QED
      BY <3>1, <3>2 DEF Sound
  <2> QED
    BY <1>9, <2>1, PlainSound, <1>0 DEF LarkCallback
<1>10. CASE LarkAnswer(t)
  BY <1>10, PlainSound, <1>0, <1>k DEF LarkAnswer, Answered
<1> QED
  BY <1>1, <1>2, <1>3, <1>4, <1>5, <1>6, <1>7, <1>8, <1>9, <1>10

\* The exchange with Lark moves to a sound record.
LEMMA OneLark ==
    ASSUME NEW q, Sound(q, epoch), lark' = q, epoch' = epoch
    PROVE  Sound(lark, epoch)'
<1>1. (q.at = "grant" => q \in Checked /\ (q.root = epoch \/ q.raced))
      /\ (q.at # "grant" => "raced" \notin DOMAIN q)
  BY DEF Sound
<1>2. Sound(lark, epoch)' <=> /\ lark'.at = "grant" =>
                                   lark' \in Checked /\ (lark'.root = epoch' \/ lark'.raced)
                              /\ lark'.at # "grant" => "raced" \notin DOMAIN lark'
  BY DEF Sound, Checked
<1> QED
  BY <1>1, <1>2

\* The exchange with Lark keeps it.
LEMMA RevocationLark ==
    ASSUME MaxEpoch \in Nat, RevocationInv, LarkRead \/ LarkFail \/ LarkGrant \/ LarkForget
    PROVE  RevocationInv'
<1> USE DEF RevocationInv
<1>1. epoch' = epoch /\ task' = task
  BY DEF LarkRead, LarkFail, LarkGrant, LarkForget
<1>2. TasksSound'
  BY <1>1 DEF TasksSound, Sound
<1>3. CASE LarkRead \/ LarkFail \/ LarkForget
  <2>1. session' = session
    BY <1>3 DEF LarkRead, LarkFail, LarkForget
  <2>2. lark' \in {Passed("grant", epoch), [at |-> "refused"], Idle}
    BY <1>3 DEF LarkRead, LarkFail, LarkForget
  <2>3. Sound(lark, epoch)'
    <3>1. /\ Sound(Passed("grant", epoch), epoch)
          /\ Sound([at |-> "refused"], epoch)
          /\ Sound(Idle, epoch)
      BY PassedSound, PlainSound
    <3>2. PICK q \in {Passed("grant", epoch), [at |-> "refused"], Idle} : lark' = q
      BY <2>2
    <3>3. Sound(q, epoch)
      BY <3>1
    <3> QED
      BY <3>2, <3>3, <1>1, OneLark
  <2>4. SessionSound'
    BY <2>1, <1>1 DEF SessionSound, RevokedStaysOut, NoSession
  <2> QED
    BY <1>1, <1>2, <2>3, <2>4
<1>4. CASE LarkGrant
  <2>1. Sound(lark, epoch)'
    <3>1. /\ Sound([at |-> "granted", token |-> clock], epoch)
          /\ Sound([at |-> "refused"], epoch)
      BY PlainSound
    <3>2. lark' = [at |-> "granted", token |-> clock] \/ lark' = [at |-> "refused"]
      BY <1>4 DEF LarkGrant
    <3> QED
      BY <3>1, <3>2, <1>1, OneLark
  <2>2. lark \in Checked /\ (lark.root = epoch \/ lark.raced)
    BY <1>4 DEF LarkGrant, Sound
  <2>3. SessionSound'
    <3>1. CASE Alive
      <4> DEFINE d == \E t \in Tabs : task[t].at \notin {"idle", "lark"}
      <4>1. Grant(lark, d)
        BY <1>4, <3>1 DEF LarkGrant
      <4> HIDE DEF d
      <4> QED
        BY <2>2, <4>1, <1>1, GrantSound
    <3>2. CASE ~Alive
      BY <1>4, <3>2, <1>1 DEF LarkGrant, SessionSound, RevokedStaysOut, NoSession
    <3> QED
      BY <3>1, <3>2
  <2> QED
    BY <1>1, <1>2, <2>1, <2>3
<1> QED
  BY <1>3, <1>4

\* What is left changes neither checks nor epoch, and the session only by
\* deleting the account.
LEMMA RevocationRest ==
    ASSUME MaxEpoch \in Nat, RevocationInv, epoch' = epoch, task' = task, lark' = lark,
           session' \in {session, NoSession}
    PROVE  RevocationInv'
<1> USE DEF RevocationInv
<1>1. Sound(lark, epoch)'
  BY OneLark
<1>2. TasksSound'
  BY DEF TasksSound, Sound
<1>3. SessionSound'
  <2>1. CASE session' = session
    BY <2>1 DEF SessionSound, RevokedStaysOut, NoSession
  <2>2. CASE session' = NoSession
    BY <2>2 DEF SessionSound, RevokedStaysOut, NoSession
  <2> QED
    BY <2>1, <2>2
<1> QED
  BY <1>1, <1>2, <1>3

\* For any tabs and any number of revocations, a session that can be renewed
\* comes from a login after the last one, or from one it overtook between
\* check and write.  auth.service.ts:293,329, profile.service.ts:85.
THEOREM RevocationHolds ==
    ASSUME MaxEpoch \in Nat
    PROVE  Spec => []RevokedStaysOut
<1>1. Init => RevocationInv
  BY RevocationInit
<1>2. RevocationInv /\ [Next]_sessionVars => RevocationInv'
  <2> SUFFICES ASSUME RevocationInv, [Next]_sessionVars PROVE RevocationInv'
    OBVIOUS
  <2>1. CASE UNCHANGED sessionVars
    BY <2>1, RevocationRest DEF sessionVars
  <2>2. ASSUME NEW p \in Passwords, Register(p) PROVE RevocationInv'
    BY <2>2, RevocationRest DEF Register
  <2>3. ASSUME NEW t \in Tabs, NEW p \in Passwords,
               LoginCheck(t, p) \/ ResetCheck(t, p) \/ ChangeCheck(t, p)
        PROVE  RevocationInv'
    BY <2>3, RevocationTab
  <2>4. ASSUME NEW t \in Tabs,
               \/ RefreshCheck(t) \/ GrantToken(t) \/ SetCookies(t) \/ Logout(t)
               \/ SetPassword(t) \/ LarkCallback(t) \/ LarkAnswer(t)
        PROVE  RevocationInv'
    BY <2>4, RevocationTab
  <2>5. ASSUME NEW b \in Browsers, LarkLogin(b) PROVE RevocationInv'
    BY <2>5, RevocationRest DEF LarkLogin
  <2>6. CASE LarkRead \/ LarkFail \/ LarkGrant \/ LarkForget
    BY <2>6, RevocationLark
  <2>7. CASE ForgotPassword \/ OtpExpires \/ Approve \/ SetActive \/ RejectCheck \/ Second
    BY <2>7, RevocationRest
       DEF ForgotPassword, OtpExpires, Approve, SetActive, RejectCheck, Second
  <2>8. ASSUME NEW referred \in BOOLEAN, RejectDelete(referred) PROVE RevocationInv'
    BY <2>8, RevocationRest DEF RejectDelete
  <2> QED
    BY <2>1, <2>2, <2>3, <2>4, <2>5, <2>6, <2>7, <2>8 DEF Next
<1>3. RevocationInv => RevokedStaysOut
  BY DEF RevocationInv, SessionSound
<1> QED
  BY <1>1, <1>2, <1>3, PTL DEF Spec

----------------------------------------------------------------------------
(* The rejection in flight knows of an approval that came too late for it. *)

AccountFields == {"at", "approved", "active", "password", "linked", "otp"}

RejectionInv ==
    /\ DOMAIN account = AccountFields
    /\ admin \in [at : {"idle", "delete"}, overlap : BOOLEAN]
    /\ (admin.at = "delete" /\ account.approved) => admin.overlap
    /\ DeletedWasPending

\* As long as nothing deletes, approves or rejects, the invariant stays.
LEMMA RejectionRest ==
    ASSUME RejectionInv, admin' = admin, DOMAIN account' = AccountFields,
           account'.approved = account.approved,
           account'.at = account.at \/ account'.at = "there"
    PROVE  RejectionInv'
BY DEF RejectionInv, DeletedWasPending

\* An approved account is deleted only when the approval came between the two
\* statements of rejectUser.  users.service.ts:229.
THEOREM ApprovedStays == Spec => []DeletedWasPending
<1>1. Init => RejectionInv
  BY DEF Init, RejectionInv, AccountFields, NoRejection, DeletedWasPending
<1>2. RejectionInv /\ [Next]_sessionVars => RejectionInv'
  <2> SUFFICES ASSUME RejectionInv, [Next]_sessionVars PROVE RejectionInv'
    OBVIOUS
  <2>0. DOMAIN account = AccountFields
    BY DEF RejectionInv
  <2>1. CASE UNCHANGED <<account, admin>>
    BY <2>1, <2>0, RejectionRest
  <2>2. ASSUME NEW p \in Passwords, Register(p) PROVE RejectionInv'
    BY <2>2, <2>0, RejectionRest DEF Register, AccountFields
  <2>3. CASE SetActive \/ ForgotPassword \/ OtpExpires
    BY <2>3, <2>0, RejectionRest DEF SetActive, ForgotPassword, OtpExpires, AccountFields
  <2>4. ASSUME NEW t \in Tabs, SetPassword(t) PROVE RejectionInv'
    BY <2>4, <2>0, RejectionRest DEF SetPassword, AccountFields
  <2>5. CASE LarkRead
    BY <2>5, <2>0, RejectionRest DEF LarkRead, AccountFields
  <2>6. CASE Approve
    BY <2>6 DEF Approve, RejectionInv, DeletedWasPending, AccountFields, Alive
  <2>7. CASE RejectCheck
    BY <2>7 DEF RejectCheck, MayReject, Alive, RejectionInv, DeletedWasPending
  <2>8. ASSUME NEW referred \in BOOLEAN, RejectDelete(referred) PROVE RejectionInv'
    BY <2>8 DEF RejectDelete, RejectionInv, DeletedWasPending, AccountFields
  <2>9. ASSUME NEW t \in Tabs, NEW p \in Passwords,
               LoginCheck(t, p) \/ ResetCheck(t, p) \/ ChangeCheck(t, p)
        PROVE  UNCHANGED <<account, admin>>
    BY <2>9 DEF LoginCheck, ResetCheck, ChangeCheck
  <2>10. ASSUME NEW t \in Tabs,
                \/ RefreshCheck(t) \/ GrantToken(t) \/ SetCookies(t) \/ Logout(t)
                \/ LarkCallback(t) \/ LarkAnswer(t)
         PROVE  UNCHANGED <<account, admin>>
    BY <2>10 DEF RefreshCheck, GrantToken, SetCookies, Logout, LarkCallback, LarkAnswer
  <2>11. ASSUME NEW b \in Browsers, LarkLogin(b) PROVE UNCHANGED <<account, admin>>
    BY <2>11 DEF LarkLogin
  <2>12. CASE LarkFail \/ LarkGrant \/ LarkForget \/ Second \/ UNCHANGED sessionVars
    BY <2>1, <2>12 DEF LarkFail, LarkGrant, LarkForget, Second, sessionVars
  <2> QED
    BY <2>1, <2>2, <2>3, <2>4, <2>5, <2>6, <2>7, <2>8, <2>9, <2>10, <2>11, <2>12 DEF Next
<1>3. RejectionInv => DeletedWasPending
  BY DEF RejectionInv
<1> QED
  BY <1>1, <1>2, <1>3, PTL DEF Spec
=============================================================================
