------------------------------ MODULE Sessions ------------------------------
(***************************************************************************)
(* One account and its sessions: auth.service.ts, auth.controller.ts,      *)
(* changePassword of profile.service.ts, and what an Admin does to an      *)
(* account in users.service.ts.                                            *)
(*                                                                         *)
(* The account has one refreshTokenHash, so one session that can be        *)
(* renewed.  A login reads the account, compares the password (slowly) and *)
(* writes the new hash unconditionally.  A token is signed from the        *)
(* account and the second of its issue and nothing else: two tokens of one *)
(* second are the same, and a token stands here for its second.            *)
(***************************************************************************)
EXTENDS Naturals

CONSTANTS Tabs, BrowserOf,   \* the tabs, and the browser whose cookies they share
          Passwords, NoPassword,
          MaxClock,          \* bound: seconds
          MaxEpoch           \* bound: revocations

Browsers == {BrowserOf[t] : t \in Tabs}
NoToken == MaxClock + 1

VARIABLES clock,     \* the second
          account,   \* the row of the account
          session,   \* refreshTokenHash, with history: the epoch of the login
                     \* it goes back to, whether a revocation came between the
                     \* check and the write (raced), and whether its browser
                     \* had another request in flight (doubled)
          epoch,     \* how many times the session was revoked
          cookie,    \* per browser, the refresh token it holds
          oauth,     \* per browser, whether it holds the state cookie of Lark
          task,      \* per tab, its request in flight
          lark,      \* the exchange of the one Lark code, as larkCodeCache keeps it
          admin      \* the rejectUser in flight

sessionVars == <<clock, account, session, epoch, cookie, oauth, task, lark, admin>>

----------------------------------------------------------------------------
NoSession == [token |-> NoToken, root |-> MaxEpoch + 1, raced |-> FALSE, doubled |-> FALSE]
Idle == [at |-> "idle"]
NoRejection == [at |-> "idle", overlap |-> FALSE]

Alive == account.at = "there"
MayEnter == Alive /\ account.approved /\ account.active

\* A check that was passed; raced becomes TRUE when a revocation overtakes it.
Passed(next, root) == [at |-> next, root |-> root, raced |-> FALSE]

Overtaken(r) == IF "raced" \in DOMAIN r THEN [r EXCEPT !.raced = TRUE] ELSE r

\* The other requests of the same browser.
Others(t) == {u \in Tabs \ {t} : BrowserOf[u] = BrowserOf[t] /\ task[u].at # "idle"}

\* updateRefreshTokenHash with the token of this second.
Grant(r, doubled) ==
    session' = [token |-> clock, root |-> r.root, raced |-> r.raced, doubled |-> doubled]

\* mutant: the session outlives the new password.
KeepSession(tasks) ==
    /\ epoch < MaxEpoch
    /\ epoch' = epoch + 1
    /\ task' = [t \in Tabs |-> Overtaken(tasks[t])]
    /\ lark' = Overtaken(lark)
    /\ UNCHANGED session

\* refreshTokenHash = null, and what it means for requests in flight.
Revoke(tasks) ==
    /\ epoch < MaxEpoch
    /\ epoch' = epoch + 1
    /\ session' = NoSession
    /\ task' = [t \in Tabs |-> Overtaken(tasks[t])]
    /\ lark' = Overtaken(lark)

Answered(t) == [task EXCEPT ![t] = Idle]

Init ==
    /\ clock = 0 /\ epoch = 0
    /\ account = [at |-> "none", approved |-> FALSE, active |-> TRUE,
                  password |-> NoPassword, linked |-> FALSE, otp |-> "none"]
    /\ session = NoSession
    /\ cookie = [b \in Browsers |-> NoToken]
    /\ oauth = [b \in Browsers |-> FALSE]
    /\ task = [t \in Tabs |-> Idle]
    /\ lark = Idle /\ admin = NoRejection

----------------------------------------------------------------------------
(* Accounts.                                                               *)

\* register; the unique e-mail makes a second one fail.  After a deletion a
\* registration makes a new account, which is not this one.
Register(password) ==
    /\ account.at = "none"
    /\ account' = [account EXCEPT !.at = "there", !.password = password]
    /\ UNCHANGED <<clock, session, epoch, cookie, oauth, task, lark, admin>>

\* approveUser looks only whether the account is there.
Approve ==
    /\ Alive /\ ~account.approved
    /\ account' = [account EXCEPT !.approved = TRUE]
    /\ admin' = IF admin.at = "delete" THEN [admin EXCEPT !.overlap = TRUE] ELSE admin
    /\ UNCHANGED <<clock, session, epoch, cookie, oauth, task, lark>>

\* setActive.  The session stays stored: refreshTokens looks at isActive.
SetActive ==
    /\ Alive
    /\ account' = [account EXCEPT !.active = ~@]
    /\ UNCHANGED <<clock, session, epoch, cookie, oauth, task, lark, admin>>

\* mutant: approved accounts can be rejected as well.
MayRejectAny == Alive

MayReject == Alive /\ ~account.approved

RejectCheck ==
    /\ admin.at = "idle"
    /\ MayReject
    /\ admin' = [at |-> "delete", overlap |-> FALSE]
    /\ UNCHANGED <<clock, account, session, epoch, cookie, oauth, task, lark>>

\* The delete is refused when rows of other tables refer to the account.
RejectDelete(referred) ==
    /\ admin.at = "delete"
    /\ referred => account.approved
    /\ admin' = [admin EXCEPT !.at = "idle"]
    /\ IF referred THEN UNCHANGED <<account, session>>
       ELSE account' = [account EXCEPT !.at = "deleted"] /\ session' = NoSession
    /\ UNCHANGED <<clock, epoch, cookie, oauth, task, lark>>

----------------------------------------------------------------------------
(* login, refresh and logout.                                              *)

LoginCheck(t, password) ==
    /\ task[t].at = "idle"
    /\ MayEnter /\ account.password # NoPassword /\ account.password = password
    /\ task' = [task EXCEPT ![t] = Passed("grant", epoch)]
    /\ UNCHANGED <<clock, account, session, epoch, cookie, oauth, lark, admin>>

\* mutant: the stored hash is not looked at.
AnyToken(t) == TRUE

TokenMatches(t) == session # NoSession /\ cookie[BrowserOf[t]] = session.token

RefreshCheck(t) ==
    /\ task[t].at = "idle"
    /\ cookie[BrowserOf[t]] # NoToken
    /\ MayEnter
    /\ TokenMatches(t)
    /\ task' = [task EXCEPT ![t] =
           [Passed("grant", session.root) EXCEPT !.raced = session.raced]]
    /\ UNCHANGED <<clock, account, session, epoch, cookie, oauth, lark, admin>>

\* generateTokens and the write, by login and refreshTokens alike.
GrantToken(t) ==
    /\ task[t].at = "grant"
    /\ IF Alive
       THEN /\ Grant(task[t], Others(t) # {})
            /\ task' = [task EXCEPT ![t] = [at |-> "answer", token |-> clock]]
       ELSE task' = Answered(t) /\ UNCHANGED session
    /\ UNCHANGED <<clock, account, epoch, cookie, oauth, lark, admin>>

\* mutant: the new token is answered in the body only.
BodyOnly(t) ==
    /\ task[t].at = "answer"
    /\ task' = Answered(t)
    /\ UNCHANGED <<clock, account, session, epoch, cookie, oauth, lark, admin>>

\* setAuthCookies reaches the browser.
SetCookies(t) ==
    /\ task[t].at = "answer"
    /\ cookie' = [cookie EXCEPT ![BrowserOf[t]] = task[t].token]
    /\ task' = Answered(t)
    /\ UNCHANGED <<clock, account, session, epoch, oauth, lark, admin>>

\* Any refresh token that was ever signed revokes the session there is now.
Logout(t) ==
    /\ task[t].at = "idle"
    /\ cookie[BrowserOf[t]] # NoToken
    /\ cookie' = [cookie EXCEPT ![BrowserOf[t]] = NoToken]
    /\ IF Alive THEN Revoke(task) ELSE UNCHANGED <<epoch, session, task, lark>>
    /\ UNCHANGED <<clock, account, oauth, admin>>

----------------------------------------------------------------------------
(* Passwords.                                                              *)

ForgotPassword ==
    /\ Alive
    /\ account' = [account EXCEPT !.otp = "sent"]
    /\ UNCHANGED <<clock, session, epoch, cookie, oauth, task, lark, admin>>

OtpExpires ==
    /\ account.otp = "sent"
    /\ account' = [account EXCEPT !.otp = "expired"]
    /\ UNCHANGED <<clock, session, epoch, cookie, oauth, task, lark, admin>>

\* The check of resetPassword, by the holder of the mail.
ResetCheck(t, password) ==
    /\ task[t].at = "idle"
    /\ Alive /\ account.otp = "sent"
    /\ task' = [task EXCEPT ![t] = [at |-> "password", new |-> password]]
    /\ UNCHANGED <<clock, account, session, epoch, cookie, oauth, lark, admin>>

\* The check of changePassword.
ChangeCheck(t, password) ==
    /\ task[t].at = "idle"
    /\ cookie[BrowserOf[t]] # NoToken
    /\ MayEnter /\ account.password # NoPassword /\ account.password # password
    /\ task' = [task EXCEPT ![t] = [at |-> "password", new |-> password]]
    /\ UNCHANGED <<clock, account, session, epoch, cookie, oauth, lark, admin>>

\* The write of either: one statement.
SetPassword(t) ==
    /\ task[t].at = "password"
    /\ IF Alive
       THEN /\ account' = [account EXCEPT !.password = task[t].new, !.otp = "none"]
            /\ Revoke(Answered(t))
       ELSE task' = Answered(t) /\ UNCHANGED <<account, session, epoch, lark>>
    /\ UNCHANGED <<clock, cookie, oauth, admin>>

----------------------------------------------------------------------------
(* Lark.  A code is exchanged once; every callback with it waits for the   *)
(* same promise.                                                           *)

\* larkLogin.
LarkLogin(b) ==
    /\ lark.at = "idle"
    /\ ~oauth[b]
    /\ oauth' = [oauth EXCEPT ![b] = TRUE]
    /\ UNCHANGED <<clock, account, session, epoch, cookie, task, lark, admin>>

\* larkCallback and loginWithLark.
LarkCallback(t) ==
    /\ task[t].at = "idle"
    /\ oauth[BrowserOf[t]]
    /\ task' = [task EXCEPT ![t] = [at |-> "lark"]]
    /\ lark' = IF lark.at = "idle" THEN [at |-> "asking"] ELSE lark
    /\ UNCHANGED <<clock, account, session, epoch, cookie, oauth, admin>>

\* By larkOpenId, else by e-mail when the account has no password.
LarkKnows == Alive /\ (account.linked \/ account.password = NoPassword)

\* exchangeLarkCode up to its last check.
LarkRead ==
    /\ lark.at = "asking"
    /\ account' = CASE LarkKnows -> [account EXCEPT !.linked = TRUE]
                    [] account.at = "none" -> [account EXCEPT !.at = "there", !.linked = TRUE]
                    [] OTHER -> account
    /\ lark' = IF LarkKnows /\ MayEnter THEN Passed("grant", epoch) ELSE [at |-> "refused"]
    /\ UNCHANGED <<clock, session, epoch, cookie, oauth, task, admin>>

\* Lark refuses the code.
LarkFail ==
    /\ lark.at = "asking"
    /\ lark' = [at |-> "refused"]
    /\ UNCHANGED <<clock, account, session, epoch, cookie, oauth, task, admin>>

\* Any tab with a request of its own in flight counts as doubled.
LarkGrant ==
    /\ lark.at = "grant"
    /\ IF Alive
       THEN /\ Grant(lark, \E t \in Tabs : task[t].at \notin {"idle", "lark"})
            /\ lark' = [at |-> "granted", token |-> clock]
       ELSE lark' = [at |-> "refused"] /\ UNCHANGED session
    /\ UNCHANGED <<clock, account, epoch, cookie, oauth, task, admin>>

\* The callback answers: the state cookie goes, the session cookies come.
LarkAnswer(t) ==
    /\ task[t].at = "lark"
    /\ lark.at \in {"granted", "refused"}
    /\ task' = Answered(t)
    /\ oauth' = [oauth EXCEPT ![BrowserOf[t]] = FALSE]
    /\ cookie' = IF lark.at = "granted"
                 THEN [cookie EXCEPT ![BrowserOf[t]] = lark.token] ELSE cookie
    /\ UNCHANGED <<clock, account, session, epoch, lark, admin>>

\* 120 seconds later; the next login with Lark has another code.
LarkForget ==
    /\ lark.at \in {"granted", "refused"}
    /\ \A t \in Tabs : task[t].at # "lark"
    /\ lark' = Idle
    /\ UNCHANGED <<clock, account, session, epoch, cookie, oauth, task, admin>>

Second ==
    /\ clock < MaxClock
    /\ clock' = clock + 1
    /\ UNCHANGED <<account, session, epoch, cookie, oauth, task, lark, admin>>

Next ==
    \/ \E p \in Passwords :
        \/ Register(p)
        \/ \E t \in Tabs : LoginCheck(t, p) \/ ResetCheck(t, p) \/ ChangeCheck(t, p)
    \/ \E t \in Tabs :
        \/ RefreshCheck(t) \/ GrantToken(t) \/ SetCookies(t) \/ Logout(t)
        \/ SetPassword(t) \/ LarkCallback(t) \/ LarkAnswer(t)
    \/ \E b \in Browsers : LarkLogin(b)
    \/ LarkRead \/ LarkFail \/ LarkGrant \/ LarkForget
    \/ ForgotPassword \/ OtpExpires
    \/ Approve \/ SetActive \/ RejectCheck
    \/ \E referred \in BOOLEAN : RejectDelete(referred)
    \/ Second

Spec == Init /\ [][Next]_sessionVars

----------------------------------------------------------------------------
\* A session that can be renewed goes back, through all its refreshes, to a
\* login made after the last revocation (logout, a new password), or to one
\* that was between its check and its write when the revocation came: such a
\* login survives it.  auth.service.ts:293,321,329,336,497, profile.service.ts:85.
RevokedStaysOut ==
    session # NoSession => session.root = epoch \/ session.raced

\* A browser holds the token of the session, unless another of its requests
\* was in flight when the token was written: two tabs that refresh at once
\* may leave the browser with the token that lost.  auth.service.ts:329.
BrowserStaysIn ==
    (session # NoSession /\ ~session.doubled /\ \A t \in Tabs : task[t].at = "idle") =>
        \E b \in Browsers : cookie[b] = session.token

\* An account that was approved disappears only if the approval came between
\* the two statements of rejectUser.  users.service.ts:229.
DeletedWasPending ==
    (account.at = "deleted" /\ account.approved) => admin.overlap
=============================================================================
