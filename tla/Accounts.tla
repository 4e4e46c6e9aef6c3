------------------------------ MODULE Accounts ------------------------------
(***************************************************************************)
(* One person's account: the password and the links that reset it, the     *)
(* sessions, suspension, and the second factor with its backup codes.      *)
(*                                                                         *)
(* Every request is a series of statements, each of them a transaction of  *)
(* its own (but for the replacement of the backup codes), and the slow     *)
(* hashing of passwords lies between them.  What expires may do so at any  *)
(* time; wrong passwords and wrong codes change nothing here.              *)
(***************************************************************************)
EXTENDS Integers, FiniteSets

CONSTANTS
    Requests,     \* requests in flight at a time
    MaxBegun,     \* bound: requests begun
    MaxPassword,  \* bound: changes of the password
    MaxIds,       \* bound: sessions at a time; pending sign-ins, links, secrets, sets of codes made
    None

ASSUME BoundsAssumption == MaxBegun \in Nat /\ MaxPassword \in Nat /\ MaxIds \in Nat \ {0}
ASSUME NoneAssumption == None \notin Int

VARIABLES
    password,   \* users.password_hash: which password, by number
    links,      \* email_tokens: the reset links that are not used
    sessions,   \* sessions
    pending,    \* mfa_pending_logins
    suspended,  \* account_suspensions
    totp,       \* users.totp_secret_enc and totp_enabled_at
    codes,      \* the sets of backup codes that are not used (a set has one code)
    made,       \* links, pending sign-ins, secrets, sets of codes made so far
    req,        \* [Requests -> a request in flight]
    begun,      \* requests begun
    settled,    \* history: the last password whose change has ended the sessions
    cleared,    \* history: has the suspension in force ended the sessions?
    uses,       \* history: how often each link, pending sign-in, backup code was good
    confirmed   \* history: secrets confirmed with a code

vars == <<password, links, sessions, pending, suspended, totp, codes, made, req, begun,
          settled, cleared, uses, confirmed>>
history == <<settled, cleared, uses, confirmed>>

Ids == 1 .. MaxIds
Passwords == 0 .. MaxPassword

\* When a sign-in began is told by the change of password that was settled then.
Session ==
    [id : Ids, pwd : Passwords, since : Passwords, opened : Passwords, kept : Passwords,
     handed : BOOLEAN, second : BOOLEAN]
Pending == [id : Ids, pwd : Passwords, since : Passwords]

Request ==
    [pc : {"idle", "session", "suspended", "factor", "discard", "pend",
           "code", "spend", "check", "open",
           "write", "mark", "markAll", "clear", "evict",
           "secret", "off", "begin", "replace"},
     kind : {"signin", "verify", "reset", "change", "suspend",
             "setup", "confirm", "disable", "regenerate"},
     pwd : Passwords,          \* the password checked, or written
     since : Passwords,        \* the password settled when the sign-in began
     id : Ids \cup {None},     \* the session, pending sign-in, link or secret at hand
     code : Ids \cup {None},   \* the backup code used
     again : BOOLEAN,          \* is a second factor asked for once the session is gone?
     sees : SUBSET Ids]        \* the backup codes an open transaction has deleted

Idle == [pc |-> "idle", kind |-> "signin", pwd |-> 0, since |-> 0, id |-> None,
         code |-> None, again |-> FALSE, sees |-> {}]

Becomes(r, q) == req' = [req EXCEPT ![r] = q]

\* A request begins, its first statement done.
Begins(r, q) ==
    /\ req[r].pc = "idle" /\ begun < MaxBegun
    /\ begun' = begun + 1
    /\ Becomes(r, q)

\* The ids that a new session may have: none that a session or a request has.
Free == Ids \ ({s.id : s \in sessions} \cup {req[r].id : r \in Requests})
NewId == CHOOSE i \in Free : \A j \in Free : i <= j

Kinds == {"link", "pending", "secret", "codes"}
Makes(k) == made[k] < MaxIds /\ made' = [made EXCEPT ![k] = @ + 1]
Once == {"link", "pending", "code"}
Uses(k, i) == uses' = [uses EXCEPT ![<<k, i>>] = @ + 1]

\* The person is signed in, with or without a second factor.
Init ==
    /\ password = 0 /\ links = {} /\ pending = {} /\ suspended = FALSE
    /\ sessions = {[id |-> 1, pwd |-> 0, since |-> 0, opened |-> 0, kept |-> 0,
                    handed |-> TRUE, second |-> FALSE]}
    /\ \/ totp = [secret |-> None, on |-> FALSE] /\ codes = {} /\ confirmed = {}
       \/ totp = [secret |-> 1, on |-> TRUE] /\ codes = {1} /\ confirmed = {1}
    /\ made = [k \in Kinds |-> IF totp.on /\ k \in {"secret", "codes"} THEN 1 ELSE 0]
    /\ req = [r \in Requests |-> Idle] /\ begun = 0
    /\ settled = 0 /\ cleared = FALSE /\ uses = [x \in Once \X Ids |-> 0]

----------------------------------------------------------------------------
(* Signing in: signIn and signInHandler.                                   *)

\* The account is read; the password given is the one read.
SignIn(r) ==
    /\ Begins(r, [Idle EXCEPT !.pc = "session", !.pwd = password, !.since = settled])
    /\ UNCHANGED <<password, links, sessions, pending, suspended, totp, codes, made,
                   history>>

Opened(q, second) ==
    [id |-> NewId, pwd |-> q.pwd, since |-> q.since, opened |-> settled,
     kept |-> 0, handed |-> second, second |-> second]

Held(q) == [q EXCEPT !.pc = "suspended", !.id = NewId]

createSession(r) ==
    LET q == req[r] IN
    /\ q.pc = "session" /\ Free # {}
    /\ sessions' = sessions \cup {Opened(q, FALSE)}
    /\ Becomes(r, Held(q))
    /\ UNCHANGED <<password, links, pending, suspended, totp, codes, made, begun, history>>

\* Variant: suspension is not looked at once the password is right.
SuspendedBefore == FALSE

isUserSuspended == suspended

CheckSuspended(r) ==
    LET q == req[r] IN
    /\ q.pc = "suspended"
    /\ Becomes(r, [q EXCEPT !.pc = IF isUserSuspended THEN "discard" ELSE "factor"])
    /\ UNCHANGED <<password, links, sessions, pending, suspended, totp, codes, made, begun, history>>

\* Without a second factor the session is handed out; else it is thrown away, and a
\* pending sign-in takes its place.
CheckFactor(r) ==
    LET q == req[r] IN
    /\ q.pc = "factor"
    /\ IF totp.on
       THEN Becomes(r, [q EXCEPT !.pc = "discard", !.again = TRUE]) /\ UNCHANGED sessions
       ELSE /\ sessions' = {IF s.id = q.id THEN [s EXCEPT !.handed = TRUE] ELSE s : s \in sessions}
            /\ Becomes(r, Idle)
    /\ UNCHANGED <<password, links, pending, suspended, totp, codes, made, begun, history>>

Discard(r) ==
    LET q == req[r] IN
    /\ q.pc = "discard"
    /\ sessions' = {s \in sessions : s.id # q.id}
    /\ Becomes(r, IF q.again THEN [q EXCEPT !.pc = "pend", !.id = None] ELSE Idle)
    /\ UNCHANGED <<password, links, pending, suspended, totp, codes, made, begun, history>>

createPendingLogin(r) ==
    LET q == req[r] IN
    /\ q.pc = "pend" /\ Makes("pending")
    /\ pending' = pending \cup {[id |-> made'["pending"], pwd |-> q.pwd, since |-> q.since]}
    /\ Becomes(r, Idle)
    /\ UNCHANGED <<password, links, sessions, suspended, totp, codes, begun, history>>

----------------------------------------------------------------------------
(* The second step: twoFactorVerifyHandler.                                *)

\* Variant: the pending sign-in is looked up and left where it is.
Unclaimed(p) == pending

Claimed(p) == pending \ {p}

claimPendingLogin(r) ==
    /\ \E p \in pending :
        /\ pending' = Claimed(p)
        /\ Begins(r, [Idle EXCEPT !.pc = "code", !.kind = "verify", !.id = p.id,
                                  !.pwd = p.pwd, !.since = p.since])
    /\ UNCHANGED <<password, links, sessions, suspended, totp, codes, made,
                   history>>

\* Where a request goes on once the code it was given is right.
AfterCode(q) ==
    [q EXCEPT !.pc = CASE q.kind = "verify"     -> "check"
                       [] q.kind = "disable"    -> "off"
                       [] q.kind = "regenerate" -> "begin"]

\* verifyCode: a code of the authenticator, a backup code, or neither.
verifyCode(r) ==
    LET q == req[r] IN
    /\ q.pc = "code"
    /\ \/ totp.on /\ totp.secret # None /\ Becomes(r, AfterCode(q))
       \/ totp.on /\ totp.secret # None /\ \E c \in 1 .. made["codes"] :
             Becomes(r, [q EXCEPT !.pc = "spend", !.code = c])
       \/ Becomes(r, Idle)
    /\ UNCHANGED <<password, links, sessions, pending, suspended, totp, codes, made, begun, history>>

\* Variant: a code is not looked at for having been used.
EverMade(c) == c <= made["codes"]

Unused(c) == c \in codes

\* UPDATE ... WHERE used_at IS NULL: waits for a transaction that is deleting the code.
Spend(r) ==
    LET q == req[r] IN
    /\ q.pc = "spend"
    /\ \A o \in Requests : req[o].pc = "replace" => q.code \notin req[o].sees
    /\ IF Unused(q.code)
       THEN codes' = codes \ {q.code} /\ Becomes(r, AfterCode(q)) /\ Uses("code", q.code)
       ELSE Becomes(r, Idle) /\ UNCHANGED <<codes, uses>>
    /\ UNCHANGED <<password, links, sessions, pending, suspended, totp, made, begun,
                   settled, cleared, confirmed>>

CheckUser(r) ==
    LET q == req[r] IN
    /\ q.pc = "check"
    /\ Becomes(r, IF isUserSuspended THEN Idle ELSE [q EXCEPT !.pc = "open"])
    /\ UNCHANGED <<password, links, sessions, pending, suspended, totp, codes, made, begun, history>>

createSessionForVerifiedUser(r) ==
    LET q == req[r] IN
    /\ q.pc = "open" /\ Free # {}
    /\ sessions' = sessions \cup {Opened(q, TRUE)}
    /\ Uses("pending", q.id)
    /\ Becomes(r, Idle)
    /\ UNCHANGED <<password, links, pending, suspended, totp, codes, made, begun,
                   settled, cleared, confirmed>>

----------------------------------------------------------------------------
(* The password: confirmPasswordReset and updatePassword.                  *)

\* requireAuth: s is the caller's session.
SignedIn(s) == s \in sessions /\ s.handed /\ ~suspended

requestPasswordReset ==
    /\ Makes("link")
    /\ links' = links \cup {made'["link"]}
    /\ UNCHANGED <<password, sessions, pending, suspended, totp, codes, req, begun, history>>

\* The link is read; the new password is hashed before it is written.
Reset(r) ==
    /\ \E l \in links : Begins(r, [Idle EXCEPT !.pc = "write", !.kind = "reset", !.id = l])
    /\ UNCHANGED <<password, links, sessions, pending, suspended, totp, codes, made, history>>

\* The current password is read and right; the caller's session will be kept.
Change(r) ==
    /\ \E s \in sessions :
        /\ SignedIn(s)
        /\ Begins(r, [Idle EXCEPT !.pc = "write", !.kind = "change", !.id = s.id])
    /\ UNCHANGED <<password, links, sessions, pending, suspended, totp, codes, made, history>>

\* A transaction that turns the second factor on holds the users row.
UsersRowFree == \A o \in Requests : req[o].pc = "replace" => req[o].kind # "confirm"

updateUserPassword(r) ==
    LET q == req[r] IN
    /\ q.pc = "write" /\ UsersRowFree /\ password < MaxPassword
    /\ password' = password + 1
    /\ IF q.kind = "reset"
       THEN Becomes(r, [q EXCEPT !.pc = "mark", !.pwd = password']) /\ Uses("link", q.id)
       ELSE Becomes(r, [q EXCEPT !.pc = "clear", !.pwd = password']) /\ UNCHANGED uses
    /\ UNCHANGED <<links, sessions, pending, suspended, totp, codes, made, begun,
                   settled, cleared, confirmed>>

markResetTokenUsed(r) ==
    LET q == req[r] IN
    /\ q.pc = "mark"
    /\ links' = links \ {q.id}
    /\ Becomes(r, [q EXCEPT !.pc = "markAll", !.id = None])
    /\ UNCHANGED <<password, sessions, pending, suspended, totp, codes, made, begun, history>>

markUnusedResetTokensUsed(r) ==
    LET q == req[r] IN
    /\ q.pc = "markAll"
    /\ links' = {}
    /\ Becomes(r, [q EXCEPT !.pc = "clear"])
    /\ UNCHANGED <<password, sessions, pending, suspended, totp, codes, made, begun, history>>

Larger(a, b) == IF a > b THEN a ELSE b

\* Variant: a reset ends the session with the link's own token, which is none.
KeptByToken(q) == IF q.kind = "reset" THEN sessions ELSE {s \in sessions : s.id = q.id}

\* The sessions that a change of password leaves: the caller's own, if there is one.
Kept(q) == {s \in sessions : s.id = q.id}

deleteSessions(r) ==
    LET q == req[r] IN
    /\ q.pc = "clear"
    /\ sessions' = {IF s.id = q.id THEN [s EXCEPT !.kept = Larger(@, q.pwd)] ELSE s : s \in Kept(q)}
    /\ settled' = Larger(settled, q.pwd)
    /\ Becomes(r, Idle)
    /\ UNCHANGED <<password, links, pending, suspended, totp, codes, made, begun,
                   cleared, uses, confirmed>>

----------------------------------------------------------------------------
(* What ends sessions, links and pending sign-ins besides.                 *)

\* Signed out of, revoked by id, unused for two weeks, or a month old.
SessionEnds ==
    /\ \E s \in sessions : s.handed /\ sessions' = sessions \ {s}
    /\ UNCHANGED <<password, links, pending, suspended, totp, codes, made, req, begun, history>>

\* All the sessions, or all but the caller's.
signOutEverywhere ==
    /\ \E s \in sessions : SignedIn(s) /\ sessions' \in {{}, {s}}
    /\ UNCHANGED <<password, links, pending, suspended, totp, codes, made, req, begun, history>>

Lapses ==
    /\ \/ \E l \in links : links' = links \ {l} /\ UNCHANGED pending
       \/ \E p \in pending : pending' = pending \ {p} /\ UNCHANGED links
    /\ UNCHANGED <<password, sessions, suspended, totp, codes, made, req, begun, history>>

----------------------------------------------------------------------------
(* Suspension, by an administrator.                                        *)

suspendUser(r) ==
    /\ Begins(r, [Idle EXCEPT !.pc = "evict", !.kind = "suspend"])
    /\ suspended' = TRUE
    /\ cleared' = (suspended /\ cleared)
    /\ UNCHANGED <<password, links, sessions, pending, totp, codes, made, settled, uses, confirmed>>

Evict(r) ==
    /\ req[r].pc = "evict"
    /\ sessions' = {} /\ cleared' = suspended
    /\ Becomes(r, Idle)
    /\ UNCHANGED <<password, links, pending, suspended, totp, codes, made, begun,
                   settled, uses, confirmed>>

unsuspendUser ==
    /\ suspended /\ suspended' = FALSE /\ cleared' = FALSE
    /\ UNCHANGED <<password, links, sessions, pending, totp, codes, made, req, begun,
                   settled, uses, confirmed>>

----------------------------------------------------------------------------
(* The second factor: beginSetup, confirmSetup, disable, and               *)
(* regenerateBackupCodes.                                                  *)

SomeoneIn == \E s \in sessions : SignedIn(s)

beginSetup(r) ==
    /\ SomeoneIn /\ ~totp.on
    /\ Begins(r, [Idle EXCEPT !.pc = "secret", !.kind = "setup"])
    /\ UNCHANGED <<password, links, sessions, pending, suspended, totp, codes, made, history>>

StoreSecret(r) ==
    /\ req[r].pc = "secret" /\ UsersRowFree /\ Makes("secret")
    /\ totp' = [totp EXCEPT !.secret = made'["secret"]]
    /\ Becomes(r, Idle)
    /\ UNCHANGED <<password, links, sessions, pending, suspended, codes, begun, history>>

\* The code given fits the secret read.
confirmSetup(r) ==
    /\ SomeoneIn /\ ~totp.on /\ totp.secret # None
    /\ Begins(r, [Idle EXCEPT !.pc = "begin", !.kind = "confirm"])
    /\ confirmed' = confirmed \cup {totp.secret}
    /\ UNCHANGED <<password, links, sessions, pending, suspended, totp, codes, made,
                   settled, cleared, uses>>

disable(r) ==
    /\ SomeoneIn /\ totp.on /\ totp.secret # None
    /\ Begins(r, [Idle EXCEPT !.pc = "code", !.kind = "disable"])
    /\ UNCHANGED <<password, links, sessions, pending, suspended, totp, codes, made, history>>

Off(r) ==
    LET q == req[r] IN
    /\ q.pc = "off" /\ UsersRowFree
    /\ totp' = [secret |-> None, on |-> FALSE]
    /\ Becomes(r, [q EXCEPT !.pc = "begin"])
    /\ UNCHANGED <<password, links, sessions, pending, suspended, codes, made, begun, history>>

regenerateBackupCodes(r) ==
    /\ SomeoneIn /\ totp.on
    /\ Begins(r, [Idle EXCEPT !.pc = "code", !.kind = "regenerate"])
    /\ UNCHANGED <<password, links, sessions, pending, suspended, totp, codes, made, history>>

\* The backup codes there are deleted, in a transaction but for "disable"; those that
\* another transaction puts in meanwhile are not seen.
DeleteCodes(r) ==
    LET q == req[r] IN
    /\ q.pc = "begin"
    /\ q.kind = "confirm" => UsersRowFree
    /\ Becomes(r, [q EXCEPT !.pc = "replace", !.code = None, !.sees = codes])
    /\ UNCHANGED <<password, links, sessions, pending, suspended, totp, codes, made, begun, history>>

\* COMMIT: a new set of codes, and the second factor is on once it is confirmed.
Replace(r) ==
    LET q == req[r] IN
    /\ q.pc = "replace"
    /\ IF q.kind = "disable" THEN codes' = codes \ q.sees /\ UNCHANGED made
       ELSE Makes("codes") /\ codes' = (codes \ q.sees) \cup {made'["codes"]}
    /\ totp' = IF q.kind = "confirm" THEN [totp EXCEPT !.on = TRUE] ELSE totp
    /\ Becomes(r, Idle)
    /\ UNCHANGED <<password, links, sessions, pending, suspended, begun, history>>

----------------------------------------------------------------------------
\* A statement fails, or the server dies: what was done so far stays.
Fails(r) ==
    /\ req[r].pc # "idle"
    /\ Becomes(r, Idle)
    /\ UNCHANGED <<password, links, sessions, pending, suspended, totp, codes, made, begun, history>>

SignInSteps(r) ==
    \/ SignIn(r) \/ createSession(r) \/ CheckSuspended(r) \/ CheckFactor(r) \/ Discard(r)
    \/ createPendingLogin(r)
VerifySteps(r) ==
    \/ claimPendingLogin(r) \/ verifyCode(r) \/ Spend(r) \/ CheckUser(r)
    \/ createSessionForVerifiedUser(r)
PasswordSteps(r) ==
    \/ Reset(r) \/ Change(r) \/ updateUserPassword(r) \/ markResetTokenUsed(r)
    \/ markUnusedResetTokensUsed(r) \/ deleteSessions(r)
FactorSteps(r) ==
    \/ beginSetup(r) \/ StoreSecret(r) \/ confirmSetup(r) \/ disable(r) \/ Off(r)
    \/ regenerateBackupCodes(r) \/ DeleteCodes(r) \/ Replace(r)

Next ==
    \/ \E r \in Requests :
        \/ SignInSteps(r) \/ VerifySteps(r) \/ PasswordSteps(r) \/ FactorSteps(r)
        \/ suspendUser(r) \/ Evict(r) \/ Fails(r)
    \/ requestPasswordReset \/ SessionEnds \/ signOutEverywhere \/ Lapses \/ unsuspendUser

Spec == Init /\ [][Next]_vars

----------------------------------------------------------------------------
(* Properties.                                                             *)

\* Rows and requests are well formed (auth-service.ts, twoFactor.ts, suspension.ts).
TypeOK ==
    /\ password \in Passwords /\ settled \in Passwords
    /\ links \subseteq Ids /\ codes \subseteq Ids /\ confirmed \subseteq Ids
    /\ sessions \subseteq Session /\ pending \subseteq Pending
    /\ suspended \in BOOLEAN /\ cleared \in BOOLEAN
    /\ totp \in [secret : Ids \cup {None}, on : BOOLEAN]
    /\ made \in [Kinds -> 0 .. MaxIds]
    /\ req \in [Requests -> Request]
    /\ \A r \in Requests :
         req[r].pc \in {"suspended", "factor", "discard", "check", "mark"} => req[r].id # None
    /\ begun \in 0 .. MaxBegun
    /\ uses \in [Once \X Ids -> Nat]

\* Once a change or a reset of the password has run its course, no session works that
\* rests on an older password, but the one that made the change, or one of a sign-in
\* that had begun before ("Anyone holding an older session must not stay signed in
\* after the password changes", updatePassword and confirmPasswordReset), however
\* changes, resets, sign-ins and failures overlap.
OldPasswordsLapse ==
    \A s \in sessions :
        s.pwd < settled => \/ s.kept >= settled
                           \/ s.since < settled /\ s.opened >= settled

\* A suspension that has ended the sessions leaves none that a password alone opened,
\* not even one whose sign-in was under way (signInHandler looks for a suspension only
\* after it has written the session; of the second factor's it is the other way round).
SuspensionLeavesNone ==
    suspended /\ cleared => \A s \in sessions : s.handed => s.second

\* A pending sign-in becomes one session at most, and a backup code is good once,
\* whatever it is used for and however often it is presented at a time
\* (claimPendingLogin, verifyCode).
EachUsedOnce == \A i \in Ids : uses[<<"pending", i>>] <= 1 /\ uses[<<"code", i>>] <= 1

\* A link resets the password once (docs/AUTHENTICATION.md:32, "The reset and
\* confirmation links are single-use").
LinksAreSingleUse == \A i \in Ids : uses[<<"link", i>>] <= 1

=============================================================================
