--------------------------- MODULE AccountsProofs ---------------------------
(***************************************************************************)
(* What every behaviour of Accounts keeps, whatever the requests, the      *)
(* bounds and the ids: the types, the sessions that a change of password   *)
(* and a suspension leave, and what is good once.                          *)
(***************************************************************************)
EXTENDS Accounts, FiniteSetTheorems, WellFoundedInduction, TLAPS

----------------------------------------------------------------------------
(* Requests, and the types.                                                *)

\* A request in flight: what it is about is known, and a sign-in that was begun when
\* some change of password was settled has checked that password or a later one.
WellFormed(q) ==
    /\ q \in Request
    /\ q.pc \in {"suspended", "factor", "discard", "check", "mark"} => q.id # None
    /\ q.kind = "verify" => q.id # None /\ q.pc \in {"code", "spend", "check", "open"}
    /\ q.pc \in {"check", "open"} => q.kind = "verify"
    /\ q.pc \in {"code", "spend"} => q.kind \in {"verify", "disable", "regenerate"}
    /\ q.pc = "spend" => q.code # None
    /\ q.pc = "write" /\ q.kind = "reset" => q.id # None
    /\ q.since <= q.pwd

RequestsFit ==
    /\ req \in [Requests -> Request]
    /\ \A r \in Requests : WellFormed(req[r]) /\ req[r].pwd <= password

PasswordsFit ==
    /\ password \in Passwords /\ settled \in Passwords /\ settled <= password
    /\ pending \subseteq Pending
    /\ \A p \in pending : p.since <= p.pwd /\ p.pwd <= password

RowsFit ==
    /\ links \subseteq Ids /\ codes \subseteq Ids /\ confirmed \subseteq Ids
    /\ sessions \subseteq Session
    /\ suspended \in BOOLEAN /\ cleared \in BOOLEAN
    /\ totp \in [secret : Ids \cup {None}, on : BOOLEAN]
    /\ made \in [Kinds -> 0 .. MaxIds]
    /\ begun \in 0 .. MaxBegun
    /\ uses \in [Once \X Ids -> Nat]

AccountInv == RequestsFit /\ PasswordsFit /\ RowsFit

\* An id taken for a session is one that neither a session nor a request has.
LEMMA NewIdIsFree ==
    ASSUME Free # {}
    PROVE  NewId \in Free
<1>1. Free \subseteq Nat
    BY BoundsAssumption DEF Free, Ids
<1>2. PICK i \in Free : \A j \in Free : ~(<<j, i>> \in OpToRel(<, Nat))
    BY <1>1, NatLessThanWellFounded, WFMin
<1>3. \A j \in Free : i <= j
    <2>1. SUFFICES ASSUME NEW j \in Free PROVE i <= j
        OBVIOUS
    <2>2. i \in Nat /\ j \in Nat
        BY <1>1
    <2>3. ~(j < i)
        BY <1>2, <2>2 DEF OpToRel
    <2>4. QED
        BY <2>2, <2>3
<1>4. QED
    BY <1>3 DEF NewId

LEMMA IdsAreNumbers ==
    /\ Ids \subseteq Nat /\ None \notin Ids /\ 1 \in Ids
    /\ 0 \in Passwords /\ Passwords \subseteq Nat
    /\ \A m \in 0 .. MaxIds : m < MaxIds => m + 1 \in Ids
BY BoundsAssumption, NoneAssumption DEF Ids, Passwords

LEMMA IdleIsWellFormed == WellFormed(Idle) /\ Idle.pwd = 0
<1>1. Idle \in Request
    BY IdsAreNumbers DEF Idle, Request
<1>2. QED
    BY <1>1 DEF WellFormed, Idle

LEMMA AccountInitHolds == Init => AccountInv
<1> SUFFICES ASSUME Init PROVE AccountInv
    OBVIOUS
<1>1. RequestsFit
    BY IdleIsWellFormed, IdsAreNumbers DEF Init, RequestsFit, WellFormed
<1>2. PasswordsFit
    BY IdsAreNumbers DEF Init, PasswordsFit
<1>3. sessions \subseteq Session
    BY IdsAreNumbers DEF Init, Session
<1>4. totp \in [secret : Ids \cup {None}, on : BOOLEAN] /\ codes \subseteq Ids /\ confirmed \subseteq Ids
    <2>1. CASE totp = [secret |-> None, on |-> FALSE] /\ codes = {} /\ confirmed = {}
        BY <2>1
    <2>2. CASE totp = [secret |-> 1, on |-> TRUE] /\ codes = {1} /\ confirmed = {1}
        BY <2>2, IdsAreNumbers
    <2>3. QED
        BY <2>1, <2>2 DEF Init
<1>5. made \in [Kinds -> 0 .. MaxIds]
    BY BoundsAssumption DEF Init
<1>6. uses \in [Once \X Ids -> Nat] /\ begun \in 0 .. MaxBegun
    BY BoundsAssumption DEF Init
<1>7. QED
    BY <1>1, <1>2, <1>3, <1>4, <1>5, <1>6 DEF Init, AccountInv, RowsFit

LEMMA BecomesKeeps ==
    ASSUME AccountInv, NEW r \in Requests, NEW q, WellFormed(q), Becomes(r, q),
           password' \in Passwords, password <= password', q.pwd <= password'
    PROVE  RequestsFit'
<1>1. /\ req' \in [Requests -> Request]
      /\ \A o \in Requests : req'[o] = IF o = r THEN q ELSE req[o]
    BY DEF AccountInv, RequestsFit, Becomes, WellFormed
<1>2. \A o \in Requests : WellFormed(req[o]) /\ req[o].pwd \in Passwords /\ req[o].pwd <= password
    BY DEF AccountInv, RequestsFit, Request
<1>3. ASSUME NEW o \in Requests PROVE WellFormed(req'[o]) /\ req'[o].pwd <= password'
    <2>1. password \in Nat /\ password' \in Nat /\ req[o].pwd \in Nat
        BY <1>2, IdsAreNumbers DEF AccountInv, PasswordsFit
    <2>2. req[o].pwd <= password'
        BY <1>2, <2>1
    <2>3. QED
        BY <1>1, <1>2, <2>2
<1>4. QED
    BY <1>1, <1>3 DEF RequestsFit, WellFormed

LEMMA RequestIs ==
    ASSUME AccountInv, NEW r \in Requests
    PROVE  /\ req[r] \in Request /\ WellFormed(req[r])
           /\ req[r].pwd <= password /\ password \in Nat
BY IdsAreNumbers DEF AccountInv, RequestsFit, PasswordsFit, WellFormed

\* A step of a sign-in, of whichever sort, leaves the request well formed.
LEMMA SignInRequests ==
    ASSUME AccountInv, NEW r \in Requests, SignInSteps(r)
    PROVE  RequestsFit'
<1> DEFINE q == req[r]
<1>1. q \in Request /\ WellFormed(q) /\ q.pwd <= password /\ password \in Nat
    BY RequestIs
<1>2. UNCHANGED password
    BY DEF SignInSteps, SignIn, createSession, CheckSuspended, CheckFactor, Discard,
           createPendingLogin
<1>3. ASSUME NEW p, WellFormed(p), Becomes(r, p), p.pwd = q.pwd \/ p.pwd <= password
      PROVE  RequestsFit'
    BY <1>1, <1>2, <1>3, BecomesKeeps DEF AccountInv, PasswordsFit
<1>4. Becomes(r, Idle) => RequestsFit'
    BY <1>1, <1>3, IdleIsWellFormed
<1>5. CASE SignIn(r)
    <2>1. PICK p : p = [Idle EXCEPT !.pc = "session", !.pwd = password, !.since = settled]
        OBVIOUS
    <2>2. Becomes(r, p) /\ p.pwd = password
        BY <1>5, <2>1 DEF SignIn, Begins, Idle
    <2>3. WellFormed(p)
        BY <2>1 DEF WellFormed, Request, Idle, AccountInv, PasswordsFit
    <2>4. QED
        BY <1>1, <1>3, <2>2, <2>3
<1>6. CASE createSession(r)
    <2>1. PICK p : p = [q EXCEPT !.pc = "suspended", !.id = NewId]
        OBVIOUS
    <2>2. Becomes(r, p) /\ NewId \in Ids
        BY <1>6, <2>1, NewIdIsFree DEF createSession, Held, Free
    <2>3. WellFormed(p) /\ p.pwd = q.pwd
        BY <1>1, <1>6, <2>1, <2>2, IdsAreNumbers DEF WellFormed, Request, createSession
    <2>4. QED
        BY <1>3, <2>2, <2>3
<1>7. CASE CheckSuspended(r)
    <2>1. PICK pc \in {"discard", "factor"} : Becomes(r, [q EXCEPT !.pc = pc])
        BY <1>7 DEF CheckSuspended
    <2>2. PICK p : p = [q EXCEPT !.pc = pc]
        OBVIOUS
    <2>3. WellFormed(p) /\ p.pwd = q.pwd
        BY <1>1, <1>7, <2>2 DEF WellFormed, Request, CheckSuspended
    <2>4. QED
        BY <1>3, <2>1, <2>2, <2>3
<1>8. CASE CheckFactor(r)
    <2>1. PICK p : p = [q EXCEPT !.pc = "discard", !.again = TRUE]
        OBVIOUS
    <2>2. WellFormed(p) /\ p.pwd = q.pwd
        BY <1>1, <1>8, <2>1 DEF WellFormed, Request, CheckFactor
    <2>3. Becomes(r, p) \/ Becomes(r, Idle)
        BY <1>8, <2>1 DEF CheckFactor
    <2>4. QED
        BY <1>3, <1>4, <2>2, <2>3
<1>9. CASE Discard(r)
    <2>1. PICK p : p = [q EXCEPT !.pc = "pend", !.id = None]
        OBVIOUS
    <2>2. WellFormed(p) /\ p.pwd = q.pwd
        BY <1>1, <1>9, <2>1 DEF WellFormed, Request, Discard
    <2>3. Becomes(r, p) \/ Becomes(r, Idle)
        BY <1>9, <2>1 DEF Discard
    <2>4. QED
        BY <1>3, <1>4, <2>2, <2>3
<1>10. CASE createPendingLogin(r)
    BY <1>4, <1>10 DEF createPendingLogin
<1>11. QED
    BY <1>5, <1>6, <1>7, <1>8, <1>9, <1>10 DEF SignInSteps

LEMMA VerifyRequests ==
    ASSUME AccountInv, NEW r \in Requests, VerifySteps(r)
    PROVE  RequestsFit'
<1> DEFINE q == req[r]
<1>1. q \in Request /\ WellFormed(q) /\ q.pwd <= password /\ password \in Nat
    BY RequestIs
<1>2. UNCHANGED password
    BY DEF VerifySteps, claimPendingLogin, verifyCode, Spend, CheckUser,
           createSessionForVerifiedUser
<1>3. ASSUME NEW p, WellFormed(p), Becomes(r, p), p.pwd = q.pwd \/ p.pwd <= password
      PROVE  RequestsFit'
    BY <1>1, <1>2, <1>3, BecomesKeeps DEF AccountInv, PasswordsFit
<1>4. Becomes(r, Idle) => RequestsFit'
    BY <1>1, <1>3, IdleIsWellFormed
<1>5. ASSUME Becomes(r, AfterCode(q)), q.pc \in {"code", "spend"}
      PROVE  RequestsFit'
    <2>1. PICK p : p = AfterCode(q)
        OBVIOUS
    <2>2. WellFormed(p) /\ p.pwd = q.pwd
        BY <1>1, <1>5, <2>1 DEF AfterCode, WellFormed, Request
    <2>3. QED
        BY <1>3, <1>5, <2>1, <2>2
<1>6. CASE claimPendingLogin(r)
    <2>1. PICK m \in pending : Becomes(r, [Idle EXCEPT !.pc = "code", !.kind = "verify", !.id = m.id,
                                                       !.pwd = m.pwd, !.since = m.since])
        BY <1>6 DEF claimPendingLogin, Begins
    <2>2. m \in Pending /\ m.since <= m.pwd
        BY DEF AccountInv, PasswordsFit
    <2>3. PICK p : p = [Idle EXCEPT !.pc = "code", !.kind = "verify", !.id = m.id,
                                    !.pwd = m.pwd, !.since = m.since]
        OBVIOUS
    <2>4. WellFormed(p) /\ p.pwd = m.pwd
        BY <2>2, <2>3, IdsAreNumbers DEF WellFormed, Request, Idle, Pending
    <2>5. m.pwd <= password
        BY DEF AccountInv, PasswordsFit
    <2>6. QED
        BY <1>3, <2>1, <2>3, <2>4, <2>5
<1>7. CASE verifyCode(r)
    <2>1. CASE \E c \in 1 .. made["codes"] : Becomes(r, [q EXCEPT !.pc = "spend", !.code = c])
        <3>1. PICK c \in 1 .. made["codes"] : Becomes(r, [q EXCEPT !.pc = "spend", !.code = c])
            BY <2>1
        <3>2. PICK p : p = [q EXCEPT !.pc = "spend", !.code = c]
            OBVIOUS
        <3>3. c \in Ids /\ c # None
            <4>1. made["codes"] \in 0 .. MaxIds
                BY DEF AccountInv, RowsFit, Kinds
            <4>2. QED
                BY <4>1, BoundsAssumption, NoneAssumption DEF Ids
        <3>4. WellFormed(p) /\ p.pwd = q.pwd
            BY <1>1, <1>7, <3>2, <3>3 DEF WellFormed, Request, verifyCode
        <3>5. QED
            BY <1>3, <3>1, <3>2, <3>4
    <2>2. QED
        BY <1>4, <1>5, <1>7, <2>1 DEF verifyCode
<1>8. CASE Spend(r)
    BY <1>4, <1>5, <1>8 DEF Spend
<1>9. CASE CheckUser(r)
    <2>1. PICK p : p = [q EXCEPT !.pc = "open"]
        OBVIOUS
    <2>2. WellFormed(p) /\ p.pwd = q.pwd
        BY <1>1, <1>9, <2>1 DEF WellFormed, Request, CheckUser
    <2>3. Becomes(r, p) \/ Becomes(r, Idle)
        BY <1>9, <2>1 DEF CheckUser
    <2>4. QED
        BY <1>3, <1>4, <2>2, <2>3
<1>10. CASE createSessionForVerifiedUser(r)
    BY <1>4, <1>10 DEF createSessionForVerifiedUser
<1>11. QED
    BY <1>6, <1>7, <1>8, <1>9, <1>10 DEF VerifySteps

LEMMA PasswordRequests ==
    ASSUME AccountInv, NEW r \in Requests, PasswordSteps(r)
    PROVE  RequestsFit'
<1> DEFINE q == req[r]
<1>1. q \in Request /\ WellFormed(q) /\ q.pwd <= password /\ password \in Nat
      /\ password \in Passwords
    BY RequestIs DEF AccountInv, PasswordsFit
<1>2. ASSUME NEW p, WellFormed(p), Becomes(r, p), p.pwd <= password, UNCHANGED password
      PROVE  RequestsFit'
    BY <1>1, <1>2, BecomesKeeps
<1>3. CASE Reset(r) \/ Change(r)
    <2>1. PICK kind \in {"reset", "change"}, i \in Ids :
            Becomes(r, [Idle EXCEPT !.pc = "write", !.kind = kind, !.id = i])
        <3>1. CASE Reset(r)
            BY <3>1 DEF Reset, Begins, AccountInv, RowsFit
        <3>2. CASE Change(r)
            BY <3>2 DEF Change, Begins, AccountInv, RowsFit, Session
        <3>3. QED
            BY <1>3, <3>1, <3>2
    <2>2. PICK p : p = [Idle EXCEPT !.pc = "write", !.kind = kind, !.id = i]
        OBVIOUS
    <2>3. /\ p.pc = "write" /\ p.kind = kind /\ p.id = i /\ p.since = 0 /\ p.pwd = 0
          /\ p \in Request
        BY <2>2, IdsAreNumbers DEF Request, Idle
    <2>4. WellFormed(p) /\ p.pwd <= password
        BY <1>1, <2>3, IdsAreNumbers DEF WellFormed
    <2>5. UNCHANGED password /\ Becomes(r, p)
        BY <1>3, <2>1, <2>2 DEF Reset, Change
    <2>6. QED
        BY <1>2, <2>4, <2>5
<1>4. CASE updateUserPassword(r)
    <2>1. /\ password' = password + 1 /\ password' \in Passwords /\ q.pc = "write"
        BY <1>1, <1>4, BoundsAssumption DEF updateUserPassword, Passwords
    <2>2. PICK pc \in {"mark", "clear"} :
            /\ Becomes(r, [q EXCEPT !.pc = pc, !.pwd = password'])
            /\ pc = "mark" => q.kind = "reset"
        BY <1>4 DEF updateUserPassword
    <2>3. PICK p : p = [q EXCEPT !.pc = pc, !.pwd = password']
        OBVIOUS
    <2>4. q.since \in Nat /\ q.pwd \in Nat /\ q.since <= q.pwd
        BY <1>1, IdsAreNumbers DEF WellFormed, Request
    <2>5. q.since <= password' /\ password <= password' /\ password' <= password'
        BY <1>1, <2>1, <2>4
    <2>6. WellFormed(p) /\ p.pwd = password'
        BY <1>1, <2>1, <2>2, <2>3, <2>5 DEF WellFormed, Request
    <2>7. Becomes(r, p)
        BY <2>2, <2>3
    <2>8. QED
        BY <2>1, <2>6, <2>5, <2>7, BecomesKeeps
<1>5. CASE markResetTokenUsed(r)
    <2>1. PICK p : p = [q EXCEPT !.pc = "markAll", !.id = None]
        OBVIOUS
    <2>2. Becomes(r, p) /\ UNCHANGED password /\ q.pc = "mark"
        BY <1>5, <2>1 DEF markResetTokenUsed
    <2>3. WellFormed(p) /\ p.pwd = q.pwd
        BY <1>1, <2>1, <2>2 DEF WellFormed, Request
    <2>4. QED
        BY <1>1, <1>2, <2>2, <2>3
<1>6. CASE markUnusedResetTokensUsed(r)
    <2>1. PICK p : p = [q EXCEPT !.pc = "clear"]
        OBVIOUS
    <2>2. Becomes(r, p) /\ UNCHANGED password /\ q.pc = "markAll"
        BY <1>6, <2>1 DEF markUnusedResetTokensUsed
    <2>3. WellFormed(p) /\ p.pwd = q.pwd
        BY <1>1, <2>1, <2>2 DEF WellFormed, Request
    <2>4. QED
        BY <1>1, <1>2, <2>2, <2>3
<1>7. CASE deleteSessions(r)
    BY <1>1, <1>2, <1>7, IdleIsWellFormed DEF deleteSessions
<1>8. QED
    BY <1>3, <1>4, <1>5, <1>6, <1>7 DEF PasswordSteps

LEMMA FactorRequests ==
    ASSUME AccountInv, NEW r \in Requests, FactorSteps(r) \/ suspendUser(r) \/ Evict(r) \/ Fails(r)
    PROVE  RequestsFit'
<1> DEFINE q == req[r]
<1>1. q \in Request /\ WellFormed(q) /\ q.pwd <= password /\ password \in Nat
    BY RequestIs
<1>2. UNCHANGED password
    BY DEF FactorSteps, beginSetup, StoreSecret, confirmSetup, disable, Off,
           regenerateBackupCodes, DeleteCodes, Replace, suspendUser, Evict, Fails
<1>3. ASSUME NEW p, WellFormed(p), Becomes(r, p), p.pwd <= password
      PROVE  RequestsFit'
    BY <1>1, <1>2, <1>3, BecomesKeeps DEF AccountInv, PasswordsFit
<1>4. CASE StoreSecret(r) \/ Replace(r) \/ Evict(r) \/ Fails(r)
    <2>1. Becomes(r, Idle)
        BY <1>4 DEF StoreSecret, Replace, Evict, Fails
    <2>2. QED
        BY <1>1, <1>3, <2>1, IdleIsWellFormed
<1>5. CASE beginSetup(r) \/ confirmSetup(r) \/ disable(r) \/ regenerateBackupCodes(r)
           \/ suspendUser(r)
    <2>1. PICK pc, kind :
            /\ Becomes(r, [Idle EXCEPT !.pc = pc, !.kind = kind])
            /\ <<pc, kind>> \in {<<"secret", "setup">>, <<"begin", "confirm">>,
                                 <<"code", "disable">>, <<"code", "regenerate">>,
                                 <<"evict", "suspend">>}
        BY <1>5 DEF beginSetup, confirmSetup, disable, regenerateBackupCodes, suspendUser, Begins
    <2>2. PICK p : p = [Idle EXCEPT !.pc = pc, !.kind = kind]
        OBVIOUS
    <2>3. p.pc = pc /\ p.kind = kind /\ p.since = 0 /\ p.pwd = 0
        BY <2>2 DEF Idle
    <2>4. p \in Request
        BY <2>1, <2>2, IdsAreNumbers DEF Request, Idle
    <2>5. WellFormed(p) /\ p.pwd <= password
        BY <1>1, <2>1, <2>3, <2>4 DEF WellFormed
    <2>6. Becomes(r, p)
        BY <2>1, <2>2
    <2>7. QED
        BY <1>3, <2>5, <2>6
<1>6. CASE Off(r)
    <2>1. PICK p : p = [q EXCEPT !.pc = "begin"]
        OBVIOUS
    <2>2. Becomes(r, p) /\ q.pc = "off"
        BY <1>6, <2>1 DEF Off
    <2>3. WellFormed(p) /\ p.pwd = q.pwd
        BY <1>1, <2>1, <2>2 DEF WellFormed, Request
    <2>4. QED
        BY <1>1, <1>3, <2>2, <2>3
<1>7. CASE DeleteCodes(r)
    <2>1. PICK p : p = [q EXCEPT !.pc = "replace", !.code = None, !.sees = codes]
        OBVIOUS
    <2>2. Becomes(r, p) /\ q.pc = "begin"
        BY <1>7, <2>1 DEF DeleteCodes
    <2>3. WellFormed(p) /\ p.pwd = q.pwd
        BY <1>1, <2>1, <2>2 DEF WellFormed, Request, AccountInv, RowsFit
    <2>4. QED
        BY <1>1, <1>3, <2>2, <2>3
<1>8. QED
    BY <1>4, <1>5, <1>6, <1>7 DEF FactorSteps

----------------------------------------------------------------------------
(* What changes what.                                                      *)

OpensOrEnds(r) ==
    \/ createSession(r) \/ CheckFactor(r) \/ Discard(r) \/ createSessionForVerifiedUser(r)
    \/ deleteSessions(r) \/ Evict(r)

LEMMA SessionsChangeBy ==
    ASSUME [Next]_vars
    PROVE  \/ UNCHANGED sessions \/ SessionEnds \/ signOutEverywhere
           \/ \E r \in Requests : OpensOrEnds(r)
<1>1. ASSUME NEW r \in Requests, SignInSteps(r) \/ VerifySteps(r) PROVE UNCHANGED sessions \/ OpensOrEnds(r)
    BY <1>1 DEF SignInSteps, SignIn, CheckSuspended, createPendingLogin, VerifySteps,
                claimPendingLogin, verifyCode, Spend, CheckUser, OpensOrEnds
<1>2. ASSUME NEW r \in Requests, PasswordSteps(r) PROVE UNCHANGED sessions \/ OpensOrEnds(r)
    BY <1>2 DEF PasswordSteps, Reset, Change, updateUserPassword, markResetTokenUsed,
                markUnusedResetTokensUsed, OpensOrEnds
<1>3. ASSUME NEW r \in Requests, FactorSteps(r) \/ suspendUser(r) \/ Fails(r)
      PROVE  UNCHANGED sessions
    BY <1>3 DEF FactorSteps, beginSetup, StoreSecret, confirmSetup, disable, Off,
                regenerateBackupCodes, DeleteCodes, Replace, suspendUser, Fails
<1>4. CASE requestPasswordReset \/ Lapses \/ unsuspendUser \/ UNCHANGED vars
    BY <1>4 DEF requestPasswordReset, Lapses, unsuspendUser, vars
<1>5. QED
    BY <1>1, <1>2, <1>3, <1>4 DEF Next, OpensOrEnds

LEMMA PasswordsChangeBy ==
    ASSUME [Next]_vars
    PROVE  /\ \/ UNCHANGED password
              \/ \E r \in Requests : updateUserPassword(r)
           /\ \/ UNCHANGED settled
              \/ \E r \in Requests : deleteSessions(r)
           /\ \/ UNCHANGED pending \/ Lapses
              \/ \E r \in Requests : createPendingLogin(r) \/ claimPendingLogin(r)
<1>1. ASSUME NEW r \in Requests, SignInSteps(r)
      PROVE  UNCHANGED <<password, settled>> /\ (UNCHANGED pending \/ createPendingLogin(r))
    BY <1>1 DEF SignInSteps, SignIn, createSession, CheckSuspended, CheckFactor, Discard,
                createPendingLogin, history
<1>2. ASSUME NEW r \in Requests, VerifySteps(r)
      PROVE  UNCHANGED <<password, settled>> /\ (UNCHANGED pending \/ claimPendingLogin(r))
    BY <1>2 DEF VerifySteps, claimPendingLogin, verifyCode, Spend, CheckUser,
                createSessionForVerifiedUser, history
<1>3. ASSUME NEW r \in Requests, PasswordSteps(r)
      PROVE  /\ UNCHANGED pending /\ (UNCHANGED password \/ updateUserPassword(r))
             /\ UNCHANGED settled \/ deleteSessions(r)
    BY <1>3 DEF PasswordSteps, Reset, Change, updateUserPassword, markResetTokenUsed,
                markUnusedResetTokensUsed, deleteSessions, history
<1>4. ASSUME NEW r \in Requests, FactorSteps(r) \/ suspendUser(r) \/ Evict(r) \/ Fails(r)
      PROVE  UNCHANGED <<password, settled, pending>>
    BY <1>4 DEF FactorSteps, beginSetup, StoreSecret, confirmSetup, disable, Off, Evict,
                regenerateBackupCodes, DeleteCodes, Replace, suspendUser, Fails, history
<1>5. CASE requestPasswordReset \/ SessionEnds \/ signOutEverywhere \/ unsuspendUser
           \/ UNCHANGED vars
    BY <1>5 DEF requestPasswordReset, SessionEnds, signOutEverywhere, unsuspendUser, vars, history
<1>6. CASE Lapses
    BY <1>6 DEF Lapses, history
<1>7. QED
    BY <1>1, <1>2, <1>3, <1>4, <1>5, <1>6 DEF Next

LEMMA CodesChangeBy ==
    ASSUME [Next]_vars
    PROVE  /\ \/ UNCHANGED codes
              \/ \E r \in Requests : Spend(r) \/ Replace(r)
           /\ \/ UNCHANGED totp
              \/ \E r \in Requests : StoreSecret(r) \/ Off(r) \/ Replace(r)
           /\ \/ UNCHANGED made \/ requestPasswordReset
              \/ \E r \in Requests : createPendingLogin(r) \/ StoreSecret(r) \/ Replace(r)
           /\ \/ UNCHANGED uses
              \/ \E r \in Requests : \/ Spend(r) \/ createSessionForVerifiedUser(r)
                                     \/ updateUserPassword(r)
<1>1. ASSUME NEW r \in Requests, SignInSteps(r)
      PROVE  UNCHANGED <<codes, totp, uses>> /\ (UNCHANGED made \/ createPendingLogin(r))
    BY <1>1 DEF SignInSteps, SignIn, createSession, CheckSuspended, CheckFactor, Discard,
                createPendingLogin, history
<1>2. ASSUME NEW r \in Requests, VerifySteps(r)
      PROVE  /\ UNCHANGED <<totp, made>> /\ (UNCHANGED codes \/ Spend(r))
             /\ UNCHANGED uses \/ Spend(r) \/ createSessionForVerifiedUser(r)
    BY <1>2 DEF VerifySteps, claimPendingLogin, verifyCode, Spend, CheckUser,
                createSessionForVerifiedUser, history
<1>3. ASSUME NEW r \in Requests, PasswordSteps(r)
      PROVE  UNCHANGED <<codes, totp, made>> /\ (UNCHANGED uses \/ updateUserPassword(r))
    BY <1>3 DEF PasswordSteps, Reset, Change, updateUserPassword, markResetTokenUsed,
                markUnusedResetTokensUsed, deleteSessions, history
<1>4. ASSUME NEW r \in Requests, FactorSteps(r) \/ suspendUser(r) \/ Evict(r) \/ Fails(r)
      PROVE  /\ UNCHANGED uses /\ (UNCHANGED codes \/ Replace(r))
             /\ UNCHANGED totp \/ StoreSecret(r) \/ Off(r) \/ Replace(r)
             /\ UNCHANGED made \/ StoreSecret(r) \/ Replace(r)
    BY <1>4 DEF FactorSteps, beginSetup, StoreSecret, confirmSetup, disable, Off, Evict,
                regenerateBackupCodes, DeleteCodes, Replace, suspendUser, Fails, history
<1>5. CASE Lapses \/ SessionEnds \/ signOutEverywhere \/ unsuspendUser \/ UNCHANGED vars
    BY <1>5 DEF Lapses, SessionEnds, signOutEverywhere, unsuspendUser, vars, history
<1>6. CASE requestPasswordReset
    BY <1>6 DEF requestPasswordReset, history
<1>7. QED
    BY <1>1, <1>2, <1>3, <1>4, <1>5, <1>6 DEF Next

----------------------------------------------------------------------------
(* The types are kept.                                                     *)

LEMMA RequestsKept ==
    ASSUME AccountInv, [Next]_vars
    PROVE  RequestsFit'
<1>1. CASE \E r \in Requests : \/ SignInSteps(r) \/ VerifySteps(r) \/ PasswordSteps(r)
                               \/ FactorSteps(r) \/ suspendUser(r) \/ Evict(r) \/ Fails(r)
    BY <1>1, SignInRequests, VerifyRequests, PasswordRequests, FactorRequests
<1>2. CASE \/ requestPasswordReset \/ SessionEnds \/ signOutEverywhere \/ Lapses \/ unsuspendUser
           \/ UNCHANGED vars
    BY <1>2 DEF requestPasswordReset, SessionEnds, signOutEverywhere, Lapses, unsuspendUser, vars,
                AccountInv, RequestsFit
<1>3. QED
    BY <1>1, <1>2 DEF Next

LEMMA LargerIs ==
    ASSUME NEW a \in Passwords, NEW b \in Passwords
    PROVE  /\ Larger(a, b) \in Passwords /\ Larger(a, b) \in {a, b}
           /\ a <= Larger(a, b) /\ b <= Larger(a, b)
BY IdsAreNumbers DEF Larger

LEMMA MakesAnId ==
    ASSUME AccountInv, NEW k \in Kinds, Makes(k)
    PROVE  /\ made' \in [Kinds -> 0 .. MaxIds] /\ made'[k] \in Ids /\ made'[k] = made[k] + 1
           /\ \A o \in Kinds \ {k} : made'[o] = made[o]
<1>1. made \in [Kinds -> 0 .. MaxIds] /\ made[k] < MaxIds /\ made' = [made EXCEPT ![k] = made[k] + 1]
    BY DEF AccountInv, RowsFit, Makes
<1>2. made[k] + 1 \in 0 .. MaxIds /\ made[k] + 1 \in Ids
    BY <1>1, BoundsAssumption DEF Ids
<1>3. QED
    BY <1>1, <1>2

LEMMA PasswordsKept ==
    ASSUME AccountInv, [Next]_vars
    PROVE  PasswordsFit' /\ password <= password' /\ settled <= settled'
<1>1. /\ password \in Passwords /\ settled \in Passwords /\ settled <= password
      /\ password \in Nat /\ settled \in Nat /\ MaxPassword \in Nat
    BY IdsAreNumbers, BoundsAssumption DEF AccountInv, PasswordsFit
<1>2. password' \in Passwords /\ password <= password' /\ password' \in Nat
    <2>1. CASE UNCHANGED password
        BY <1>1, <2>1
    <2>2. ASSUME NEW r \in Requests, updateUserPassword(r)
          PROVE  password' \in Passwords /\ password <= password' /\ password' \in Nat
        BY <1>1, <2>2 DEF updateUserPassword, Passwords
    <2>3. QED
        BY <2>1, <2>2, PasswordsChangeBy
<1>3. settled' \in Passwords /\ settled' <= password /\ settled <= settled' /\ settled' \in Nat
    <2>1. CASE UNCHANGED settled
        BY <1>1, <2>1
    <2>2. ASSUME NEW r \in Requests, deleteSessions(r)
          PROVE  settled' \in Passwords /\ settled' <= password /\ settled <= settled' /\ settled' \in Nat
        <3>1. req[r].pwd \in Passwords /\ req[r].pwd <= password
            BY RequestIs DEF Request
        <3>2. settled' = Larger(settled, req[r].pwd)
            BY <2>2 DEF deleteSessions
        <3>3. QED
            BY <1>1, <3>1, <3>2, LargerIs, IdsAreNumbers
    <2>3. QED
        BY <2>1, <2>2, PasswordsChangeBy
<1>4. ASSUME NEW p \in pending' PROVE p \in Pending /\ p.since <= p.pwd /\ p.pwd <= password
    <2>1. CASE p \in pending
        BY <2>1 DEF AccountInv, PasswordsFit
    <2>2. CASE p \notin pending
        <3>1. PICK r \in Requests : createPendingLogin(r)
            BY <2>2, PasswordsChangeBy DEF Lapses, claimPendingLogin, Claimed
        <3>2. p = [id |-> made'["pending"], pwd |-> req[r].pwd, since |-> req[r].since]
            BY <2>2, <3>1 DEF createPendingLogin
        <3>3. made'["pending"] \in Ids
            BY <3>1, MakesAnId DEF createPendingLogin, Kinds
        <3>4. QED
            BY <3>2, <3>3, RequestIs DEF Request, WellFormed, Pending
    <2>3. QED
        BY <2>1, <2>2
<1>5. ASSUME NEW p \in pending' PROVE p.pwd <= password'
    <2>1. p.pwd \in Nat /\ p.pwd <= password
        BY <1>4, IdsAreNumbers DEF Pending
    <2>2. QED
        BY <1>1, <1>2, <2>1
<1>6. settled' <= password'
    BY <1>1, <1>2, <1>3
<1>7. QED
    BY <1>2, <1>3, <1>4, <1>5, <1>6 DEF PasswordsFit

\* A session that is opened.
LEMMA OpenedIs ==
    ASSUME AccountInv, NEW r \in Requests, NEW second \in BOOLEAN, Free # {}
    PROVE  /\ Opened(req[r], second) \in Session
           /\ \A o \in Requests : req[o].id # Opened(req[r], second).id
<1>1. NewId \in Ids /\ \A o \in Requests : req[o].id # NewId
    BY NewIdIsFree DEF Free
<1>2. req[r] \in Request /\ settled \in Passwords /\ 0 \in Passwords
    BY RequestIs, IdsAreNumbers DEF AccountInv, PasswordsFit
<1>3. QED
    BY <1>1, <1>2 DEF Opened, Session, Request

LEMMA SessionsKept ==
    ASSUME AccountInv, [Next]_vars
    PROVE  sessions' \subseteq Session
<1>1. sessions \subseteq Session
    BY DEF AccountInv, RowsFit
<1>2. CASE UNCHANGED sessions \/ SessionEnds \/ signOutEverywhere
    BY <1>1, <1>2 DEF SessionEnds, signOutEverywhere, SignedIn
<1>3. ASSUME NEW r \in Requests, createSession(r) \/ createSessionForVerifiedUser(r)
      PROVE  sessions' \subseteq Session
    <2>1. PICK second \in BOOLEAN : /\ sessions' = sessions \cup {Opened(req[r], second)}
                                   /\ Free # {}
        BY <1>3 DEF createSession, createSessionForVerifiedUser
    <2>2. QED
        BY <1>1, <2>1, OpenedIs
<1>4. ASSUME NEW r \in Requests, CheckFactor(r) \/ Discard(r) \/ Evict(r)
      PROVE  sessions' \subseteq Session
    <2>1. \A s \in Session : [s EXCEPT !.handed = TRUE] \in Session
        BY DEF Session
    <2>2. QED
        BY <1>1, <1>4, <2>1 DEF CheckFactor, Discard, Evict
<1>5. ASSUME NEW r \in Requests, deleteSessions(r)
      PROVE  sessions' \subseteq Session
    <2>1. req[r].pwd \in Passwords
        BY RequestIs DEF Request
    <2>2. \A s \in Session : [s EXCEPT !.kept = Larger(s.kept, req[r].pwd)] \in Session
        BY <2>1, LargerIs DEF Session
    <2>3. QED
        BY <1>1, <1>5, <2>2 DEF deleteSessions, Kept
<1>6. QED
    BY <1>2, <1>3, <1>4, <1>5, SessionsChangeBy DEF OpensOrEnds

LEMMA CodesKept ==
    ASSUME AccountInv, [Next]_vars
    PROVE  /\ codes' \subseteq Ids /\ totp' \in [secret : Ids \cup {None}, on : BOOLEAN]
           /\ made' \in [Kinds -> 0 .. MaxIds] /\ uses' \in [Once \X Ids -> Nat]
<1>1. /\ codes \subseteq Ids /\ totp \in [secret : Ids \cup {None}, on : BOOLEAN]
      /\ made \in [Kinds -> 0 .. MaxIds] /\ uses \in [Once \X Ids -> Nat]
    BY DEF AccountInv, RowsFit
<1>2. codes' \subseteq Ids
    <2>1. ASSUME NEW r \in Requests, Spend(r) \/ Replace(r) PROVE codes' \subseteq Ids
        <3>1. CASE Spend(r)
            BY <1>1, <3>1 DEF Spend
        <3>2. CASE Replace(r)
            BY <1>1, <3>2, MakesAnId DEF Replace, Kinds
        <3>3. QED
            BY <2>1, <3>1, <3>2
    <2>2. QED
        BY <1>1, <2>1, CodesChangeBy
<1>3. totp' \in [secret : Ids \cup {None}, on : BOOLEAN]
    <2>1. ASSUME NEW r \in Requests, StoreSecret(r) \/ Off(r) \/ Replace(r)
          PROVE  totp' \in [secret : Ids \cup {None}, on : BOOLEAN]
        <3>1. CASE StoreSecret(r)
            BY <1>1, <3>1, MakesAnId DEF StoreSecret, Kinds
        <3>2. CASE Off(r)
            BY <3>2 DEF Off
        <3>3. CASE Replace(r)
            BY <1>1, <3>3 DEF Replace
        <3>4. QED
            BY <2>1, <3>1, <3>2, <3>3
    <2>2. QED
        BY <1>1, <2>1, CodesChangeBy
<1>4. made' \in [Kinds -> 0 .. MaxIds]
    <2>1. CASE UNCHANGED made
        BY <1>1, <2>1
    <2>2. CASE \E k \in Kinds : Makes(k)
        BY <2>2, MakesAnId
    <2>3. QED
        BY <2>1, <2>2, CodesChangeBy DEF requestPasswordReset, createPendingLogin, StoreSecret,
                                         Replace, Kinds
<1>5. uses' \in [Once \X Ids -> Nat]
    <2>1. CASE UNCHANGED uses
        BY <1>1, <2>1
    <2>2. ASSUME NEW k \in Once, NEW i \in Ids, Uses(k, i)
          PROVE  uses' \in [Once \X Ids -> Nat]
        <3>1. <<k, i>> \in Once \X Ids
            OBVIOUS
        <3>2. uses' = [uses EXCEPT ![<<k, i>>] = uses[<<k, i>>] + 1]
            BY <2>2 DEF Uses
        <3>3. uses[<<k, i>>] + 1 \in Nat
            BY <1>1, <3>1
        <3>4. QED
            BY <1>1, <3>2, <3>3
    <2>3. ASSUME NEW r \in Requests, Spend(r) PROVE UNCHANGED uses \/ Uses("code", req[r].code)
        BY <2>3 DEF Spend
    <2>4. ASSUME NEW r \in Requests, createSessionForVerifiedUser(r) PROVE Uses("pending", req[r].id)
        BY <2>4 DEF createSessionForVerifiedUser
    <2>5. ASSUME NEW r \in Requests, updateUserPassword(r) PROVE UNCHANGED uses \/ Uses("link", req[r].id)
        BY <2>5 DEF updateUserPassword
    <2>6. ASSUME NEW r \in Requests, Spend(r) PROVE req[r].code \in Ids
        BY <2>6, RequestIs DEF Spend, Request, WellFormed
    <2>7. ASSUME NEW r \in Requests, createSessionForVerifiedUser(r) PROVE req[r].id \in Ids
        BY <2>7, RequestIs DEF createSessionForVerifiedUser, Request, WellFormed
    <2>8. ASSUME NEW r \in Requests, updateUserPassword(r)
          PROVE  UNCHANGED uses \/ req[r].id \in Ids
        BY <2>8, RequestIs DEF updateUserPassword, Request, WellFormed
    <2>9. {"code", "pending", "link"} \subseteq Once
        BY DEF Once
    <2>10. QED
        BY <2>1, <2>2, <2>3, <2>4, <2>5, <2>6, <2>7, <2>8, <2>9, CodesChangeBy
<1>6. QED
    BY <1>2, <1>3, <1>4, <1>5

LEMMA LinksKept ==
    ASSUME AccountInv, [Next]_vars
    PROVE  links' \subseteq Ids /\ confirmed' \subseteq Ids
<1>1. /\ links \subseteq Ids /\ confirmed \subseteq Ids
      /\ totp \in [secret : Ids \cup {None}, on : BOOLEAN]
    BY DEF AccountInv, RowsFit
<1>2. ASSUME NEW r \in Requests, SignInSteps(r) PROVE UNCHANGED <<links, confirmed>>
    BY <1>2 DEF SignInSteps, SignIn, createSession, CheckSuspended, CheckFactor, Discard,
                createPendingLogin, history
<1>3. ASSUME NEW r \in Requests, VerifySteps(r) PROVE UNCHANGED <<links, confirmed>>
    BY <1>3 DEF VerifySteps, claimPendingLogin, verifyCode, Spend, CheckUser,
                createSessionForVerifiedUser, history
<1>4. ASSUME NEW r \in Requests, PasswordSteps(r) PROVE links' \subseteq links /\ UNCHANGED confirmed
    BY <1>4 DEF PasswordSteps, Reset, Change, updateUserPassword, markResetTokenUsed,
                markUnusedResetTokensUsed, deleteSessions, history
<1>5. ASSUME NEW r \in Requests, FactorSteps(r) \/ suspendUser(r) \/ Evict(r) \/ Fails(r)
      PROVE  UNCHANGED links /\ (UNCHANGED confirmed \/ confirmSetup(r))
    BY <1>5 DEF FactorSteps, beginSetup, StoreSecret, confirmSetup, disable, Off, Evict,
                regenerateBackupCodes, DeleteCodes, Replace, suspendUser, Fails, history
<1>6. ASSUME NEW r \in Requests, confirmSetup(r) PROVE confirmed' \subseteq Ids
    BY <1>1, <1>6 DEF confirmSetup
<1>7. CASE requestPasswordReset
    <2>1. made'["link"] \in Ids
        BY <1>7, MakesAnId DEF requestPasswordReset, Kinds
    <2>2. QED
        BY <1>1, <1>7, <2>1 DEF requestPasswordReset, history
<1>8. CASE SessionEnds \/ signOutEverywhere \/ Lapses \/ unsuspendUser \/ UNCHANGED vars
    BY <1>1, <1>8 DEF SessionEnds, signOutEverywhere, Lapses, unsuspendUser, vars, history
<1>9. QED
    BY <1>1, <1>2, <1>3, <1>4, <1>5, <1>6, <1>7, <1>8 DEF Next

LEMMA CountersKept ==
    ASSUME AccountInv, [Next]_vars
    PROVE  /\ suspended' \in BOOLEAN /\ cleared' \in BOOLEAN
           /\ begun' \in 0 .. MaxBegun
<1>1. suspended \in BOOLEAN /\ cleared \in BOOLEAN /\ begun \in 0 .. MaxBegun
    BY DEF AccountInv, RowsFit
<1>2. ASSUME NEW r \in Requests, NEW q, Begins(r, q) PROVE begun' \in 0 .. MaxBegun
    BY <1>1, <1>2, BoundsAssumption DEF Begins
<1>3. ASSUME NEW r \in Requests, SignInSteps(r)
      PROVE  UNCHANGED <<suspended, cleared>> /\ (UNCHANGED begun \/ \E q : Begins(r, q))
    BY <1>3 DEF SignInSteps, SignIn, createSession, CheckSuspended, CheckFactor, Discard,
                createPendingLogin, history
<1>4. ASSUME NEW r \in Requests, VerifySteps(r)
      PROVE  UNCHANGED <<suspended, cleared>> /\ (UNCHANGED begun \/ \E q : Begins(r, q))
    BY <1>4 DEF VerifySteps, claimPendingLogin, verifyCode, Spend, CheckUser,
                createSessionForVerifiedUser, history
<1>5. ASSUME NEW r \in Requests, PasswordSteps(r)
      PROVE  UNCHANGED <<suspended, cleared>> /\ (UNCHANGED begun \/ \E q : Begins(r, q))
    BY <1>5 DEF PasswordSteps, Reset, Change, updateUserPassword, markResetTokenUsed,
                markUnusedResetTokensUsed, deleteSessions, history
<1>6. ASSUME NEW r \in Requests, FactorSteps(r) \/ Fails(r)
      PROVE  UNCHANGED <<suspended, cleared>> /\ (UNCHANGED begun \/ \E q : Begins(r, q))
    BY <1>6 DEF FactorSteps, beginSetup, StoreSecret, confirmSetup, disable, Off,
                regenerateBackupCodes, DeleteCodes, Replace, Fails, history
<1>7. ASSUME NEW r \in Requests, suspendUser(r) \/ Evict(r)
      PROVE  /\ suspended' \in BOOLEAN /\ cleared' \in BOOLEAN
             /\ UNCHANGED begun \/ \E q : Begins(r, q)
    BY <1>1, <1>7 DEF suspendUser, Evict
<1>8. CASE requestPasswordReset \/ SessionEnds \/ signOutEverywhere \/ Lapses \/ unsuspendUser
           \/ UNCHANGED vars
    BY <1>1, <1>8 DEF requestPasswordReset, SessionEnds, signOutEverywhere, Lapses, unsuspendUser,
                      vars, history
<1>9. QED
    BY <1>1, <1>2, <1>3, <1>4, <1>5, <1>6, <1>7, <1>8 DEF Next

LEMMA AccountInvIsKept == AccountInv /\ [Next]_vars => AccountInv'
BY RequestsKept, PasswordsKept, SessionsKept, CodesKept, LinksKept, CountersKept
   DEF AccountInv, RowsFit

\* Rows and requests keep their form, whatever overlaps and fails (auth-service.ts,
\* twoFactor.ts, suspension.ts).
THEOREM AccountTypeCorrect == Spec => []TypeOK
<1>1. AccountInv => TypeOK
    BY DEF AccountInv, RequestsFit, PasswordsFit, RowsFit, WellFormed, TypeOK
<1>2. QED
    BY <1>1, AccountInitHolds, AccountInvIsKept, PTL DEF Spec

----------------------------------------------------------------------------
(* The sessions that a change of password leaves.                          *)

\* The order of a session's numbers that decides whether it may outlive a change.
Outlives(s, n) == s.pwd < n => s.kept >= n \/ (s.since < n /\ s.opened >= n)

LEMMA OldPasswordsInitLapse == Init => OldPasswordsLapse
BY DEF Init, OldPasswordsLapse

LEMMA OldPasswordsKeepLapsing ==
    ASSUME AccountInv, OldPasswordsLapse, [Next]_vars
    PROVE  OldPasswordsLapse'
<1>1. /\ sessions \subseteq Session /\ settled \in Passwords /\ settled \in Nat
      /\ \A s \in sessions : Outlives(s, settled)
    BY IdsAreNumbers DEF AccountInv, RowsFit, PasswordsFit, OldPasswordsLapse, Outlives
<1>2. ASSUME \A s \in sessions' : Outlives(s, settled') PROVE OldPasswordsLapse'
    BY <1>2 DEF OldPasswordsLapse, Outlives
<1>3. ASSUME NEW r \in Requests, deleteSessions(r) PROVE \A s \in sessions' : Outlives(s, settled')
    <2>1. PICK n \in Passwords : n = req[r].pwd
        BY RequestIs DEF Request
    <2>2. PICK m \in Passwords : /\ settled' = m /\ m \in {settled, n} /\ n <= m
                                 /\ m \in Nat /\ n \in Nat
        BY <1>1, <1>3, <2>1, LargerIs, IdsAreNumbers DEF deleteSessions
    <2>3. ASSUME NEW s \in sessions'
          PROVE  Outlives(s, m)
        <3>1. PICK t \in sessions : /\ t.id = req[r].id
                                    /\ s = [t EXCEPT !.kept = Larger(t.kept, n)]
            BY <1>3, <2>1 DEF deleteSessions, Kept
        <3>2. t \in Session /\ Outlives(t, settled)
            BY <1>1
        <3>3. PICK k \in Passwords : k = Larger(t.kept, n) /\ k >= n /\ k >= t.kept
            BY <3>2, LargerIs DEF Session
        <3>4. /\ s.kept = k /\ s.pwd = t.pwd /\ s.since = t.since /\ s.opened = t.opened
            BY <3>1, <3>2, <3>3 DEF Session
        <3>5. t.kept \in Nat /\ k \in Nat
            BY <3>2, <3>3, IdsAreNumbers DEF Session
        <3>6. CASE m = n
            BY <3>3, <3>4, <3>6 DEF Outlives
        <3>7. CASE m = settled
            BY <1>1, <3>2, <3>3, <3>4, <3>5, <3>7 DEF Outlives
        <3>8. QED
            BY <2>2, <3>6, <3>7
    <2>4. QED
        BY <2>2, <2>3
<1>4. ASSUME UNCHANGED settled, NEW r \in Requests,
             createSession(r) \/ createSessionForVerifiedUser(r)
      PROVE  \A s \in sessions' : Outlives(s, settled')
    <2>1. PICK second \in BOOLEAN : sessions' = sessions \cup {Opened(req[r], second)}
        BY <1>4 DEF createSession, createSessionForVerifiedUser
    <2>2. PICK s : s = Opened(req[r], second)
        OBVIOUS
    <2>3. s.pwd = req[r].pwd /\ s.since = req[r].since /\ s.opened = settled
        BY <2>2 DEF Opened
    <2>4. req[r].since <= req[r].pwd /\ req[r].since \in Nat /\ req[r].pwd \in Nat
        BY RequestIs, IdsAreNumbers DEF WellFormed, Request
    <2>5. Outlives(s, settled)
        BY <1>1, <2>3, <2>4 DEF Outlives
    <2>6. QED
        BY <1>1, <1>4, <2>1, <2>2, <2>5
<1>5. ASSUME UNCHANGED settled, NEW r \in Requests, CheckFactor(r) \/ Discard(r) \/ Evict(r)
      PROVE  \A s \in sessions' : Outlives(s, settled')
    <2>1. \A s \in sessions : Outlives([s EXCEPT !.handed = TRUE], settled)
        BY <1>1 DEF Outlives, Session
    <2>2. QED
        BY <1>1, <1>5, <2>1 DEF CheckFactor, Discard, Evict
<1>6. ASSUME UNCHANGED settled, UNCHANGED sessions \/ SessionEnds \/ signOutEverywhere
      PROVE  \A s \in sessions' : Outlives(s, settled')
    BY <1>1, <1>6 DEF SessionEnds, signOutEverywhere, SignedIn
<1>7. CASE \E r \in Requests : deleteSessions(r)
    BY <1>2, <1>3, <1>7
<1>8. CASE ~\E r \in Requests : deleteSessions(r)
    <2>1. UNCHANGED settled
        BY <1>8, PasswordsChangeBy
    <2>2. QED
        BY <1>2, <1>4, <1>5, <1>6, <1>8, <2>1, SessionsChangeBy DEF OpensOrEnds
<1>9. QED
    BY <1>7, <1>8

\* However changes, resets, sign-ins and failures overlap, no session outlives a change
\* of password that has run its course, but for the one that made it and those whose
\* sign-in had begun before (updatePassword, confirmPasswordReset).
THEOREM OldPasswordsAlwaysLapse == Spec => []OldPasswordsLapse
<1>1. Init => AccountInv /\ OldPasswordsLapse
    BY AccountInitHolds, OldPasswordsInitLapse
<1>2. AccountInv /\ OldPasswordsLapse /\ [Next]_vars => AccountInv' /\ OldPasswordsLapse'
    BY AccountInvIsKept, OldPasswordsKeepLapsing
<1>3. QED
    BY <1>1, <1>2, PTL DEF Spec

----------------------------------------------------------------------------
(* The sessions that a suspension leaves.                                  *)

\* Besides, no sign-in that has found no suspension still has a session to hand out.
SuspensionInv ==
    suspended /\ cleared =>
        \A s \in sessions : /\ s.handed => s.second
                            /\ \A r \in Requests : req[r].pc = "factor" => req[r].id # s.id

LEMMA SuspensionChangesBy ==
    ASSUME [Next]_vars
    PROVE  \/ UNCHANGED <<suspended, cleared>> \/ unsuspendUser
           \/ \E r \in Requests : suspendUser(r) \/ Evict(r)
<1>1. ASSUME NEW r \in Requests, SignInSteps(r) \/ VerifySteps(r)
      PROVE  UNCHANGED <<suspended, cleared>>
    BY <1>1 DEF SignInSteps, SignIn, createSession, CheckSuspended, CheckFactor, Discard,
                createPendingLogin, VerifySteps, claimPendingLogin, verifyCode, Spend, CheckUser,
                createSessionForVerifiedUser, history
<1>2. ASSUME NEW r \in Requests, PasswordSteps(r) PROVE UNCHANGED <<suspended, cleared>>
    BY <1>2 DEF PasswordSteps, Reset, Change, updateUserPassword, markResetTokenUsed,
                markUnusedResetTokensUsed, deleteSessions, history
<1>3. ASSUME NEW r \in Requests, FactorSteps(r) \/ Fails(r) PROVE UNCHANGED <<suspended, cleared>>
    BY <1>3 DEF FactorSteps, beginSetup, StoreSecret, confirmSetup, disable, Off,
                regenerateBackupCodes, DeleteCodes, Replace, Fails, history
<1>4. CASE requestPasswordReset \/ SessionEnds \/ signOutEverywhere \/ Lapses \/ UNCHANGED vars
    BY <1>4 DEF requestPasswordReset, SessionEnds, signOutEverywhere, Lapses, vars, history
<1>5. QED
    BY <1>1, <1>2, <1>3, <1>4 DEF Next

\* How a request that is no second step's goes on: to "factor" only where no suspension
\* is in force, and never to a second step of a sign-in.
Plain(q, p) ==
    /\ p.pc = "factor" => ~suspended
    /\ p.kind = "verify" => q.kind = "verify" /\ p.id = q.id

PlainStep(r) == \E p : Becomes(r, p) /\ Plain(req[r], p)

LEMMA PlainPc ==
    ASSUME NEW q \in Request, NEW pc, pc # "factor"
    PROVE  Plain(q, [q EXCEPT !.pc = pc])
BY DEF Plain, Request

LEMMA SignInIsPlain ==
    ASSUME AccountInv, NEW r \in Requests, SignInSteps(r)
    PROVE  PlainStep(r)
<1> DEFINE q == req[r]
<1>1. q \in Request /\ WellFormed(q) /\ Plain(q, Idle)
    BY RequestIs DEF Plain, Idle
<1>2. CASE SignIn(r)
    <2>1. PICK p : p = [Idle EXCEPT !.pc = "session", !.pwd = password, !.since = settled]
        OBVIOUS
    <2>2. Becomes(r, p) /\ p.pc = "session" /\ p.kind = "signin"
        BY <1>2, <2>1 DEF SignIn, Begins, Idle
    <2>3. QED
        BY <2>2 DEF PlainStep, Plain
<1>3. CASE createSession(r)
    <2>1. PICK p : p = [q EXCEPT !.pc = "suspended", !.id = NewId]
        OBVIOUS
    <2>2. Becomes(r, p) /\ p.pc = "suspended" /\ p.kind = q.kind /\ q.kind # "verify"
        BY <1>1, <1>3, <2>1 DEF createSession, Held, WellFormed, Request
    <2>3. QED
        BY <2>2 DEF PlainStep, Plain
<1>4. CASE CheckSuspended(r)
    <2>1. PICK p : p = [q EXCEPT !.pc = IF suspended THEN "discard" ELSE "factor"]
        OBVIOUS
    <2>2. Becomes(r, p) /\ p.kind = q.kind /\ p.id = q.id
          /\ (p.pc = "factor" => ~suspended)
        BY <1>1, <1>4, <2>1 DEF CheckSuspended, isUserSuspended, Request
    <2>3. QED
        BY <2>2 DEF PlainStep, Plain
<1>5. CASE CheckFactor(r)
    <2>1. PICK p : p = [q EXCEPT !.pc = "discard", !.again = TRUE]
        OBVIOUS
    <2>2. Plain(q, p)
        BY <1>1, <2>1 DEF Plain, Request
    <2>3. Becomes(r, p) \/ Becomes(r, Idle)
        BY <1>5, <2>1 DEF CheckFactor
    <2>4. QED
        BY <1>1, <2>2, <2>3 DEF PlainStep
<1>6. CASE Discard(r)
    <2>1. PICK p : p = [q EXCEPT !.pc = "pend", !.id = None]
        OBVIOUS
    <2>2. p.pc = "pend" /\ p.kind = q.kind /\ q.kind # "verify"
        BY <1>1, <1>6, <2>1 DEF Discard, WellFormed, Request
    <2>3. Becomes(r, p) \/ Becomes(r, Idle)
        BY <1>6, <2>1 DEF Discard
    <2>4. QED
        BY <1>1, <2>2, <2>3 DEF PlainStep, Plain
<1>7. CASE createPendingLogin(r)
    BY <1>1, <1>7 DEF createPendingLogin, PlainStep
<1>8. QED
    BY <1>2, <1>3, <1>4, <1>5, <1>6, <1>7 DEF SignInSteps

LEMMA VerifyIsPlain ==
    ASSUME AccountInv, NEW r \in Requests, VerifySteps(r), ~claimPendingLogin(r)
    PROVE  PlainStep(r)
<1> DEFINE q == req[r]
<1>1. q \in Request /\ WellFormed(q) /\ Plain(q, Idle)
    BY RequestIs DEF Plain, Idle
<1>2. q.pc \in {"code", "spend"} => Plain(q, AfterCode(q))
    <2>1. q.pc \in {"code", "spend"} => AfterCode(q) \in
            {[q EXCEPT !.pc = pc] : pc \in {"check", "off", "begin"}}
        BY <1>1 DEF AfterCode, WellFormed
    <2>2. QED
        BY <1>1, <2>1, PlainPc
<1>3. CASE verifyCode(r)
    <2>1. ASSUME NEW c PROVE Plain(q, [q EXCEPT !.pc = "spend", !.code = c])
        BY <1>1 DEF Plain, Request
    <2>2. QED
        BY <1>1, <1>2, <1>3, <2>1 DEF verifyCode, PlainStep
<1>4. CASE Spend(r)
    BY <1>1, <1>2, <1>4 DEF Spend, PlainStep
<1>5. CASE CheckUser(r)
    BY <1>1, <1>5, PlainPc DEF CheckUser, PlainStep
<1>6. CASE createSessionForVerifiedUser(r)
    BY <1>1, <1>6 DEF createSessionForVerifiedUser, PlainStep
<1>7. QED
    BY <1>3, <1>4, <1>5, <1>6 DEF VerifySteps

LEMMA PasswordIsPlain ==
    ASSUME AccountInv, NEW r \in Requests, PasswordSteps(r)
    PROVE  PlainStep(r)
<1> DEFINE q == req[r]
<1>1. q \in Request /\ WellFormed(q) /\ Plain(q, Idle)
    BY RequestIs DEF Plain, Idle
<1>2. CASE Reset(r) \/ Change(r)
    <2>1. ASSUME NEW i, NEW kind \in {"reset", "change"}
          PROVE  Plain(q, [Idle EXCEPT !.pc = "write", !.kind = kind, !.id = i])
        BY DEF Plain, Idle
    <2>2. QED
        BY <1>2, <2>1 DEF Reset, Change, Begins, PlainStep
<1>3. CASE updateUserPassword(r)
    <2>1. ASSUME NEW pc \in {"mark", "clear"}, NEW n
          PROVE  Plain(q, [q EXCEPT !.pc = pc, !.pwd = n])
        BY <1>1 DEF Plain, Request
    <2>2. QED
        BY <1>3, <2>1 DEF updateUserPassword, PlainStep
<1>4. CASE markResetTokenUsed(r)
    <2>1. PICK p : p = [q EXCEPT !.pc = "markAll", !.id = None]
        OBVIOUS
    <2>2. Becomes(r, p) /\ p.pc = "markAll" /\ p.kind = q.kind /\ q.kind # "verify"
        BY <1>1, <1>4, <2>1 DEF markResetTokenUsed, WellFormed, Request
    <2>3. QED
        BY <2>2 DEF PlainStep, Plain
<1>5. CASE markUnusedResetTokensUsed(r)
    BY <1>1, <1>5, PlainPc DEF markUnusedResetTokensUsed, PlainStep
<1>6. CASE deleteSessions(r)
    BY <1>1, <1>6 DEF deleteSessions, PlainStep
<1>7. QED
    BY <1>2, <1>3, <1>4, <1>5, <1>6 DEF PasswordSteps

LEMMA FactorIsPlain ==
    ASSUME AccountInv, NEW r \in Requests, FactorSteps(r) \/ suspendUser(r) \/ Evict(r) \/ Fails(r)
    PROVE  PlainStep(r)
<1> DEFINE q == req[r]
<1>1. q \in Request /\ Plain(q, Idle)
    BY RequestIs DEF Plain, Idle
<1>2. CASE StoreSecret(r) \/ Replace(r) \/ Evict(r) \/ Fails(r)
    BY <1>1, <1>2 DEF StoreSecret, Replace, Evict, Fails, PlainStep
<1>3. CASE beginSetup(r) \/ confirmSetup(r) \/ disable(r) \/ regenerateBackupCodes(r)
           \/ suspendUser(r)
    <2>1. ASSUME NEW pc, NEW kind, pc # "factor", kind # "verify"
          PROVE  Plain(q, [Idle EXCEPT !.pc = pc, !.kind = kind])
        BY <2>1 DEF Plain, Idle
    <2>2. QED
        BY <1>3, <2>1 DEF beginSetup, confirmSetup, disable, regenerateBackupCodes, suspendUser,
                          Begins, PlainStep
<1>4. CASE Off(r)
    BY <1>1, <1>4, PlainPc DEF Off, PlainStep
<1>5. CASE DeleteCodes(r)
    <2>1. Plain(q, [q EXCEPT !.pc = "replace", !.code = None, !.sees = codes])
        BY <1>1 DEF Plain, Request
    <2>2. QED
        BY <1>5, <2>1 DEF DeleteCodes, PlainStep
<1>6. QED
    BY <1>2, <1>3, <1>4, <1>5 DEF FactorSteps

LEMMA StepsArePlain ==
    ASSUME AccountInv, [Next]_vars
    PROVE  \/ UNCHANGED req
           \/ \E r \in Requests : PlainStep(r) \/ claimPendingLogin(r)
<1>1. CASE \E r \in Requests : \/ SignInSteps(r) \/ VerifySteps(r) \/ PasswordSteps(r)
                               \/ FactorSteps(r) \/ suspendUser(r) \/ Evict(r) \/ Fails(r)
    BY <1>1, SignInIsPlain, VerifyIsPlain, PasswordIsPlain, FactorIsPlain
<1>2. CASE \/ requestPasswordReset \/ SessionEnds \/ signOutEverywhere \/ Lapses \/ unsuspendUser
           \/ UNCHANGED vars
    BY <1>2 DEF requestPasswordReset, SessionEnds, signOutEverywhere, Lapses, unsuspendUser, vars
<1>3. QED
    BY <1>1, <1>2 DEF Next

LEMMA FactorsStay ==
    ASSUME AccountInv, [Next]_vars, suspended, NEW r \in Requests, req'[r].pc = "factor"
    PROVE  req[r].pc = "factor" /\ req'[r].id = req[r].id
<1>1. req \in [Requests -> Request]
    BY DEF AccountInv, RequestsFit
<1>2. ASSUME NEW o \in Requests, PlainStep(o) \/ claimPendingLogin(o)
      PROVE  req'[r] = req[r]
    <2>1. PICK p : Becomes(o, p) /\ p.pc # "factor"
        <3>1. CASE PlainStep(o)
            BY <3>1 DEF PlainStep, Plain
        <3>2. CASE claimPendingLogin(o)
            <4>1. \A m : [Idle EXCEPT !.pc = "code", !.kind = "verify", !.id = m.id,
                                      !.pwd = m.pwd, !.since = m.since].pc = "code"
                BY DEF Idle
            <4>2. QED
                BY <3>2, <4>1 DEF claimPendingLogin, Begins
        <3>3. QED
            BY <1>2, <3>1, <3>2
    <2>2. QED
        BY <1>1, <2>1 DEF Becomes
<1>3. QED
    BY <1>2, StepsArePlain

LEMMA SuspensionKept ==
    ASSUME AccountInv, SuspensionInv, [Next]_vars
    PROVE  SuspensionInv'
<1>1. CASE \E r \in Requests : Evict(r)
    BY <1>1 DEF Evict, SuspensionInv
<1>2. CASE unsuspendUser
    BY <1>2 DEF unsuspendUser, SuspensionInv
<1>3. ASSUME NEW r \in Requests, suspendUser(r) PROVE SuspensionInv'
    <2>1. cleared' => suspended /\ cleared
        BY <1>3 DEF suspendUser
    <2>2. UNCHANGED sessions
        BY <1>3 DEF suspendUser
    <2>3. cleared' => \A o \in Requests : req'[o].pc = "factor" =>
                          req[o].pc = "factor" /\ req'[o].id = req[o].id
        BY <2>1, FactorsStay
    <2>4. QED
        BY <2>1, <2>2, <2>3 DEF SuspensionInv
<1>4. ASSUME UNCHANGED <<suspended, cleared>> PROVE SuspensionInv'
    <2> SUFFICES ASSUME suspended, cleared
                 PROVE  \A s \in sessions' :
                            /\ s.handed => s.second
                            /\ \A o \in Requests : req'[o].pc = "factor" => req'[o].id # s.id
        BY <1>4 DEF SuspensionInv
    <2>1. \A o \in Requests : req'[o].pc = "factor" =>
                req[o].pc = "factor" /\ req'[o].id = req[o].id
        BY FactorsStay
    <2>2. SUFFICES ASSUME NEW s \in sessions'
                   PROVE  /\ s.handed => s.second
                          /\ \A o \in Requests : req[o].pc = "factor" => req[o].id # s.id
        BY <2>1
    <2>3. /\ sessions \subseteq Session
          /\ \A t \in sessions : /\ t.handed => t.second
                                 /\ \A o \in Requests : req[o].pc = "factor" => req[o].id # t.id
        BY DEF SuspensionInv, AccountInv, RowsFit
    <2>4. CASE s \in sessions
        BY <2>3, <2>4
    <2>5. ASSUME NEW r \in Requests, createSession(r) \/ createSessionForVerifiedUser(r), s \notin sessions
          PROVE  /\ s.handed => s.second
                 /\ \A o \in Requests : req[o].pc = "factor" => req[o].id # s.id
        <3>1. PICK second \in BOOLEAN : s = Opened(req[r], second) /\ Free # {}
            BY <2>5 DEF createSession, createSessionForVerifiedUser
        <3>2. s.handed = second /\ s.second = second
            BY <3>1 DEF Opened
        <3>3. QED
            BY <3>1, <3>2, OpenedIs
    <2>6. ASSUME NEW r \in Requests, CheckFactor(r), s \notin sessions
          PROVE  FALSE
        BY <2>3, <2>6 DEF CheckFactor
    <2>7. ASSUME NEW r \in Requests, deleteSessions(r), s \notin sessions
          PROVE  /\ s.handed => s.second
                 /\ \A o \in Requests : req[o].pc = "factor" => req[o].id # s.id
        <3>1. PICK t \in sessions : s = [t EXCEPT !.kept = Larger(t.kept, req[r].pwd)]
            BY <2>7 DEF deleteSessions, Kept
        <3>2. s.handed = t.handed /\ s.second = t.second /\ s.id = t.id
            BY <2>3, <3>1 DEF Session
        <3>3. QED
            BY <2>3, <3>2
    <2>8. ASSUME NEW r \in Requests, Discard(r) \/ Evict(r) PROVE s \in sessions
        BY <2>8 DEF Discard, Evict
    <2>9. CASE UNCHANGED sessions \/ SessionEnds \/ signOutEverywhere
        BY <2>4, <2>9 DEF SessionEnds, signOutEverywhere, SignedIn
    <2>10. QED
        BY <2>4, <2>5, <2>6, <2>7, <2>8, <2>9, SessionsChangeBy DEF OpensOrEnds
<1>5. QED
    BY <1>1, <1>2, <1>3, <1>4, SuspensionChangesBy

\* A suspension that has ended the sessions leaves none that a password alone opened, not
\* even one of a sign-in that was under way (signInHandler, suspendUser).
THEOREM SuspensionAlwaysLeavesNone == Spec => []SuspensionLeavesNone
<1>1. Init => AccountInv /\ SuspensionInv
    BY AccountInitHolds DEF Init, SuspensionInv
<1>2. AccountInv /\ SuspensionInv /\ [Next]_vars => AccountInv' /\ SuspensionInv'
    BY AccountInvIsKept, SuspensionKept
<1>3. SuspensionInv => SuspensionLeavesNone
    BY DEF SuspensionInv, SuspensionLeavesNone
<1>4. QED
    BY <1>1, <1>2, <1>3, PTL DEF Spec

----------------------------------------------------------------------------
(* What is good once.                                                      *)

\* A pending sign-in that is claimed leaves its table; one that is opened leaves its
\* request; and neither returns, their ids being those made so far.
PendingInv ==
    /\ \A p \in pending : p.id <= made["pending"] /\ uses[<<"pending", p.id>>] = 0
    /\ \A p, q \in pending : p.id = q.id => p = q
    /\ \A r \in Requests : req[r].kind = "verify" =>
           /\ req[r].id <= made["pending"] /\ uses[<<"pending", req[r].id>>] = 0
           /\ \A p \in pending : p.id # req[r].id
           /\ \A o \in Requests \ {r} : req[o].kind = "verify" => req[o].id # req[r].id
    /\ \A i \in Ids : uses[<<"pending", i>>] <= 1
    /\ \A i \in Ids : i > made["pending"] => uses[<<"pending", i>>] = 0

\* A backup code that is used is deleted by the same statement.
CodesInv ==
    /\ \A c \in codes : c <= made["codes"] /\ uses[<<"code", c>>] = 0
    /\ \A i \in Ids : uses[<<"code", i>>] <= 1
    /\ \A i \in Ids : i > made["codes"] => uses[<<"code", i>>] = 0

LEMMA UsesIs ==
    ASSUME AccountInv, NEW k \in Once, NEW i \in Ids, Uses(k, i)
    PROVE  /\ uses'[<<k, i>>] = uses[<<k, i>>] + 1
           /\ \A l \in Once, j \in Ids : <<l, j>> # <<k, i>> => uses'[<<l, j>>] = uses[<<l, j>>]
BY DEF AccountInv, RowsFit, Uses

LEMMA OnceInitHolds == Init => PendingInv /\ CodesInv
<1> SUFFICES ASSUME Init PROVE PendingInv /\ CodesInv
    OBVIOUS
<1>1. \A k \in Once, i \in Ids : uses[<<k, i>>] = 0
    BY DEF Init
<1>2. \A r \in Requests : req[r].kind # "verify"
    BY DEF Init, Idle
<1>3. \A c \in codes : c <= made["codes"] /\ c \in Ids
    BY IdsAreNumbers DEF Init, Kinds
<1>4. {"pending", "code"} \subseteq Once /\ pending = {}
    BY DEF Once, Init
<1>5. QED
    BY <1>1, <1>2, <1>3, <1>4 DEF PendingInv, CodesInv

\* Backup codes and pending sign-ins are made, and used, by one statement each.
LEMMA OnceChangesBy ==
    ASSUME AccountInv, [Next]_vars
    PROVE  /\ \/ \A i \in Ids : uses'[<<"code", i>>] = uses[<<"code", i>>]
              \/ \E r \in Requests : Spend(r)
           /\ \/ \A i \in Ids : uses'[<<"pending", i>>] = uses[<<"pending", i>>]
              \/ \E r \in Requests : createSessionForVerifiedUser(r)
           /\ made'["codes"] = made["codes"] \/ \E r \in Requests : Replace(r)
           /\ made'["pending"] = made["pending"] \/ \E r \in Requests : createPendingLogin(r)
<1>1. {"code", "pending", "link"} \subseteq Once
    BY DEF Once
<1>2. ASSUME NEW r \in Requests, Spend(r), NEW i \in Ids
      PROVE  uses'[<<"pending", i>>] = uses[<<"pending", i>>]
    <2>1. req[r].code \in Ids
        BY <1>2, RequestIs DEF Spend, Request, WellFormed
    <2>2. UNCHANGED uses \/ Uses("code", req[r].code)
        BY <1>2 DEF Spend
    <2>3. <<"pending", i>> # <<"code", req[r].code>>
        OBVIOUS
    <2>4. QED
        BY <1>1, <2>1, <2>2, <2>3, UsesIs
<1>3. ASSUME NEW r \in Requests, createSessionForVerifiedUser(r), NEW i \in Ids
      PROVE  uses'[<<"code", i>>] = uses[<<"code", i>>]
    <2>1. req[r].id \in Ids
        BY <1>3, RequestIs DEF createSessionForVerifiedUser, Request, WellFormed
    <2>2. QED
        BY <1>1, <1>3, <2>1, UsesIs DEF createSessionForVerifiedUser
<1>4. ASSUME NEW r \in Requests, updateUserPassword(r), NEW i \in Ids
      PROVE  /\ uses'[<<"code", i>>] = uses[<<"code", i>>]
             /\ uses'[<<"pending", i>>] = uses[<<"pending", i>>]
    <2>1. CASE req[r].kind = "reset"
        <3>1. req[r].id \in Ids
            BY <1>4, <2>1, RequestIs DEF updateUserPassword, Request, WellFormed
        <3>2. QED
            BY <1>1, <1>4, <2>1, <3>1, UsesIs DEF updateUserPassword
    <2>2. CASE req[r].kind # "reset"
        BY <1>4, <2>2 DEF updateUserPassword
    <2>3. QED
        BY <2>1, <2>2
<1>5. ASSUME NEW k \in Kinds, Makes(k)
      PROVE  \A o \in Kinds \ {k} : made'[o] = made[o]
    BY <1>5, MakesAnId
<1>6. made'["codes"] = made["codes"] \/ \E r \in Requests : Replace(r)
    BY <1>5, CodesChangeBy DEF requestPasswordReset, createPendingLogin, StoreSecret, Kinds
<1>7. made'["pending"] = made["pending"] \/ \E r \in Requests : createPendingLogin(r)
    BY <1>5, CodesChangeBy DEF requestPasswordReset, StoreSecret, Replace, Kinds
<1>8. QED
    BY <1>2, <1>3, <1>4, <1>6, <1>7, CodesChangeBy

LEMMA CodesOnceKept ==
    ASSUME AccountInv, CodesInv, [Next]_vars
    PROVE  CodesInv'
<1>1. /\ codes \subseteq Ids /\ Ids \subseteq Nat /\ made["codes"] \in Nat
      /\ \A i \in Ids : uses[<<"code", i>>] \in Nat
    BY IdsAreNumbers, BoundsAssumption DEF AccountInv, RowsFit, Kinds, Once
<1>2. ASSUME NEW r \in Requests, Spend(r) PROVE CodesInv'
    <2>1. PICK c \in Ids : c = req[r].code
        BY <1>2, RequestIs DEF Spend, Request, WellFormed
    <2>2. UNCHANGED made
        BY <1>2 DEF Spend
    <2>3. CASE c \in codes
        <3>1. codes' = codes \ {c} /\ Uses("code", c)
            BY <1>2, <2>1, <2>3 DEF Spend, Unused
        <3>2. /\ uses'[<<"code", c>>] = uses[<<"code", c>>] + 1
              /\ \A i \in Ids : i # c => uses'[<<"code", i>>] = uses[<<"code", i>>]
            BY <3>1, UsesIs DEF Once
        <3>3. uses'[<<"code", c>>] = 1 /\ c <= made["codes"]
            BY <2>3, <3>2 DEF CodesInv
        <3>4. QED
            BY <1>1, <2>2, <3>1, <3>2, <3>3 DEF CodesInv
    <2>4. CASE c \notin codes
        BY <1>2, <2>1, <2>2, <2>4 DEF Spend, Unused, CodesInv
    <2>5. QED
        BY <2>3, <2>4
<1>3. ASSUME NEW r \in Requests, Replace(r) PROVE CodesInv'
    <2>1. UNCHANGED uses
        BY <1>3 DEF Replace, history
    <2>2. CASE req[r].kind = "disable"
        BY <1>3, <2>1, <2>2 DEF Replace, CodesInv
    <2>3. CASE req[r].kind # "disable"
        <3>1. /\ codes' = (codes \ req[r].sees) \cup {made'["codes"]}
              /\ made'["codes"] = made["codes"] + 1 /\ made'["codes"] \in Ids
            BY <1>3, <2>3, MakesAnId DEF Replace, Kinds
        <3>2. made["codes"] < made'["codes"]
            BY <1>1, <3>1
        <3>3. uses[<<"code", made'["codes"]>>] = 0
            BY <3>1, <3>2 DEF CodesInv
        <3>4. ASSUME NEW c \in codes' PROVE c <= made'["codes"] /\ uses[<<"code", c>>] = 0
            <4>1. CASE c = made'["codes"]
                BY <1>1, <3>1, <3>3, <4>1
            <4>2. CASE c # made'["codes"]
                <5>1. c \in codes /\ c \in Nat /\ c <= made["codes"] /\ uses[<<"code", c>>] = 0
                    BY <1>1, <3>1, <4>2 DEF CodesInv
                <5>2. QED
                    BY <1>1, <3>1, <5>1
            <4>3. QED
                BY <4>1, <4>2
        <3>5. \A i \in Ids : i > made'["codes"] => i > made["codes"]
            BY <1>1, <3>1
        <3>6. QED
            BY <2>1, <3>4, <3>5 DEF CodesInv
    <2>4. QED
        BY <2>2, <2>3
<1>4. CASE ~\E r \in Requests : Spend(r) \/ Replace(r)
    <2>1. /\ UNCHANGED codes /\ made'["codes"] = made["codes"]
          /\ \A i \in Ids : uses'[<<"code", i>>] = uses[<<"code", i>>]
        BY <1>4, CodesChangeBy, OnceChangesBy
    <2>2. QED
        BY <1>1, <2>1 DEF CodesInv
<1>5. QED
    BY <1>2, <1>3, <1>4

LEMMA PendingOnceKept ==
    ASSUME AccountInv, PendingInv, [Next]_vars
    PROVE  PendingInv'
<1>1. /\ pending \subseteq Pending /\ Ids \subseteq Nat /\ made["pending"] \in Nat
      /\ \A i \in Ids : uses[<<"pending", i>>] \in Nat
      /\ req \in [Requests -> Request]
      /\ \A p \in pending : p.id \in Ids
      /\ \A r \in Requests : req[r].kind = "verify" => req[r].id \in Ids
    BY IdsAreNumbers, BoundsAssumption
       DEF AccountInv, RowsFit, PasswordsFit, RequestsFit, WellFormed, Request, Kinds, Once, Pending
<1>2. ASSUME NEW r \in Requests, claimPendingLogin(r) PROVE PendingInv'
    <2>1. PICK p \in pending :
            /\ pending' = pending \ {p}
            /\ Becomes(r, [Idle EXCEPT !.pc = "code", !.kind = "verify", !.id = p.id,
                                       !.pwd = p.pwd, !.since = p.since])
        BY <1>2 DEF claimPendingLogin, Claimed, Begins
    <2>2. req'[r].id = p.id /\ \A o \in Requests \ {r} : req'[o] = req[o]
        BY <1>1, <2>1 DEF Becomes, Idle
    <2>3. UNCHANGED <<made, uses>>
        BY <1>2 DEF claimPendingLogin, history
    <2>4. \A m \in pending' : m \in pending /\ m.id # p.id
        BY <2>1 DEF PendingInv
    <2>5. ASSUME NEW o \in Requests, req'[o].kind = "verify"
          PROVE  /\ req'[o].id <= made["pending"] /\ uses[<<"pending", req'[o].id>>] = 0
                 /\ \A m \in pending' : m.id # req'[o].id
                 /\ \A a \in Requests \ {o} : req'[a].kind = "verify" => req'[a].id # req'[o].id
        BY <2>1, <2>2, <2>4, <2>5 DEF PendingInv
    <2>6. QED
        BY <2>3, <2>4, <2>5 DEF PendingInv
<1>3. ASSUME ~\E r \in Requests : claimPendingLogin(r), NEW r \in Requests, req'[r].kind = "verify"
      PROVE  req[r].kind = "verify" /\ req'[r].id = req[r].id
    <2>1. CASE UNCHANGED req
        BY <1>3, <2>1
    <2>2. ASSUME NEW o \in Requests, PlainStep(o)
          PROVE  req[r].kind = "verify" /\ req'[r].id = req[r].id
        BY <1>1, <1>3, <2>2 DEF PlainStep, Plain, Becomes
    <2>3. QED
        BY <1>3, <2>1, <2>2, StepsArePlain
<1>4. ASSUME ~\E r \in Requests : claimPendingLogin(r), NEW r \in Requests, createPendingLogin(r)
      PROVE  PendingInv'
    <2>1. PICK m : /\ pending' = pending \cup {m} /\ m.id = made'["pending"]
                   /\ made'["pending"] = made["pending"] + 1 /\ m.id \in Ids
        <3>1. PICK m : m = [id |-> made'["pending"], pwd |-> req[r].pwd, since |-> req[r].since]
            OBVIOUS
        <3>2. QED
            BY <1>4, <3>1, MakesAnId DEF createPendingLogin, Kinds
    <2>2. UNCHANGED uses
        BY <1>4 DEF createPendingLogin, history
    <2>3. made["pending"] < m.id
        BY <1>1, <2>1
    <2>4. uses[<<"pending", m.id>>] = 0
        BY <2>1, <2>3 DEF PendingInv
    <2>5. \A i \in Ids : i <= made["pending"] => i <= made'["pending"] /\ i # m.id
        BY <1>1, <2>1, <2>3
    <2>6. \A i \in Ids : i > made'["pending"] => i > made["pending"]
        BY <1>1, <2>1
    <2>7. \A p \in pending : p.id # m.id
        BY <1>1, <2>5 DEF PendingInv
    <2>8. ASSUME NEW p \in pending' PROVE p.id <= made'["pending"] /\ uses[<<"pending", p.id>>] = 0
        <3>1. CASE p = m
            BY <1>1, <2>1, <2>4, <3>1
        <3>2. CASE p \in pending
            BY <1>1, <2>5, <3>2 DEF PendingInv
        <3>3. QED
            BY <2>1, <3>1, <3>2
    <2>9. \A p, q \in pending' : p.id = q.id => p = q
        BY <2>1, <2>7 DEF PendingInv
    <2>10. ASSUME NEW o \in Requests, req'[o].kind = "verify"
           PROVE  /\ req'[o].id <= made'["pending"] /\ uses[<<"pending", req'[o].id>>] = 0
                  /\ \A p \in pending' : p.id # req'[o].id
                  /\ \A a \in Requests \ {o} : req'[a].kind = "verify" => req'[a].id # req'[o].id
        BY <1>1, <1>3, <1>4, <2>1, <2>5, <2>10 DEF PendingInv
    <2>11. QED
        BY <2>2, <2>6, <2>8, <2>9, <2>10 DEF PendingInv
<1>5. ASSUME NEW r \in Requests, createSessionForVerifiedUser(r) PROVE PendingInv'
    <2>1. PICK i \in Ids : i = req[r].id /\ req[r].kind = "verify"
        BY <1>5, RequestIs DEF createSessionForVerifiedUser, Request, WellFormed
    <2>2. UNCHANGED <<pending, made>> /\ Uses("pending", i) /\ Becomes(r, Idle)
        BY <1>5, <2>1 DEF createSessionForVerifiedUser
    <2>3. /\ uses'[<<"pending", i>>] = uses[<<"pending", i>>] + 1
          /\ \A j \in Ids : j # i => uses'[<<"pending", j>>] = uses[<<"pending", j>>]
        BY <2>2, UsesIs DEF Once
    <2>4. uses'[<<"pending", i>>] = 1 /\ i <= made["pending"]
        BY <2>1, <2>3 DEF PendingInv
    <2>5. req'[r].kind # "verify" /\ \A o \in Requests \ {r} : req'[o] = req[o]
        BY <1>1, <2>2 DEF Becomes, Idle
    <2>6. \A o \in Requests \ {r} : req[o].kind = "verify" => req[o].id # i
        BY <2>1 DEF PendingInv
    <2>7. \A p \in pending : p.id # i
        BY <2>1 DEF PendingInv
    <2>8. QED
        BY <1>1, <2>2, <2>3, <2>4, <2>5, <2>6, <2>7 DEF PendingInv
<1>6. CASE ~\E r \in Requests : \/ claimPendingLogin(r) \/ createPendingLogin(r)
                                \/ createSessionForVerifiedUser(r)
    <2>1. /\ pending' \subseteq pending /\ made'["pending"] = made["pending"]
          /\ \A i \in Ids : uses'[<<"pending", i>>] = uses[<<"pending", i>>]
        BY <1>6, PasswordsChangeBy, OnceChangesBy DEF Lapses
    <2>2. \A r \in Requests : req'[r].kind = "verify" =>
              req[r].kind = "verify" /\ req'[r].id = req[r].id
        BY <1>3, <1>6
    <2>3. QED
        BY <1>1, <2>1, <2>2 DEF PendingInv
<1>7. QED
    BY <1>2, <1>4, <1>5, <1>6

\* A pending sign-in becomes one session at most, and a backup code is good once, however
\* often it is presented at a time and whatever it is used for (claimPendingLogin,
\* verifyCode, replaceBackupCodes).
THEOREM EachIsUsedOnce == Spec => []EachUsedOnce
<1>1. Init => AccountInv /\ PendingInv /\ CodesInv
    BY AccountInitHolds, OnceInitHolds
<1>2. AccountInv /\ PendingInv /\ CodesInv /\ [Next]_vars => AccountInv' /\ PendingInv' /\ CodesInv'
    BY AccountInvIsKept, PendingOnceKept, CodesOnceKept
<1>3. PendingInv /\ CodesInv => EachUsedOnce
    BY DEF PendingInv, CodesInv, EachUsedOnce
<1>4. QED
    BY <1>1, <1>2, <1>3, PTL DEF Spec

=============================================================================
