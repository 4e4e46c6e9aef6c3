------------------------------- MODULE Outbox -------------------------------
(***************************************************************************)
(* E-mails: a first try when one is made, and the outbox for those whose   *)
(* failure may pass, worked off by runs that start every minute, whether   *)
(* or not the one before is over, in any of the servers' processes.        *)
(*                                                                         *)
(* A row is claimed by moving its date five minutes ahead.  A run sends    *)
(* what it has claimed one by one, for up to fifteen seconds each, twenty  *)
(* of them: as long as a claim lasts, so that the last may be due again    *)
(* before it is sent (OutrunsClaim).                                       *)
(***************************************************************************)
EXTENDS Integers, FiniteSets

CONSTANTS
    Mails,         \* e-mails
    Runs,          \* runs at a time
    LIMIT,         \* rows that a run claims
    Backoffs,      \* how many BACKOFF_MINUTES there are
    MaxAborts,     \* bound: runs that die, or end with a failed statement
    OutrunsClaim,  \* may a claimed row be due again while its run is at work?
    Nothing

ASSUME BoundsAssumption ==
    /\ LIMIT \in Nat \ {0} /\ Backoffs \in Nat \ {0} /\ MaxAborts \in Nat
    /\ OutrunsClaim \in BOOLEAN
ASSUME RunsAssumption == IsFiniteSet(Runs)
ASSUME NothingAssumption == Nothing \notin Nat \cup (Mails \X Nat)

VARIABLES
    row,        \* email_outbox: [Mails -> attempts, or Nothing]
    due,        \* the rows whose date has come
    ahead,      \* <<m, n>>: the date of m is before that of n
    made,       \* e-mails tried for the first time, or being so
    run,        \* [Runs -> a run of processOutbox]
    aborts,     \* runs that ended early
    mayArrive,  \* history: [Mails -> times it may still be accepted]
    mayTry      \* history: [Mails -> tries it may still have from the outbox]

outboxVars == <<row, due, ahead, made, run, aborts, mayArrive, mayTry>>
dates == <<due, ahead>>
history == <<mayArrive, mayTry>>

\* Tries from the outbox: one after each backoff, and one more after the last again.
MaxTries == Backoffs + 1

\* claimed: the rows left to be sent, with their attempts as they were.
Run == [pc : {"idle", "send", "record"},
        claimed : SUBSET (Mails \X Nat),
        at : (Mails \X Nat) \cup {Nothing},
        transient : BOOLEAN]

Resting == [pc |-> "idle", claimed |-> {}, at |-> Nothing, transient |-> FALSE]

Sending(S) == [pc |-> "send", claimed |-> S, at |-> Nothing, transient |-> FALSE]

\* A run that has row m yet to send, or to write down.
Holds(r, m) == \E x \in run[r].claimed \cup {run[r].at} : x # Nothing /\ x[1] = m

OutboxInit ==
    /\ row = [m \in Mails |-> Nothing] /\ due = {} /\ ahead = {} /\ made = {}
    /\ run = [r \in Runs |-> Resting] /\ aborts = 0
    /\ mayArrive = [m \in Mails |-> 1]
    /\ mayTry = [m \in Mails |-> MaxTries]

\* An e-mail may arrive once and be tried MaxTries times, and once more of both for
\* each try that is not written down and each claim that a run has outrun.
Excuse(m) ==
    /\ mayArrive' = [mayArrive EXCEPT ![m] = @ + 1]
    /\ mayTry' = [mayTry EXCEPT ![m] = @ + 1]

\* What a try may come to.  An answer that does not arrive is a failure that may pass,
\* whether or not the provider took the e-mail.
Outcomes == {"ok", "refused", "transient"}

----------------------------------------------------------------------------
(* sendEmail: the first try, and queueForRetry, whose failure is swallowed. *)

SendEmail(m) ==
    /\ m \notin made
    /\ made' = made \cup {m}
    /\ \E o \in Outcomes :
        /\ mayArrive' = [mayArrive EXCEPT ![m] = IF o = "ok" THEN 0 ELSE 1]
        /\ row' \in IF o = "transient" THEN {row, [row EXCEPT ![m] = 0]} ELSE {row}
    /\ UNCHANGED <<dates, run, aborts, mayTry>>

\* Variant: a row that was tried has no next date.
DatedOnce(m) == row[m] = 0

Dated(m) == row[m] # Nothing

\* The date of a row has come: its backoff is over, or its claim.
FallsDue(m) ==
    /\ Dated(m)
    /\ m \notin due
    /\ OutrunsClaim \/ \A r \in Runs : ~Holds(r, m)
    /\ due' = due \cup {m}
    /\ ahead' = ahead \cup (due \X {m})
    /\ IF \E r \in Runs : Holds(r, m) THEN Excuse(m) ELSE UNCHANGED history
    /\ UNCHANGED <<row, made, run, aborts>>

----------------------------------------------------------------------------
(* processOutbox.                                                          *)

\* The rows of S have a date to come.
PutOff(S) ==
    /\ due' = due \ S
    /\ ahead' = {p \in ahead : p[1] \notin S /\ p[2] \notin S}

\* Variant: the rows are read, and stay due.
TakenRead(S) == UNCHANGED dates

\* The rows taken are moved five minutes ahead.
Taken(S) == PutOff(S)

\* The first rows that are due, up to LIMIT.
TakeBatch(r) ==
    /\ run[r].pc = "idle"
    /\ \E S \in SUBSET due \ {{}} :
        /\ Cardinality(S) <= LIMIT /\ (S = due \/ Cardinality(S) = LIMIT)
        /\ \A m \in S, n \in due \ S : <<n, m>> \notin ahead
        /\ run' = [run EXCEPT ![r] = Sending({<<m, row[m]>> : m \in S})]
        /\ Taken(S)
    /\ UNCHANGED <<row, made, aborts, history>>

\* One row is sent.
SendOne(r) ==
    /\ run[r].pc = "send"
    /\ \E x \in run[r].claimed, o \in Outcomes :
        LET m == x[1] IN
        /\ run' = [run EXCEPT ![r] = [pc |-> "record", claimed |-> @.claimed \ {x},
                                      at |-> x, transient |-> (o = "transient")]]
        /\ mayTry' = [mayTry EXCEPT ![m] = @ - 1]
        /\ mayArrive' = [mayArrive EXCEPT ![m] = IF o = "ok" THEN @ - 1 ELSE @]
    /\ UNCHANGED <<row, dates, made, aborts>>

\* The next row, or the end of the run.
Onwards(r) ==
    run' = [run EXCEPT ![r] = IF @.claimed = {} THEN Resting ELSE Sending(@.claimed)]

\* Variant: a try that failed is not counted.
Untried(q) == q.at[2]

OnceMore(q) == q.at[2] + 1

\* Sent, refused for good, or tried often enough.
GivenUp(q) == ~q.transient \/ OnceMore(q) >= MaxTries

\* DELETE, or UPDATE of attempts and date, of the row if it is still there.
WriteDown(r) ==
    LET q == run[r]
        m == q.at[1] IN
    /\ q.pc = "record"
    /\ row' = [row EXCEPT ![m] = IF @ = Nothing \/ GivenUp(q) THEN Nothing ELSE OnceMore(q)]
    /\ PutOff({m})
    /\ Onwards(r)
    /\ UNCHANGED <<made, aborts, history>>

\* The process dies, or a statement fails and ends the run: what it has claimed is due
\* again when the claim is over.
Aborts(r) ==
    /\ run[r].pc # "idle" /\ aborts < MaxAborts
    /\ aborts' = aborts + 1
    /\ IF run[r].at = Nothing THEN UNCHANGED history ELSE Excuse(run[r].at[1])
    /\ run' = [run EXCEPT ![r] = Resting]
    /\ UNCHANGED <<row, dates, made>>

----------------------------------------------------------------------------
(* The specification.                                                      *)

OutboxNext ==
    \/ \E m \in Mails : SendEmail(m) \/ FallsDue(m)
    \/ \E r \in Runs : TakeBatch(r) \/ SendOne(r) \/ WriteDown(r) \/ Aborts(r)

\* A run starts every minute, a send ends by its timeout, and time passes.
OutboxFairness ==
    /\ \A r \in Runs : WF_outboxVars(TakeBatch(r) \/ SendOne(r) \/ WriteDown(r))
    /\ \A m \in Mails : WF_outboxVars(FallsDue(m))

OutboxSpec == OutboxInit /\ [][OutboxNext]_outboxVars /\ OutboxFairness

----------------------------------------------------------------------------
(* Properties.                                                             *)

OutboxTypeOK ==
    /\ row \in [Mails -> (0 .. MaxTries - 1) \cup {Nothing}]
    /\ due \subseteq {m \in Mails : row[m] # Nothing}
    /\ ahead \subseteq due \X due
    /\ made \subseteq Mails
    /\ run \in [Runs -> Run]
    /\ aborts \in 0 .. MaxAborts
    /\ mayArrive \in [Mails -> Int] /\ mayTry \in [Mails -> Int]

\* The provider's acceptance of an e-mail is heard once, and once more for each that a
\* run could not write down and each claim that was over before its run: "so another
\* run (or another server) never sends the same e-mail" (outbox.ts).
ArrivesOnce == \A m \in Mails : mayArrive[m] >= 0

\* ... and it is tried from the outbox MaxTries times at most, once more than there are
\* backoffs, with the same exceptions: no count of attempts that two runs write leads to
\* more ("the fourth is the last", round3Units.test.ts, with three backoffs).
TriesAreBounded == \A m \in Mails : mayTry[m] >= 0

\* An e-mail that was tried after each of the backoffs is not kept for another try:
\* "tried again after 1, 5 and 15 minutes, then dropped" (outbox.ts).
DroppedAfterTheBackoffs == \A m \in Mails : row[m] # Nothing => row[m] < Backoffs

\* The outbox is worked off: every e-mail in it is sent or given up on in the end,
\* whichever runs overlap or die ("a queue that grows forever is worse than a lost
\* e-mail", outbox.ts).
OutboxEmpties == []<>(\A m \in Mails : row[m] = Nothing)

=============================================================================
