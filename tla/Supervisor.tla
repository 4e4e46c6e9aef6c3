----------------------------- MODULE Supervisor -----------------------------
(***************************************************************************)
(* The process that keeps a server worker running and swaps it for a new   *)
(* one without a gap.  It is one event loop: an action is a callback with  *)
(* the promise continuations that follow it.  Workers are processes that   *)
(* may die at any moment; deaths, starts, timers and control requests      *)
(* arrive in any order.  How long a timer waits is left open.              *)
(***************************************************************************)
EXTENDS Naturals, FiniteSets

CONSTANTS
    Workers,     \* worker objects, used again when nothing refers to them
    MaxTimers    \* bound: startAgain timers pending at a time

ASSUME TimersAssumption == MaxTimers \in Nat \ {0}

VARIABLES
    sup,        \* the supervisor itself
    stopping,
    proc,       \* [Workers -> the process]
    start,      \* [Workers -> who awaits startWorker() for it]
    serving,    \* the sets of the same names
    retiring,
    doomed,     \* processes told to end: disconnected after a drain, or killed
    reload,     \* reload() in flight: its step, its `before`, the exits it awaits
    stopWait,   \* the exits stop() awaits
    timers,     \* startAgain timers pending
    crashed,    \* history: a serving worker died by itself
    clash       \* history: one died during a reload, or a timer fired in one

processes == <<proc, start, doomed>>
sets == <<serving, retiring>>
history == <<crashed, clash>>
supervisorVars == <<sup, stopping, processes, sets, reload, stopWait, timers, history>>

----------------------------------------------------------------------------
(* State.                                                                  *)

Reload == [pc : {"idle", "starting", "retiring"},
           before : SUBSET Workers, wait : SUBSET Workers]

NoReload == [pc |-> "idle", before |-> {}, wait |-> {}]

Reloading == reload.pc # "idle"

Alive(w) == proc[w] \in {"starting", "ready"}

\* A worker object nothing refers to: fork() gives one.
Free(w) == ~Alive(w) /\ w \notin retiring \cup reload.before \cup stopWait

\* Before the first worker is ready the supervisor only waits for it.
SupervisorInit ==
    /\ sup = "boot" /\ stopping = FALSE
    /\ \E first \in Workers :
        /\ proc = [w \in Workers |-> IF w = first THEN "starting" ELSE "dead"]
        /\ start = [w \in Workers |-> IF w = first THEN "boot" ELSE "nobody"]
    /\ serving = {} /\ retiring = {} /\ doomed = {}
    /\ reload = NoReload /\ stopWait = {} /\ timers = 0
    /\ crashed = FALSE /\ clash = FALSE

\* startWorker() up to its promise.
Fork(w, by) ==
    /\ Free(w)
    /\ proc' = [proc EXCEPT ![w] = "starting"]
    /\ start' = [start EXCEPT ![w] = by]

----------------------------------------------------------------------------
(* A worker says it is ready.                                              *)

IsReady(w) ==
    /\ sup # "exited"
    /\ proc[w] = "starting"
    /\ proc' = [proc EXCEPT ![w] = "ready"]
    /\ start' = [start EXCEPT ![w] = "nobody"]
    /\ UNCHANGED <<stopping, stopWait, timers, history>>

\* The first worker, or a replacement.  After a stop it still joins.
Joins(w) ==
    /\ start[w] \in {"boot", "again"}
    /\ IsReady(w)
    /\ serving' = serving \cup {w}
    /\ sup' = IF start[w] = "boot" THEN "up" ELSE sup
    /\ UNCHANGED <<retiring, doomed, reload>>

\* reload() goes on: the fresh worker serves, the ones from before retire.
\* One of them that is dead already is waited for all the same.
TakesOver(w) ==
    LET old == reload.before IN
    /\ start[w] = "reload"
    /\ IsReady(w)
    /\ serving' = (serving \cup {w}) \ old
    /\ retiring' = retiring \cup old
    /\ doomed' = doomed \cup {x \in old : Alive(x)}
    /\ reload' = IF old = {} THEN NoReload
                 ELSE [reload EXCEPT !.pc = "retiring", !.wait = old]
    /\ UNCHANGED sup

\* Its start was given up on (it took more than 45 s); nobody hears it.
ReadyUnheard(w) ==
    /\ start[w] = "nobody"
    /\ IsReady(w)
    /\ UNCHANGED <<sup, sets, doomed, reload>>

WorkerReady(w) == Joins(w) \/ TakesOver(w) \/ ReadyUnheard(w)

----------------------------------------------------------------------------
(* A worker ends, or its start takes too long.                             *)

\* The start of w is over: it died, or the 45 s have passed.  (Bound: a slow
\* worker is left only while there is another object to fork.)
StartOver(w) ==
    /\ sup # "exited"
    /\ proc[w] = "starting"
    /\ start[w] # "nobody"
    /\ start' = [start EXCEPT ![w] = "nobody"]
    /\ \/ proc' = [proc EXCEPT ![w] = "dead"]
       \/ (\E x \in Workers : Free(x)) /\ proc' = proc
    /\ UNCHANGED <<stopping, sets, stopWait, history>>

\* The first worker did not start: process.exit(1).
BootFails(w) ==
    /\ start[w] = "boot"
    /\ StartOver(w)
    /\ sup' = "exited"
    /\ UNCHANGED <<doomed, reload, timers>>

\* Variant: the failure is only logged.
AgainFailsForGood(w) ==
    /\ start[w] = "again"
    /\ StartOver(w)
    /\ doomed' = {x \in doomed : proc'[x] # "dead"}
    /\ UNCHANGED <<sup, reload, timers>>

\* startAgain() tries once more, later; a worker that was only slow is left.
AgainFails(w) ==
    /\ start[w] = "again"
    /\ timers < MaxTimers
    /\ StartOver(w)
    /\ timers' = timers + 1
    /\ doomed' = {x \in doomed : proc'[x] # "dead"}
    /\ UNCHANGED <<sup, reload>>

\* Variant: the workers from before are not spared.
HalfStartedOrOld == {x \in Workers : Alive(x)} \ retiring

\* What a failed reload() kills: whatever it cannot account for.
HalfStarted == {x \in Workers : Alive(x)} \ (reload.before \cup retiring \cup serving)

\* Variant: no `finally`.
ReloadFailsForGood(w) ==
    /\ start[w] = "reload"
    /\ StartOver(w)
    /\ doomed' = {x \in doomed \cup HalfStarted : proc'[x] # "dead"}
    /\ UNCHANGED <<sup, reload, timers>>

ReloadFails(w) ==
    /\ start[w] = "reload"
    /\ StartOver(w)
    /\ doomed' = {x \in doomed \cup HalfStarted : proc'[x] # "dead"}
    /\ reload' = NoReload
    /\ UNCHANGED <<sup, timers>>

\* An 'exit' event of a worker nobody awaits the start of.
Exits(w) ==
    /\ sup # "exited"
    /\ Alive(w)
    /\ start[w] = "nobody"
    /\ proc' = [proc EXCEPT ![w] = "dead"]
    /\ doomed' = doomed \ {w}
    /\ UNCHANGED <<stopping, start>>

\* trackUnexpectedExit(): it was serving and nobody retired it.
ServingExits(w) ==
    /\ w \in serving
    /\ timers < MaxTimers
    /\ Exits(w)
    /\ serving' = serving \ {w}
    /\ timers' = IF stopping THEN timers ELSE timers + 1
    /\ crashed' = TRUE
    /\ clash' = (clash \/ Reloading)
    /\ UNCHANGED <<sup, retiring, reload, stopWait>>

\* The promises of retire() resolve; the last one ends the reload, the stop.
RetiringExits(w) ==
    /\ w \in retiring
    /\ Exits(w)
    /\ retiring' = retiring \ {w}
    /\ reload' = IF reload.wait = {w} THEN NoReload
                 ELSE [reload EXCEPT !.wait = @ \ {w}]
    /\ stopWait' = stopWait \ {w}
    /\ sup' = IF stopWait = {w} THEN "exited" ELSE sup
    /\ UNCHANGED <<serving, timers, history>>

UntrackedExits(w) ==
    /\ w \notin serving \cup retiring
    /\ Exits(w)
    /\ UNCHANGED <<sup, sets, reload, stopWait, timers, history>>

----------------------------------------------------------------------------
(* Timers and control requests.                                            *)

\* A timer fires; startAgain() has nothing to do, or starts a worker.
StartAgainSkipped ==
    /\ sup = "up"
    /\ timers > 0
    /\ stopping \/ Reloading \/ serving # {}
    /\ timers' = timers - 1
    /\ clash' = (clash \/ Reloading)
    /\ UNCHANGED <<sup, stopping, processes, sets, reload, stopWait, crashed>>

StartAgain ==
    /\ sup = "up"
    /\ timers > 0
    /\ ~stopping /\ ~Reloading /\ serving = {}
    /\ timers' = timers - 1
    /\ \E w \in Workers : Fork(w, "again")
    /\ UNCHANGED <<sup, stopping, sets, doomed, reload, stopWait, history>>

\* POST /reload.
ReloadStart ==
    /\ sup = "up"
    /\ ~stopping /\ ~Reloading
    /\ reload' = [pc |-> "starting", before |-> serving, wait |-> {}]
    /\ \E w \in Workers : Fork(w, "reload")
    /\ UNCHANGED <<sup, stopping, sets, doomed, stopWait, timers, history>>

\* POST /stop, SIGINT or SIGTERM.
StopStart ==
    LET all == serving \cup retiring IN
    /\ sup # "exited"
    /\ ~stopping
    /\ stopping' = TRUE
    /\ serving' = {} /\ retiring' = all
    /\ doomed' = doomed \cup {w \in all : Alive(w)}
    /\ stopWait' = all
    /\ sup' = IF all = {} THEN "exited" ELSE sup
    /\ UNCHANGED <<proc, start, reload, timers, history>>

----------------------------------------------------------------------------
WorkerSteps(w) ==
    \/ WorkerReady(w) \/ BootFails(w) \/ AgainFails(w) \/ ReloadFails(w)
    \/ ServingExits(w) \/ RetiringExits(w) \/ UntrackedExits(w)

SupervisorNext ==
    \/ \E w \in Workers : WorkerSteps(w)
    \/ StartAgainSkipped \/ StartAgain \/ ReloadStart \/ StopStart

SupervisorSpec == SupervisorInit /\ [][SupervisorNext]_supervisorVars

\* Timers fire, a start ends one way or the other, and a worker told to end
\* ends.  A replacement tried again and again starts some time.  (A timer is due
\* whether or not the bound leaves a worker object to fork.)
SupervisorFairness ==
    /\ SF_supervisorVars(StartAgainSkipped \/ StartAgain)
    /\ \A w \in Workers :
        /\ WF_supervisorVars(WorkerReady(w) \/ BootFails(w) \/ AgainFails(w) \/ ReloadFails(w))
        /\ WF_supervisorVars(w \in doomed /\ WorkerSteps(w))
    /\ SF_supervisorVars(\E w \in Workers : start[w] = "again" /\ WorkerReady(w))

FairSupervisorSpec == SupervisorSpec /\ SupervisorFairness

----------------------------------------------------------------------------
(* Properties.                                                             *)

SupervisorTypeOK ==
    /\ sup \in {"boot", "up", "exited"}
    /\ stopping \in BOOLEAN
    /\ proc \in [Workers -> {"starting", "ready", "dead"}]
    /\ start \in [Workers -> {"nobody", "boot", "reload", "again"}]
    /\ serving \subseteq Workers /\ retiring \subseteq Workers
    /\ doomed \subseteq {w \in Workers : Alive(w)}
    /\ reload \in Reload
    /\ stopWait \subseteq Workers
    /\ timers \in 0..MaxTimers
    /\ crashed \in BOOLEAN /\ clash \in BOOLEAN

\* Reloads leave no gap: from the first start to the stop, unless a serving
\* worker dies by itself, there is one that is ready, serves and is not being
\* ended, whether reloads succeed, fail, time out or are asked for again.
NoGap ==
    sup = "up" /\ ~stopping /\ ~crashed =>
        \E w \in serving : proc[w] = "ready" /\ w \notin doomed

\* A worker that dies by itself is started again, as long as no reload was
\* under way when it died or when its turn to be started again came.
CrashesAreMended ==
    (sup = "up" /\ serving = {} /\ ~clash) ~> (serving # {} \/ stopping \/ clash)

\* A reload is answered and a stop ends, unless a worker died in a reload.
ControlEnds ==
    /\ (Reloading /\ ~clash) ~> (~Reloading \/ clash \/ sup = "exited")
    /\ (stopping /\ ~clash) ~> (sup = "exited" \/ clash)

\* "A worker that dies by itself is started again (backing off if it keeps
\* dying)" (the file's head), once no reload is under way.
DeadWorkersAreReplaced ==
    (sup = "up" /\ serving = {}) ~> (serving # {} \/ stopping \/ Reloading)
=============================================================================
