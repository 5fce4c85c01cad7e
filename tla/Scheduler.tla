----------------------------- MODULE Scheduler -----------------------------
(***************************************************************************)
(* The automation scheduler of Catio (automation/scheduler.rs), the        *)
(* dispatcher it fires tasks into (automation/dispatcher.rs) and the "last *)
(* run" table both the dispatcher and the frontend write.                  *)
(*                                                                         *)
(* The tick loop sleeps, reads the clock once, takes a snapshot of the     *)
(* enabled tasks and examines them one after the other; a task that is due *)
(* is dispatched by a task of its own, and the commands that edit tasks    *)
(* run beside all that.                                                    *)
(*                                                                         *)
(* Time is counted in units finer than a second.  The clock is the minute  *)
(* within a cycle of minutes (all that a cron expression tells apart here) *)
(* and the offset in it; last_fired is kept as the age of the last firing, *)
(* saturating at MaxAge, and the time of a `once` task as what is left of  *)
(* it, so that behaviours of any length stay within a finite state.        *)
(***************************************************************************)
EXTENDS Integers, FiniteSets

CONSTANTS
    Tasks,       \* task ids
    Drafts,      \* the validated definitions a client may save
    NoTask, NoJob, Never,
    Attached,    \* whether a frontend takes the shell firings
    Second,      \* units in a second: the tick's sleep
    MaxGap,      \* longest time between two ticks
    Window,      \* 59 seconds in the code
    Minute,      \* 60 seconds
    Cycle,       \* minutes in the cycle of the clock
    MaxAge,      \* ages saturate here, above every interval
    Wrap,        \* 2^63: where `seconds as i64` turns negative
    DurationMax, \* longest duration that can be added to an instant
    MaxTurns     \* bound: prompt turns of one task in flight

Types == {"interval", "cron", "once"}
Kinds == {"shell", "prompt"}

\* A saved task: trigger, kind and whether it names a target.  `seconds`,
\* `minutes` and `at` are read under the trigger they belong to; `at` is the
\* time left when the task is saved.
Draft == [type: Types, kind: Kinds, target: BOOLEAN, enabled: BOOLEAN,
          seconds: Nat, minutes: SUBSET (0 .. Cycle - 1), at: Nat]

ASSUME SchedulerAssumption ==
    /\ Drafts \subseteq Draft
    /\ \A d \in Drafts : d.type = "interval" => d.seconds >= Minute
    /\ NoTask \notin Draft
    /\ \A p \in {"start", "notified", "waiting", "done"}, k \in Kinds, b \in BOOLEAN :
          NoJob # [stage |-> p, kind |-> k, target |-> b]
    /\ Never \notin Nat
    /\ Attached \in BOOLEAN
    /\ Second \in Nat \ {0} /\ MaxGap \in Nat /\ Window \in Nat
    /\ Minute \in Nat \ {0} /\ Cycle \in Nat \ {0}
    /\ MaxGap <= Minute /\ Window < Minute /\ Minute <= 2 * Window
    /\ MaxAge \in Nat /\ Minute <= MaxAge
    /\ Wrap \in Nat /\ DurationMax \in Nat /\ MaxTurns \in Nat

VARIABLES
    task, wait,              \* the store's tasks; time left to a once task's `at`
    minute, offset,          \* the clock
    loop, todo,              \* the tick loop and the rest of its snapshot
    running, age, job,       \* overlap guard, last_fired, dispatch in flight
    provider, turns,         \* provider config, prompt turns in flight
    pending, result,         \* reports the frontend owes; last-run table
    sinceSave, inMinute, held   \* history variables: see below

storeVars   == <<task, wait>>
clockVars   == <<minute, offset>>
guardVars   == <<running, age>>
runVars     == <<provider, turns, pending, result>>
historyVars == <<sinceSave, inMinute, held>>
vars == <<storeVars, clockVars, loop, todo, guardVars, job, runVars, historyVars>>

Init ==
    /\ task = [t \in Tasks |-> NoTask]
    /\ wait = [t \in Tasks |-> 0]
    /\ minute = 0 /\ offset = 0
    /\ loop = "asleep"
    /\ todo = [t \in Tasks |-> NoTask]
    /\ running = {}
    /\ age = [t \in Tasks |-> Never]
    /\ job = [t \in Tasks |-> NoJob]
    /\ provider = FALSE
    /\ turns = [t \in Tasks |-> 0]
    /\ pending = [t \in Tasks |-> {}]
    /\ result = [t \in Tasks |-> "none"]
    /\ sinceSave = [t \in Tasks |-> 0]
    /\ inMinute = [t \in Tasks |-> 0]
    /\ held = [t \in Tasks |-> FALSE]

-----------------------------------------------------------------------------
(* The store's commands: automation_create_task and the agent's task tool  *)
(* both upsert.  Only validated definitions reach the store.               *)

Upsert(t, d) ==
    /\ task' = [task EXCEPT ![t] = d]
    /\ wait' = [wait EXCEPT ![t] = d.at]
    /\ sinceSave' = [sinceSave EXCEPT ![t] = 0]
    /\ held' = [held EXCEPT ![t] = FALSE]
    /\ UNCHANGED <<clockVars, loop, todo, guardVars, job, runVars, inMinute>>

SetEnabled(t, b) ==
    /\ task[t] # NoTask
    /\ task' = [task EXCEPT ![t].enabled = b]
    /\ held' = [held EXCEPT ![t] = FALSE]
    /\ UNCHANGED <<wait, clockVars, loop, todo, guardVars, job, runVars, sinceSave, inMinute>>

\* Mutant: deleting a task releases its guard.
DeleteForgets(t) ==
    /\ task[t] # NoTask
    /\ task' = [task EXCEPT ![t] = NoTask]
    /\ held' = [held EXCEPT ![t] = FALSE]
    /\ running' = running \ {t}
    /\ UNCHANGED <<wait, clockVars, loop, todo, age, job, runVars, sinceSave, inMinute>>

\* Neither `running` nor `last_fired` forgets the id.
Delete(t) ==
    /\ task[t] # NoTask
    /\ task' = [task EXCEPT ![t] = NoTask]
    /\ held' = [held EXCEPT ![t] = FALSE]
    /\ UNCHANGED <<wait, clockVars, loop, todo, guardVars, job, runVars, sinceSave, inMinute>>

-----------------------------------------------------------------------------
(* The tick.                                                               *)

\* `seconds as i64` keeps the bits of a u64.
AsI64(n) == IF n < Wrap THEN n ELSE n - 2 * Wrap

\* Duration::seconds, or adding it to the last firing, overflows and panics.
Panics(d, a) == d.type = "interval" /\ a # Never /\ AsI64(d.seconds) > DurationMax

\* Mutant: the window's end is included.
ShouldFireAtWindow(d, a, m, due) ==
    \/ d.type = "interval" /\ (a # Never => a >= AsI64(d.seconds))
    \/ d.type = "cron" /\ m \in d.minutes /\ (a # Never => a >= Window)
    \/ d.type = "once" /\ a = Never /\ due

\* Mutant: the comparison with the window is the wrong way round.
ShouldFireSwapped(d, a, m, due) ==
    \/ d.type = "interval" /\ (a # Never => a >= AsI64(d.seconds))
    \/ d.type = "cron" /\ m \in d.minutes /\ (a # Never => a < Window)
    \/ d.type = "once" /\ a = Never /\ due

\* should_fire, without its panic.
ShouldFire(d, a, m, due) ==
    \/ /\ d.type = "interval"
       /\ a # Never => a >= AsI64(d.seconds)
    \/ /\ d.type = "cron"
       /\ m \in d.minutes
       /\ a # Never => a > Window
    \/ /\ d.type = "once"
       /\ a = Never
       /\ due

Older(n, d) == IF n + d < MaxAge THEN n + d ELSE MaxAge
Sooner(n, d) == IF n > d THEN n - d ELSE 0

\* d units pass: last_fired ages, the `once` times come nearer.
Passes(d) ==
    /\ offset' = IF offset + d < Minute THEN offset + d ELSE offset + d - Minute
    /\ minute' = IF offset + d < Minute THEN minute
                 ELSE IF minute + 1 < Cycle THEN minute + 1 ELSE 0
    /\ wait' = [t \in Tasks |-> Sooner(wait[t], d)]

\* Mutant: a once task is due only at the tick in which its time comes.
WakeExact(d) ==
    /\ loop = "asleep"
    /\ Passes(d)
    /\ age' = [t \in Tasks |-> IF age[t] = Never THEN Never ELSE Older(age[t], d)]
    /\ todo' = [t \in Tasks |->
                  IF task[t] # NoTask /\ task[t].enabled
                  THEN [task |-> task[t], due |-> wait'[t] = 0 /\ wait[t] > 0] ELSE NoTask]
    /\ loop' = "scanning"
    /\ inMinute' = [t \in Tasks |-> IF offset + d < Minute THEN inMinute[t] ELSE 0]
    /\ held' = [t \in Tasks |-> held[t] /\ offset + d < Minute]
    /\ UNCHANGED <<task, running, job, runVars, sinceSave>>

\* The sleep ends: `now` is read once and the enabled tasks are copied, each
\* with its time compared with `now`.
Wake(d) ==
    /\ loop = "asleep"
    /\ Passes(d)
    /\ age' = [t \in Tasks |-> IF age[t] = Never THEN Never ELSE Older(age[t], d)]
    /\ todo' = [t \in Tasks |->
                  IF task[t] # NoTask /\ task[t].enabled
                  THEN [task |-> task[t], due |-> wait'[t] = 0] ELSE NoTask]
    /\ loop' = "scanning"
    /\ inMinute' = [t \in Tasks |-> IF offset + d < Minute THEN inMinute[t] ELSE 0]
    /\ held' = [t \in Tasks |-> held[t] /\ offset + d < Minute]
    /\ UNCHANGED <<task, running, job, runVars, sinceSave>>

\* A task of the snapshot that is running, or not due, is passed over.
Skip(t) ==
    /\ loop = "scanning" /\ todo[t] # NoTask
    /\ \/ t \in running
       \/ /\ ~Panics(todo[t].task, age[t])
          /\ ~ShouldFire(todo[t].task, age[t], minute, todo[t].due)
    /\ todo' = [todo EXCEPT ![t] = NoTask]
    /\ held' = [held EXCEPT ![t] = \/ @
                                   \/ /\ t \notin running
                                      /\ todo[t].task = task[t]
                                      /\ task[t].type = "cron"
                                      /\ minute \in task[t].minutes]
    /\ UNCHANGED <<storeVars, clockVars, loop, guardVars, job, runVars, sinceSave, inMinute>>

\* A due task: the guard and last_fired are set, then the dispatch is spawned
\* with the snapshot's definition.
Fire(t) ==
    /\ loop = "scanning" /\ todo[t] # NoTask
    /\ t \notin running
    /\ ~Panics(todo[t].task, age[t])
    /\ ShouldFire(todo[t].task, age[t], minute, todo[t].due)
    /\ todo' = [todo EXCEPT ![t] = NoTask]
    /\ running' = running \cup {t}
    /\ age' = [age EXCEPT ![t] = 0]
    /\ job' = [job EXCEPT ![t] = [stage |-> "start", kind |-> todo[t].task.kind,
                                  target |-> todo[t].task.target]]
    /\ sinceSave' = [sinceSave EXCEPT ![t] =
                        IF todo[t].task = task[t] /\ @ < 2 THEN @ + 1 ELSE @]
    /\ inMinute' = [inMinute EXCEPT ![t] = @ + 1]
    /\ UNCHANGED <<storeVars, clockVars, loop, runVars, held>>

\* The panic of should_fire ends the loop's task, and with it every firing.
Panic(t) ==
    /\ loop = "scanning" /\ todo[t] # NoTask
    /\ t \notin running
    /\ Panics(todo[t].task, age[t])
    /\ loop' = "dead"
    /\ todo' = [u \in Tasks |-> NoTask]
    /\ UNCHANGED <<storeVars, clockVars, guardVars, job, runVars, historyVars>>

\* The snapshot is exhausted: back to sleep.
Sleep ==
    /\ loop = "scanning"
    /\ \A t \in Tasks : todo[t] = NoTask
    /\ loop' = "asleep"
    /\ UNCHANGED <<storeVars, clockVars, todo, guardVars, job, runVars, historyVars>>

-----------------------------------------------------------------------------
(* The dispatch of a fired task.                                           *)

At(t, stage, kind) == job[t] # NoJob /\ job[t].stage = stage /\ job[t].kind = kind
Becomes(t, stage)  == job' = [job EXCEPT ![t].stage = stage]
Record(t, status)  == result' = [result EXCEPT ![t] = status]

\* run_shell without a target is a failed run.
ShellNoTarget(t) ==
    /\ At(t, "start", "shell") /\ ~job[t].target
    /\ Record(t, "failed")
    /\ Becomes(t, "done")
    /\ UNCHANGED <<storeVars, clockVars, loop, todo, guardVars, provider, turns, pending,
                   historyVars>>

\* run_shell tells the frontend; reports of earlier firings may still be due.
ShellNotify(t) ==
    /\ At(t, "start", "shell") /\ job[t].target /\ Attached
    /\ pending' = [pending EXCEPT ![t] = {"latest"} \cup (IF @ = {} THEN {} ELSE {"older"})]
    /\ Becomes(t, "notified")
    /\ UNCHANGED <<storeVars, clockVars, loop, todo, guardVars, provider, turns, result,
                   historyVars>>

\* ... and then marks the task as running.
ShellMarkRunning(t) ==
    /\ At(t, "notified", "shell")
    /\ Record(t, "running")
    /\ Becomes(t, "done")
    /\ UNCHANGED <<storeVars, clockVars, loop, todo, guardVars, provider, turns, pending,
                   historyVars>>

\* Without a frontend run_shell looks for the target's session...
ShellWaits(t) ==
    /\ At(t, "start", "shell") /\ job[t].target /\ ~Attached
    /\ Becomes(t, "waiting")
    /\ UNCHANGED <<storeVars, clockVars, loop, todo, guardVars, runVars, historyVars>>

\* ... and runs the script on it, with no limit on either.  A target that is
\* not connected is a failed run.
ShellDirect(t, status) ==
    /\ At(t, "waiting", "shell")
    /\ Record(t, status)
    /\ Becomes(t, "done")
    /\ UNCHANGED <<storeVars, clockVars, loop, todo, guardVars, provider, turns, pending,
                   historyVars>>

\* run_prompt without a provider is a failed run.
PromptNoProvider(t) ==
    /\ At(t, "start", "prompt") /\ ~provider
    /\ Record(t, "failed")
    /\ Becomes(t, "done")
    /\ UNCHANGED <<storeVars, clockVars, loop, todo, guardVars, provider, turns, pending,
                   historyVars>>

\* With one, its skills are rendered for the target: target_ctx waits for the
\* target's session, if the task names one.
PromptWaits(t) ==
    /\ At(t, "start", "prompt") /\ provider
    /\ Becomes(t, "waiting")
    /\ UNCHANGED <<storeVars, clockVars, loop, todo, guardVars, runVars, historyVars>>

\* Mutant: a prompt task that the runtime refuses is not recorded.
PromptRefusedSilently(t) ==
    /\ At(t, "waiting", "prompt")
    /\ Becomes(t, "done")
    /\ UNCHANGED <<storeVars, clockVars, loop, todo, guardVars, runVars, historyVars>>

\* A turn that the runtime refuses to start is a failed run (its sink,
\* dropped, records first).
PromptRefused(t) ==
    /\ At(t, "waiting", "prompt")
    /\ Record(t, "failed")
    /\ Becomes(t, "done")
    /\ UNCHANGED <<storeVars, clockVars, loop, todo, guardVars, provider, turns, pending,
                   historyVars>>

\* The turn is started and goes on by itself.
PromptStarts(t) ==
    /\ At(t, "waiting", "prompt")
    /\ turns[t] < MaxTurns
    /\ turns' = [turns EXCEPT ![t] = @ + 1]
    /\ Becomes(t, "done")
    /\ UNCHANGED <<storeVars, clockVars, loop, todo, guardVars, provider, pending, result,
                   historyVars>>

\* Mutant: the guard of a task deleted meanwhile is kept.
ReleaseSaved(t) ==
    /\ job[t] # NoJob /\ job[t].stage = "done" /\ task[t] # NoTask
    /\ running' = running \ {t}
    /\ job' = [job EXCEPT ![t] = NoJob]
    /\ UNCHANGED <<storeVars, clockVars, loop, todo, age, runVars, historyVars>>

\* dispatch has returned: the spawned task releases the overlap guard.
Release(t) ==
    /\ job[t] # NoJob /\ job[t].stage = "done"
    /\ running' = running \ {t}
    /\ job' = [job EXCEPT ![t] = NoJob]
    /\ UNCHANGED <<storeVars, clockVars, loop, todo, age, runVars, historyVars>>

-----------------------------------------------------------------------------
(* The frontend, the turns and the process.                                *)

\* A turn ends and drops its sink, which records its outcome.
TurnEnds(t, status) ==
    /\ turns[t] > 0
    /\ turns' = [turns EXCEPT ![t] = @ - 1]
    /\ Record(t, status)
    /\ UNCHANGED <<storeVars, clockVars, loop, todo, guardVars, job, provider, pending,
                   historyVars>>

\* automation_task_result: the frontend reports one of its firings, by task id.
Report(t, firing, status) ==
    /\ firing \in pending[t]
    /\ pending' = [pending EXCEPT ![t] = @ \ {firing}]
    /\ Record(t, status)
    /\ UNCHANGED <<storeVars, clockVars, loop, todo, guardVars, job, provider, turns,
                   historyVars>>

\* automation_set_provider.
SetProvider ==
    /\ ~provider
    /\ provider' = TRUE
    /\ UNCHANGED <<storeVars, clockVars, loop, todo, guardVars, job, turns, pending, result,
                   historyVars>>

\* The process ends and is started again d units later: the store is loaded
\* from disk, everything the scheduler and the dispatcher knew is gone.
Restart(d) ==
    /\ Passes(d)
    /\ loop' = "asleep"
    /\ todo' = [t \in Tasks |-> NoTask]
    /\ running' = {}
    /\ age' = [t \in Tasks |-> Never]
    /\ job' = [t \in Tasks |-> NoJob]
    /\ provider' = FALSE
    /\ turns' = [t \in Tasks |-> 0]
    /\ pending' = [t \in Tasks |-> {}]
    /\ result' = [t \in Tasks |-> "none"]
    /\ inMinute' = [t \in Tasks |-> 0]
    /\ held' = [t \in Tasks |-> FALSE]
    /\ UNCHANGED <<task, sinceSave>>

Gaps == Second .. MaxGap
Ends == {"success", "failed"}

LoopStep    == \/ \E d \in Gaps : Wake(d)
               \/ \E t \in Tasks : Skip(t) \/ Fire(t) \/ Panic(t)
               \/ Sleep
DispatchStep(t) ==
    \/ ShellNoTarget(t) \/ ShellNotify(t) \/ ShellMarkRunning(t)
    \/ ShellWaits(t) \/ \E s \in Ends : ShellDirect(t, s)
    \/ PromptNoProvider(t) \/ PromptWaits(t) \/ PromptRefused(t) \/ PromptStarts(t)
    \/ Release(t)
OutsideStep(t) == \E s \in Ends : \/ TurnEnds(t, s)
                                  \/ \E f \in {"latest", "older"} : Report(t, f, s)
EditStep == \E t \in Tasks : \/ \E d \in Drafts : Upsert(t, d)
                             \/ \E b \in BOOLEAN : SetEnabled(t, b)
                             \/ Delete(t)

\* One life of the process.
Life == LoopStep \/ EditStep \/ SetProvider
        \/ \E t \in Tasks : DispatchStep(t) \/ OutsideStep(t)
Next == Life \/ \E d \in Gaps : Restart(d)

Spec     == Init /\ [][Next]_vars
LifeSpec == Init /\ [][Life]_vars

\* The dispatch waits for its target: for a session that is reconnecting, for
\* its lock, or for the end of the script.
AwaitsTarget(t) == job[t] # NoJob /\ job[t].stage = "waiting" /\ job[t].target

\* tokio runs every ready task: the loop ticks on, and a dispatch proceeds
\* where it does not wait for its target, which may take for ever.
Fairness == /\ WF_vars(LoopStep)
            /\ \A t \in Tasks : WF_vars(~AwaitsTarget(t) /\ DispatchStep(t))
FairSpec == LifeSpec /\ Fairness

\* No interval turns negative on its way to an i64.
Representable == \A d \in Drafts : d.seconds < Wrap

-----------------------------------------------------------------------------
(* Properties.                                                             *)

(* History variables.  sinceSave counts the firings (up to two) of a task  *)
(* since it was last saved, across restarts.  inMinute counts the firings  *)
(* of a task id within the clock's minute, in this life of the process.    *)
(* held says that a tick of this minute saw a cron task that matched and   *)
(* was idle, and did not fire it.                                          *)

\* What the store holds: a saved definition, enabled or not.
Stored == {[d EXCEPT !.enabled = b] : d \in Drafts, b \in BOOLEAN}
Entry  == [task: Stored, due: BOOLEAN]
Job    == [stage: {"start", "notified", "waiting", "done"}, kind: Kinds, target: BOOLEAN]

\* Every variable holds a value of its type.
TypeOK ==
    /\ task \in [Tasks -> Stored \cup {NoTask}]
    /\ wait \in [Tasks -> Nat]
    /\ minute \in 0 .. Cycle - 1 /\ offset \in 0 .. Minute - 1
    /\ loop \in {"asleep", "scanning", "dead"}
    /\ todo \in [Tasks -> Entry \cup {NoTask}]
    /\ running \subseteq Tasks
    /\ age \in [Tasks -> 0 .. MaxAge \cup {Never}]
    /\ job \in [Tasks -> Job \cup {NoJob}]
    /\ provider \in BOOLEAN
    /\ turns \in [Tasks -> Nat]
    /\ pending \in [Tasks -> SUBSET {"latest", "older"}]
    /\ result \in [Tasks -> {"none", "running", "success", "failed"}]
    /\ sinceSave \in [Tasks -> 0 .. 2]
    /\ inMinute \in [Tasks -> Nat]
    /\ held \in [Tasks -> BOOLEAN]

\* The overlap guard holds a task exactly while its dispatch is in flight
\* (scheduler.rs:191-199), whatever is edited or deleted meanwhile.
GuardExact == running = {t \in Tasks : job[t] # NoJob}

\* The 59 second window (scheduler.rs:101) and the least interval (types.rs:206)
\* keep a task id from firing more than twice in a minute of the clock, however
\* the ticks drift and whatever is saved under the id in between.
AtMostTwice == \A t \in Tasks : inMinute[t] <= 2

\* What AtMostTwice rests on: the last firing in this minute lies in it, and a
\* second one is further than the window from the minute's start.
MinuteSpacing ==
    \A t \in Tasks :
        /\ inMinute[t] > 0 => age[t] # Never /\ age[t] <= offset
        /\ inMinute[t] = 2 => offset - age[t] > Window

\* The state is well typed, the overlap guard exact and the firings spaced: the
\* inductive invariant of the tick loop and the dispatches (scheduler.rs:182-200).
SchedulerInv == TypeOK /\ GuardExact /\ MinuteSpacing /\ AtMostTwice

\* The firings of a task id in one life of the process are further apart than
\* window, also when the task is edited, deleted and created again in
\* between: last_fired is kept by id (scheduler.rs:192).
Spaced ==
    [][\A t \in Tasks : job[t] = NoJob /\ job'[t] # NoJob
                            => age[t] = Never \/ age[t] > Window]_vars

\* A run leaves a trace: once a task has fired and nothing of it is in flight,
\* the last-run table has an entry (dispatcher.rs:11-12).
EveryRunRecorded ==
    \A t \in Tasks : age[t] # Never /\ job[t] = NoJob /\ turns[t] = 0 => result[t] # "none"

\* The overlap guard is released again (scheduler.rs:198), whatever is edited
\* or deleted meanwhile, unless the dispatch waits for its target for ever.
GuardReleased ==
    \A t \in Tasks : t \in running ~> (t \notin running \/ []AwaitsTarget(t))

Fires(t) == job[t] # NoJob /\ job[t].stage = "start"

Recurring(t) == /\ task[t] # NoTask /\ task[t].enabled
                /\ \/ task[t].type = "interval"
                   \/ task[t].type = "cron" /\ task[t].minutes # {}

\* A recurring task that is left as it is keeps firing (scheduler.rs:80-103),
\* unless one of its dispatches waits for its target for ever.
Recurs ==
    \A t \in Tasks :
        \/ []<>Fires(t) \/ <>[]AwaitsTarget(t)
        \/ []<>~Recurring(t) \/ []<><<task'[t] # task[t]>>_vars

OnceDue(t) == /\ task[t] # NoTask /\ task[t].enabled /\ task[t].type = "once"
              /\ wait[t] = 0 /\ sinceSave[t] = 0

\* A `once` task whose time has come fires, if its id never fired before
\* (scheduler.rs:110).
OnceFires == \A t \in Tasks : OnceDue(t) /\ age[t] = Never ~> ~OnceDue(t) \/ age[t] # Never

\* scheduler.rs:79: "once: fires at/after `at`, only once": a due `once` task
\* fires, whatever was saved under its id before.
DueOnceFires == \A t \in Tasks : OnceDue(t) ~> ~OnceDue(t)

\* scheduler.rs:79 "only once", for a task that nobody saves again.
OnceOnly == \A t \in Tasks : task[t] # NoTask /\ task[t].type = "once" => sinceSave[t] <= 1

\* scheduler.rs:99-100: "once this minute has fired, wait for a later minute
\* even if `now` is still within it".
CronOncePerMinute == \A t \in Tasks : inMinute[t] <= 1

\* scheduler.rs:77-78: a cron task "fires when the expression matches the
\* current minute and the last fire is outside that minute": no minute in which
\* a tick saw the task idle and matching goes by without a firing.
NoMinuteSkipped ==
    [][\A t \in Tasks : held[t] /\ offset' < offset /\ age'[t] # Never => inMinute[t] # 0]_vars

\* scheduler.rs:1-3: the scheduler skips "an overlapping run of the same task".
NoOverlap == \A t \in Tasks : turns[t] <= 1

\* dispatcher.rs:223: a task is marked as running "until the frontend reports
\* the outcome".
ReportKept == \A t \in Tasks : result[t] = "running" => "latest" \in pending[t]

\* scheduler.rs:5: the scheduler is "app-lifetime": its loop never ends by itself.
LoopAlive == loop # "dead"
=============================================================================
