-------------------------- MODULE SchedulerProofs --------------------------
(***************************************************************************)
(* Proofs about Scheduler, for every set of tasks and definitions and      *)
(* every length of the tick, the window and the minute.                    *)
(***************************************************************************)
EXTENDS Scheduler, TLAPS

-----------------------------------------------------------------------------
(* Type correctness.                                                       *)

\* What the store holds is a draft, and keeps the trigger of the saved one.
LEMMA StoredDraft ==
    ASSUME NEW x \in Stored
    PROVE  /\ x \in Draft
           /\ x.type = "interval" => x.seconds >= Minute
           /\ Representable => x.seconds < Wrap
           /\ \A b \in BOOLEAN : [x EXCEPT !.enabled = b] \in Stored
<1>1. PICK d \in Drafts, c \in BOOLEAN : x = [d EXCEPT !.enabled = c]
    BY DEF Stored
<1>2. d \in Draft /\ (d.type = "interval" => d.seconds >= Minute)
    BY SchedulerAssumption
<1>3. x \in Draft /\ x.type = d.type /\ x.seconds = d.seconds
    BY <1>1, <1>2 DEF Draft
<1>4. \A b \in BOOLEAN : [x EXCEPT !.enabled = b] = [d EXCEPT !.enabled = b]
    BY <1>1, <1>2 DEF Draft
<1> QED
    BY <1>2, <1>3, <1>4 DEF Stored, Representable

\* Time passes within the clock's bounds.
LEMMA PassesTyped ==
    ASSUME TypeOK, NEW d \in Gaps, Passes(d)
    PROVE  /\ minute' \in 0 .. Cycle - 1
           /\ offset' \in 0 .. Minute - 1
           /\ wait' \in [Tasks -> Nat]
<1>1. d \in Nat /\ d <= Minute /\ minute \in 0 .. Cycle - 1 /\ offset \in 0 .. Minute - 1
    BY SchedulerAssumption DEF Gaps, TypeOK
<1>2. minute' \in 0 .. Cycle - 1
    BY <1>1, SchedulerAssumption DEF Passes
<1>3. offset' \in 0 .. Minute - 1
    BY <1>1, SchedulerAssumption DEF Passes
<1>4. \A t \in Tasks : Sooner(wait[t], d) \in Nat
    BY <1>1 DEF TypeOK, Sooner
<1> QED
    BY <1>2, <1>3, <1>4 DEF Passes

\* A dispatch record keeps its type when its stage changes.
LEMMA BecomesTyped ==
    ASSUME TypeOK, NEW t \in Tasks, job[t] # NoJob,
           NEW p \in {"start", "notified", "waiting", "done"}, Becomes(t, p)
    PROVE  /\ job' \in [Tasks -> Job \cup {NoJob}]
           /\ \A u \in Tasks : job'[u] # NoJob <=> job[u] # NoJob
<1>1. job[t] \in Job
    BY DEF TypeOK
<1>2. [job[t] EXCEPT !.stage = p] \in Job /\ [job[t] EXCEPT !.stage = p] # NoJob
    BY <1>1, SchedulerAssumption DEF Job
<1>3. job' = [job EXCEPT ![t] = [job[t] EXCEPT !.stage = p]]
    BY DEF Becomes
<1> QED
    BY <1>2, <1>3 DEF TypeOK

\* The new dispatch of a fired task is not the mark for none.
LEMMA FiredJob ==
    ASSUME TypeOK, NEW t \in Tasks, todo[t] # NoTask
    PROVE  LET j == [stage |-> "start", kind |-> todo[t].task.kind, target |-> todo[t].task.target]
           IN  j \in Job /\ j # NoJob
<1>1. todo[t] \in Entry
    BY DEF TypeOK
<1>2. todo[t].task \in Draft
    BY <1>1, StoredDraft DEF Entry
<1> QED
    BY <1>2, SchedulerAssumption DEF Draft, Job

\* Initially everything is empty and of its type.
LEMMA InitInv == Init => SchedulerInv
<1> SUFFICES ASSUME Init PROVE SchedulerInv
    OBVIOUS
<1>1. minute \in 0 .. Cycle - 1 /\ offset \in 0 .. Minute - 1
    BY SchedulerAssumption DEF Init
<1>2. /\ task \in [Tasks -> Stored \cup {NoTask}]
      /\ wait \in [Tasks -> Nat]
      /\ todo \in [Tasks -> Entry \cup {NoTask}]
      /\ age \in [Tasks -> 0 .. MaxAge \cup {Never}]
      /\ job \in [Tasks -> Job \cup {NoJob}]
    BY DEF Init
<1>3. /\ turns \in [Tasks -> Nat]
      /\ pending \in [Tasks -> SUBSET {"latest", "older"}]
      /\ result \in [Tasks -> {"none", "running", "success", "failed"}]
    BY DEF Init
<1>4. /\ sinceSave \in [Tasks -> 0 .. 2]
      /\ inMinute \in [Tasks -> Nat]
      /\ held \in [Tasks -> BOOLEAN]
    BY DEF Init
<1>5. loop \in {"asleep", "scanning", "dead"} /\ running \subseteq Tasks /\ provider \in BOOLEAN
    BY DEF Init
<1>6. TypeOK
    BY <1>1, <1>2, <1>3, <1>4, <1>5 DEF TypeOK
<1>7. GuardExact
    BY DEF Init, GuardExact
<1>8. MinuteSpacing /\ AtMostTwice
    BY DEF Init, MinuteSpacing, AtMostTwice
<1> QED
    BY <1>6, <1>7, <1>8 DEF SchedulerInv

\* The tick loop keeps the types.
LEMMA LoopTyped ==
    ASSUME TypeOK, LoopStep
    PROVE  TypeOK'
<1>1. ASSUME NEW d \in Gaps, Wake(d) PROVE TypeOK'
  <2>1. Passes(d)
      BY <1>1 DEF Wake
  <2>2. d \in Nat
      BY SchedulerAssumption DEF Gaps
  <2>3. age' \in [Tasks -> 0 .. MaxAge \cup {Never}]
    <3>1. \A t \in Tasks : age[t] # Never => Older(age[t], d) \in 0 .. MaxAge
        BY <2>2, SchedulerAssumption DEF TypeOK, Older
    <3> QED
        BY <3>1, <1>1 DEF Wake
  <2>4. todo' \in [Tasks -> Entry \cup {NoTask}]
    <3>1. \A t \in Tasks : task[t] # NoTask => [task |-> task[t], due |-> wait'[t] = 0] \in Entry
        BY DEF TypeOK, Entry
    <3> QED
        BY <3>1, <1>1 DEF Wake
  <2>5. inMinute' \in [Tasks -> Nat] /\ held' \in [Tasks -> BOOLEAN]
      BY <1>1 DEF Wake, TypeOK
  <2> QED
      BY <1>1, <2>1, <2>3, <2>4, <2>5, PassesTyped DEF Wake, TypeOK, runVars
<1>2. ASSUME NEW t \in Tasks, Skip(t) PROVE TypeOK'
  <2>1. held' \in [Tasks -> BOOLEAN]
      BY <1>2 DEF Skip, TypeOK
  <2> QED
      BY <1>2, <2>1 DEF Skip, TypeOK, storeVars, clockVars, guardVars, runVars
<1>3. ASSUME NEW t \in Tasks, Fire(t) PROVE TypeOK'
  <2>1. job' \in [Tasks -> Job \cup {NoJob}]
      BY <1>3, FiredJob DEF Fire, TypeOK
  <2>2. age' \in [Tasks -> 0 .. MaxAge \cup {Never}]
      BY <1>3, SchedulerAssumption DEF Fire, TypeOK
  <2>3. sinceSave' \in [Tasks -> 0 .. 2] /\ inMinute' \in [Tasks -> Nat]
      BY <1>3 DEF Fire, TypeOK
  <2> QED
      BY <1>3, <2>1, <2>2, <2>3 DEF Fire, TypeOK, storeVars, clockVars, runVars
<1>4. ASSUME NEW t \in Tasks, Panic(t) PROVE TypeOK'
    BY <1>4 DEF Panic, TypeOK, storeVars, clockVars, guardVars, runVars, historyVars
<1>5. ASSUME Sleep PROVE TypeOK'
    BY <1>5 DEF Sleep, TypeOK, storeVars, clockVars, guardVars, runVars, historyVars
<1> QED
    BY <1>1, <1>2, <1>3, <1>4, <1>5 DEF LoopStep

\* A dispatch keeps the types, and keeps the guard exact.
LEMMA DispatchTyped ==
    ASSUME TypeOK, GuardExact, NEW t \in Tasks, DispatchStep(t)
    PROVE  TypeOK' /\ GuardExact'
<1> USE DEF TypeOK, storeVars, clockVars, guardVars, runVars, historyVars
<1>1. ASSUME NEW p \in {"start", "notified", "waiting", "done"}, job[t] # NoJob, Becomes(t, p),
             running' = running
      PROVE  job' \in [Tasks -> Job \cup {NoJob}] /\ GuardExact'
  <2>1. /\ job' \in [Tasks -> Job \cup {NoJob}]
        /\ \A u \in Tasks : job'[u] # NoJob <=> job[u] # NoJob
      BY <1>1, BecomesTyped
  <2> QED
      BY <1>1, <2>1 DEF GuardExact
<1>2. CASE ShellNoTarget(t) \/ ShellMarkRunning(t) \/ PromptNoProvider(t) \/ PromptRefused(t)
           \/ \E s \in Ends : ShellDirect(t, s)
    BY <1>1, <1>2 DEF ShellNoTarget, ShellMarkRunning, PromptNoProvider, PromptRefused,
                      ShellDirect, At, Record, Ends
<1>3. CASE ShellNotify(t) \/ ShellWaits(t) \/ PromptWaits(t)
    BY <1>1, <1>3 DEF ShellNotify, ShellWaits, PromptWaits, At
<1>4. CASE PromptStarts(t)
    BY <1>1, <1>4 DEF PromptStarts, At
<1>5. CASE Release(t)
    BY <1>5 DEF Release, GuardExact
<1> QED
    BY <1>2, <1>3, <1>4, <1>5 DEF DispatchStep

\* Edits, the frontend, the turns and the provider keep the types and leave the
\* loop's state alone.
LEMMA OutsideTyped ==
    ASSUME TypeOK, EditStep \/ SetProvider \/ \E t \in Tasks : OutsideStep(t)
    PROVE  TypeOK' /\ UNCHANGED <<guardVars, job, inMinute, clockVars>>
<1> USE DEF TypeOK, storeVars, clockVars, guardVars, runVars, historyVars
<1>1. ASSUME NEW t \in Tasks, NEW d \in Drafts, Upsert(t, d)
      PROVE  TypeOK' /\ UNCHANGED <<guardVars, job, inMinute, clockVars>>
  <2>1. d \in Draft /\ d.at \in Nat
      BY SchedulerAssumption DEF Draft
  <2>2. d = [d EXCEPT !.enabled = d.enabled] /\ d.enabled \in BOOLEAN
      BY <2>1 DEF Draft
  <2>3. d \in Stored
      BY <2>2 DEF Stored
  <2> QED
      BY <1>1, <2>1, <2>3 DEF Upsert
<1>2. ASSUME NEW t \in Tasks, NEW b \in BOOLEAN, SetEnabled(t, b)
      PROVE  TypeOK' /\ UNCHANGED <<guardVars, job, inMinute, clockVars>>
  <2>1. [task[t] EXCEPT !.enabled = b] \in Stored
      BY <1>2, StoredDraft DEF SetEnabled
  <2> QED
      BY <1>2, <2>1 DEF SetEnabled
<1>3. ASSUME NEW t \in Tasks, Delete(t)
      PROVE  TypeOK' /\ UNCHANGED <<guardVars, job, inMinute, clockVars>>
    BY <1>3 DEF Delete
<1>4. CASE SetProvider
    BY <1>4 DEF SetProvider
<1>5. ASSUME NEW t \in Tasks, OutsideStep(t)
      PROVE  TypeOK' /\ UNCHANGED <<guardVars, job, inMinute, clockVars>>
  <2>1. ASSUME NEW s \in Ends, TurnEnds(t, s)
        PROVE  TypeOK' /\ UNCHANGED <<guardVars, job, inMinute, clockVars>>
      BY <2>1 DEF TurnEnds, Record, Ends
  <2>2. ASSUME NEW s \in Ends, NEW f \in {"latest", "older"}, Report(t, f, s)
        PROVE  TypeOK' /\ UNCHANGED <<guardVars, job, inMinute, clockVars>>
      BY <2>2 DEF Report, Record, Ends
  <2> QED
      BY <1>5, <2>1, <2>2 DEF OutsideStep
<1> QED
    BY <1>1, <1>2, <1>3, <1>4, <1>5 DEF EditStep

\* A restart leaves a typed state in which nothing is running.
LEMMA RestartKeepsInv ==
    ASSUME TypeOK, NEW d \in Gaps, Restart(d)
    PROVE  SchedulerInv'
<1>1. TypeOK'
    BY PassesTyped DEF Restart, TypeOK
<1>2. GuardExact' /\ MinuteSpacing' /\ AtMostTwice'
    BY DEF Restart, GuardExact, MinuteSpacing, AtMostTwice
<1> QED
    BY <1>1, <1>2 DEF SchedulerInv

-----------------------------------------------------------------------------
(* The spacing of the firings.                                             *)

\* A task that is examined and due fired longer than the window ago, if ever.
LEMMA DueIsSpaced ==
    ASSUME TypeOK, Representable, NEW t \in Tasks, Fire(t)
    PROVE  age[t] = Never \/ age[t] > Window
<1> DEFINE d == todo[t].task
<1>1. d \in Stored
    BY DEF Fire, TypeOK, Entry
<1>2. d.type \in Types /\ d.seconds \in Nat /\ d.seconds < Wrap
      /\ (d.type = "interval" => d.seconds >= Minute)
    BY <1>1, StoredDraft DEF Draft
<1>3. ShouldFire(d, age[t], minute, todo[t].due)
    BY DEF Fire
<1>4. CASE age[t] # Never
  <2>1. age[t] \in Nat /\ Minute \in Nat /\ Window \in Nat /\ Window < Minute
      BY <1>4, SchedulerAssumption DEF TypeOK
  <2>2. CASE d.type = "interval"
      BY <1>2, <1>3, <1>4, <2>1, <2>2 DEF ShouldFire, AsI64
  <2>3. CASE d.type # "interval"
      BY <1>3, <1>4, <2>3 DEF ShouldFire
  <2> QED
      BY <2>2, <2>3
<1> QED
    BY <1>4

\* The tick loop keeps the guard exact, however long the intervals are.
LEMMA LoopGuard ==
    ASSUME TypeOK, GuardExact, LoopStep
    PROVE  GuardExact'
<1>1. ASSUME NEW t \in Tasks, Fire(t) PROVE GuardExact'
  <2>1. running' = running \cup {t} /\ job' = [job EXCEPT ![t] = job'[t]] /\ job'[t] # NoJob
      BY <1>1, FiredJob DEF Fire, TypeOK
  <2> QED
      BY <2>1 DEF GuardExact, TypeOK
<1>2. CASE \/ \E d \in Gaps : Wake(d)
           \/ \E t \in Tasks : Skip(t) \/ Panic(t)
           \/ Sleep
  <2>1. UNCHANGED <<running, job>>
      BY <1>2 DEF Wake, Skip, Panic, Sleep, guardVars
  <2> QED
      BY <2>1 DEF GuardExact
<1> QED
    BY <1>1, <1>2 DEF LoopStep

\* The tick loop keeps the firings of a minute spaced.
LEMMA LoopSpaced ==
    ASSUME SchedulerInv, Representable, LoopStep
    PROVE  MinuteSpacing' /\ AtMostTwice'
<1> USE DEF SchedulerInv
<1>1. ASSUME NEW d \in Gaps, Wake(d) PROVE MinuteSpacing' /\ AtMostTwice'
  <2>1. d \in Nat /\ offset \in Nat /\ Minute \in Nat /\ MaxAge \in Nat /\ Minute <= MaxAge
        /\ Never \notin Nat /\ Window \in Nat
      BY SchedulerAssumption DEF Gaps, TypeOK
  <2>2. ASSUME NEW t \in Tasks
        PROVE  /\ inMinute'[t] > 0 => age'[t] # Never /\ age'[t] <= offset'
               /\ inMinute'[t] = 2 => offset' - age'[t] > Window
               /\ inMinute'[t] <= 2
    <3>1. inMinute'[t] = IF offset + d < Minute THEN inMinute[t] ELSE 0
        BY <1>1 DEF Wake
    <3>2. CASE offset + d < Minute /\ inMinute[t] > 0
      <4>1. age[t] # Never /\ age[t] <= offset /\ age[t] \in Nat
          BY <3>2 DEF MinuteSpacing, TypeOK
      <4>2. age'[t] = age[t] + d
          BY <1>1, <2>1, <3>2, <4>1 DEF Wake, Older
      <4>3. offset' = offset + d
          BY <1>1, <3>2 DEF Wake, Passes
      <4>4. inMinute[t] \in Nat /\ inMinute[t] <= 2 /\ (inMinute[t] = 2 => offset - age[t] > Window)
          BY DEF MinuteSpacing, AtMostTwice, TypeOK
      <4> QED
          BY <2>1, <3>1, <3>2, <4>1, <4>2, <4>3, <4>4
    <3>3. CASE ~(offset + d < Minute /\ inMinute[t] > 0)
      <4>1. inMinute[t] \in Nat
          BY DEF TypeOK
      <4> QED
          BY <3>1, <3>3, <4>1
    <3> QED
        BY <3>2, <3>3
  <2> QED
      BY <2>2 DEF MinuteSpacing, AtMostTwice
<1>2. ASSUME NEW t \in Tasks, Skip(t) PROVE MinuteSpacing' /\ AtMostTwice'
    BY <1>2 DEF Skip, MinuteSpacing, AtMostTwice, clockVars, guardVars
<1>3. ASSUME NEW t \in Tasks, Fire(t) PROVE MinuteSpacing' /\ AtMostTwice'
  <2>1. offset \in Nat /\ Minute \in Nat /\ Window \in Nat /\ offset < Minute
        /\ Minute <= 2 * Window /\ Never \notin Nat /\ inMinute[t] \in Nat /\ offset' = offset
      BY <1>3, SchedulerAssumption DEF TypeOK, Fire, clockVars
  <2>2. age[t] = Never \/ (age[t] \in Nat /\ age[t] > Window)
      BY <1>3, DueIsSpaced DEF TypeOK
  <2>3. inMinute[t] <= 1
      BY <2>1, <2>2 DEF MinuteSpacing, AtMostTwice
  <2>4. inMinute[t] = 1 => offset > Window
      BY <2>1, <2>2 DEF MinuteSpacing
  <2>5. age'[t] = 0 /\ inMinute'[t] = inMinute[t] + 1
      BY <1>3 DEF Fire, TypeOK
  <2>6. \A u \in Tasks : u # t => age'[u] = age[u] /\ inMinute'[u] = inMinute[u]
      BY <1>3 DEF Fire, TypeOK
  <2>7. ASSUME NEW u \in Tasks
        PROVE  /\ inMinute'[u] > 0 => age'[u] # Never /\ age'[u] <= offset'
               /\ inMinute'[u] = 2 => offset' - age'[u] > Window
               /\ inMinute'[u] <= 2
    <3>1. CASE u = t
        BY <2>1, <2>3, <2>4, <2>5, <3>1
    <3>2. CASE u # t
        BY <2>1, <2>6, <3>2 DEF MinuteSpacing, AtMostTwice
    <3> QED
        BY <3>1, <3>2
  <2> QED
      BY <2>7 DEF MinuteSpacing, AtMostTwice
<1>4. ASSUME NEW t \in Tasks, Panic(t) PROVE MinuteSpacing' /\ AtMostTwice'
    BY <1>4 DEF Panic, MinuteSpacing, AtMostTwice, clockVars, guardVars, historyVars
<1>5. ASSUME Sleep PROVE MinuteSpacing' /\ AtMostTwice'
    BY <1>5 DEF Sleep, MinuteSpacing, AtMostTwice, clockVars, guardVars, historyVars
<1> QED
    BY <1>1, <1>2, <1>3, <1>4, <1>5 DEF LoopStep

\* A dispatch leaves the clock and the ages alone.
LEMMA DispatchFrame ==
    ASSUME NEW t \in Tasks, DispatchStep(t)
    PROVE  UNCHANGED <<age, offset, inMinute>>
    BY DEF DispatchStep, ShellNoTarget, ShellNotify, ShellMarkRunning, ShellWaits, ShellDirect,
           PromptNoProvider, PromptWaits, PromptRefused, PromptStarts, Release,
           clockVars, guardVars, historyVars

\* The invariant is inductive.
LEMMA StepInv ==
    ASSUME SchedulerInv, Representable, [Next]_vars
    PROVE  SchedulerInv'
<1> USE DEF SchedulerInv
<1>1. CASE LoopStep
    BY <1>1, LoopTyped, LoopGuard, LoopSpaced
<1>2. ASSUME NEW t \in Tasks, DispatchStep(t) PROVE SchedulerInv'
  <2>1. MinuteSpacing' /\ AtMostTwice'
      BY <1>2, DispatchFrame DEF MinuteSpacing, AtMostTwice
  <2> QED
      BY <1>2, <2>1, DispatchTyped
<1>3. CASE EditStep \/ SetProvider \/ \E t \in Tasks : OutsideStep(t)
  <2>1. TypeOK' /\ UNCHANGED <<guardVars, job, inMinute, clockVars>>
      BY <1>3, OutsideTyped
  <2> QED
      BY <2>1 DEF GuardExact, MinuteSpacing, AtMostTwice, guardVars, clockVars
<1>4. ASSUME NEW d \in Gaps, Restart(d) PROVE SchedulerInv'
    BY <1>4, RestartKeepsInv
<1>5. CASE UNCHANGED vars
    BY <1>5 DEF vars, TypeOK, GuardExact, MinuteSpacing, AtMostTwice, storeVars, clockVars,
                guardVars, runVars, historyVars
<1> QED
    BY <1>1, <1>2, <1>3, <1>4, <1>5 DEF Next, Life

\* The invariant of the scheduler (scheduler.rs:182-200) holds throughout, when
\* no interval overflows an i64: its types, the exact guard, the spacing.
THEOREM SchedulerInvariant == ASSUME Representable PROVE Spec => []SchedulerInv
<1>1. Init => SchedulerInv
    BY InitInv
<1>2. SchedulerInv /\ [Next]_vars => SchedulerInv'
    BY StepInv
<1> QED
    BY <1>1, <1>2, PTL DEF Spec

\* No task id fires more than twice in a minute of the clock (scheduler.rs:101,
\* types.rs:206), whatever the ticks' drift and the edits in between.
THEOREM FiresAtMostTwice == ASSUME Representable PROVE Spec => []AtMostTwice
<1>1. SchedulerInv => AtMostTwice
    BY DEF SchedulerInv
<1> QED
    BY <1>1, SchedulerInvariant, PTL

\* Two firings of a task id in one life of the process are further apart than
\* the window (scheduler.rs:192): the guard of Fire, and only Fire starts a job.
THEOREM FiringsSpaced == ASSUME Representable PROVE Spec => Spaced
<1> DEFINE Apart == \A t \in Tasks : job[t] = NoJob /\ job'[t] # NoJob
                                       => age[t] = Never \/ age[t] > Window
<1>1. SchedulerInv /\ [Next]_vars => [Apart]_vars
  <2> SUFFICES ASSUME SchedulerInv, Next PROVE Apart
      BY DEF Apart
  <2>1. TypeOK /\ GuardExact
      BY DEF SchedulerInv
  <2>2. ASSUME NEW t \in Tasks, DispatchStep(t) PROVE Apart
    <3>1. \A u \in Tasks : job'[u] # NoJob => job[u] # NoJob
      <4>1. CASE Release(t)
          BY <2>1, <4>1 DEF Release, TypeOK
      <4>2. ASSUME NEW p \in {"start", "notified", "waiting", "done"}, job[t] # NoJob, Becomes(t, p)
            PROVE  \A u \in Tasks : job'[u] # NoJob => job[u] # NoJob
          BY <2>1, <4>2, BecomesTyped
      <4> QED
          BY <2>2, <4>1, <4>2 DEF DispatchStep, ShellNoTarget, ShellNotify, ShellMarkRunning,
                                  ShellWaits, ShellDirect, PromptNoProvider, PromptWaits,
                                  PromptRefused, PromptStarts, At
    <3> QED
        BY <3>1
  <2>3. ASSUME NEW t \in Tasks, Fire(t) PROVE Apart
    <3>1. age[t] = Never \/ age[t] > Window
        BY <2>1, <2>3, DueIsSpaced
    <3>2. \A u \in Tasks : u # t => job'[u] = job[u]
        BY <2>3 DEF Fire
    <3> QED
        BY <3>1, <3>2
  <2>4. CASE \/ \E d \in Gaps : Wake(d)
             \/ \E t \in Tasks : Skip(t) \/ Panic(t)
             \/ Sleep
      BY <2>4 DEF Wake, Skip, Panic, Sleep
  <2>5. CASE EditStep \/ SetProvider \/ \E t \in Tasks : OutsideStep(t)
      BY <2>1, <2>5, OutsideTyped
  <2>6. ASSUME NEW d \in Gaps, Restart(d) PROVE Apart
      BY <2>6 DEF Restart
  <2> QED
      BY <2>2, <2>3, <2>4, <2>5, <2>6 DEF Next, Life, LoopStep
<1> QED
    BY <1>1, SchedulerInvariant, PTL DEF Spec, Spaced

-----------------------------------------------------------------------------
(* The overlap guard and the trace of a run need no bound on the intervals. *)

LEMMA GuardStep ==
    ASSUME TypeOK, GuardExact, [Next]_vars
    PROVE  TypeOK' /\ GuardExact'
<1>1. CASE LoopStep
    BY <1>1, LoopTyped, LoopGuard
<1>2. ASSUME NEW t \in Tasks, DispatchStep(t) PROVE TypeOK' /\ GuardExact'
    BY <1>2, DispatchTyped
<1>3. CASE EditStep \/ SetProvider \/ \E t \in Tasks : OutsideStep(t)
    BY <1>3, OutsideTyped DEF GuardExact, guardVars
<1>4. ASSUME NEW d \in Gaps, Restart(d) PROVE TypeOK' /\ GuardExact'
    BY <1>4, RestartKeepsInv DEF SchedulerInv
<1>5. CASE UNCHANGED vars
    BY <1>5 DEF vars, TypeOK, GuardExact, storeVars, clockVars, guardVars, runVars, historyVars
<1> QED
    BY <1>1, <1>2, <1>3, <1>4, <1>5 DEF Next, Life

\* The overlap guard holds a task exactly while its dispatch is in flight
\* (scheduler.rs:191-199), whatever is edited, deleted or due meanwhile.
THEOREM GuardIsExact == Spec => [](TypeOK /\ GuardExact)
<1>1. Init => TypeOK /\ GuardExact
    BY InitInv DEF SchedulerInv
<1> QED
    BY <1>1, GuardStep, PTL DEF Spec

\* A task that fired in this life of the process has left a trace, has a turn
\* in flight, or its dispatch has still to leave the one or start the other.
RunTraced ==
    \A t \in Tasks : age[t] # Never =>
        \/ result[t] # "none" \/ turns[t] > 0
        \/ job[t] # NoJob /\ job[t].stage \in {"start", "notified", "waiting"}

LEMMA RunTracedStep ==
    ASSUME TypeOK, RunTraced, [Next]_vars
    PROVE  RunTraced'
<1> USE DEF RunTraced, TypeOK, storeVars, clockVars, guardVars, runVars, historyVars
<1>1. ASSUME NEW d \in Gaps, Wake(d) PROVE RunTraced'
  <2>1. \A t \in Tasks : age'[t] # Never => age[t] # Never
      BY <1>1 DEF Wake
  <2>2. UNCHANGED <<job, turns, result>>
      BY <1>1 DEF Wake
  <2> QED
      BY <2>1, <2>2
<1>2. ASSUME NEW t \in Tasks, Fire(t) PROVE RunTraced'
  <2>1. job'[t] # NoJob /\ job'[t].stage = "start"
      BY <1>2, FiredJob DEF Fire
  <2>2. \A u \in Tasks : u # t => job'[u] = job[u] /\ age'[u] = age[u]
      BY <1>2 DEF Fire
  <2>3. UNCHANGED <<turns, result>>
      BY <1>2 DEF Fire
  <2> QED
      BY <2>1, <2>2, <2>3
<1>3. CASE (\E t \in Tasks : Skip(t) \/ Panic(t)) \/ Sleep \/ EditStep \/ SetProvider \/ UNCHANGED vars
  <2>1. UNCHANGED <<age, job, turns, result>>
      BY <1>3 DEF Skip, Panic, Sleep, EditStep, Upsert, SetEnabled, Delete, SetProvider, vars
  <2> QED
      BY <2>1
<1>4. ASSUME NEW t \in Tasks, NEW s \in {"running", "success", "failed"}, Record(t, s),
             UNCHANGED age, \A u \in Tasks : u # t => job'[u] = job[u] /\ turns'[u] = turns[u]
      PROVE  RunTraced'
    BY <1>4 DEF Record
<1>5. ASSUME NEW t \in Tasks, DispatchStep(t) PROVE RunTraced'
  <2>1. CASE \/ ShellNoTarget(t) \/ ShellMarkRunning(t)
             \/ PromptNoProvider(t) \/ PromptRefused(t)
             \/ \E s \in Ends : ShellDirect(t, s)
    <3>1. UNCHANGED <<age, turns>> /\ \A u \in Tasks : u # t => job'[u] = job[u]
        BY <2>1 DEF ShellNoTarget, ShellMarkRunning, PromptNoProvider, PromptRefused,
                    ShellDirect, Becomes
    <3>2. \E s \in {"running", "success", "failed"} : Record(t, s)
        BY <2>1 DEF ShellNoTarget, ShellMarkRunning, PromptNoProvider, PromptRefused,
                    ShellDirect, Ends
    <3> QED
        BY <1>4, <3>1, <3>2
  <2>2. CASE ShellNotify(t) \/ ShellWaits(t) \/ PromptWaits(t)
    <3>1. \A u \in Tasks : u # t => job'[u] = job[u]
        BY <2>2 DEF ShellNotify, ShellWaits, PromptWaits, Becomes
    <3>2. job'[t].stage \in {"notified", "waiting"} /\ job[t] # NoJob
        BY <2>2 DEF ShellNotify, ShellWaits, PromptWaits, Becomes, At, Job
    <3>3. \A u \in Tasks : job'[u] # NoJob <=> job[u] # NoJob
        BY <2>2, BecomesTyped DEF ShellNotify, ShellWaits, PromptWaits, At
    <3> QED
        BY <2>2, <3>1, <3>2, <3>3 DEF ShellNotify, ShellWaits, PromptWaits, runVars, guardVars
  <2>3. CASE PromptStarts(t)
    <3>1. turns'[t] > 0 /\ \A u \in Tasks : u # t => turns'[u] = turns[u] /\ job'[u] = job[u]
        BY <2>3 DEF PromptStarts, Becomes
    <3> QED
        BY <2>3, <3>1 DEF PromptStarts
  <2>4. CASE Release(t)
    <3>1. \A u \in Tasks : u # t => job'[u] = job[u]
        BY <2>4 DEF Release
    <3> QED
        BY <2>4, <3>1 DEF Release
  <2> QED
      BY <1>5, <2>1, <2>2, <2>3, <2>4 DEF DispatchStep
<1>6. ASSUME NEW t \in Tasks, OutsideStep(t) PROVE RunTraced'
  <2>1. /\ UNCHANGED <<age, job>> /\ \A u \in Tasks : u # t => turns'[u] = turns[u]
        /\ \E s \in {"running", "success", "failed"} : Record(t, s)
      BY <1>6 DEF OutsideStep, TurnEnds, Report, Ends
  <2> QED
      BY <1>4, <2>1
<1>7. ASSUME NEW d \in Gaps, Restart(d) PROVE RunTraced'
    BY <1>7 DEF Restart
<1> QED
    BY <1>1, <1>2, <1>3, <1>5, <1>6, <1>7 DEF Next, Life, LoopStep

\* A run leaves a trace (dispatcher.rs:11-12): once a task has fired and nothing
\* of it is in flight, the last-run table has an entry for it.
THEOREM EveryRunRecordedHolds == Spec => []EveryRunRecorded
<1>1. Init => RunTraced
    BY DEF Init, RunTraced
<1>2. TypeOK /\ RunTraced /\ [Next]_vars => RunTraced'
    BY RunTracedStep
<1>3. TypeOK /\ RunTraced => EveryRunRecorded
    BY DEF TypeOK, RunTraced, EveryRunRecorded
<1> QED
    BY <1>1, <1>2, <1>3, GuardIsExact, PTL DEF Spec
=============================================================================
