# Catio: a verification project

Catio is a desktop and server workbench (Tauri, Rust) for SSH hosts and
databases, with an AI agent that proposes and runs commands and a scheduler
that runs tasks unattended, and an Android app that receives files optically.
The Rust backend is under `src/src-tauri/src`, the native receiver under
`src/android/app/src/cpp`; the frontend is React.  This directory holds TLA+
modules that model the backend's concurrent core and the receiver, TLC
configurations that check them on small instances, and TLAPS proofs.

Run everything from this directory:

    tlc -workers 2 -config AgentTurn.cfg MCAgentTurn
    tlapm AgentTurnProofs.tla

and `tlapm` likewise on the other modules whose name ends in `Proofs`.

`PROJECT.json` lists the components, the runs, the mapping of every definition
to source lines, the mutants that show each property can fail, the findings,
the hazards and the theorems.

## 1. Inventory

### Agent (src-tauri/src/agent)

| part | state | operations | interacts with |
|---|---|---|---|
| `AgentRuntime` (runtime.rs) | map turn id -> `ActiveTurn` (owner, sender, cancel token, expected response, consumed keys, task handle) | `start_turn`, `respond`, `cancel`, `CleanupGuard::drop` | spawns the engine; called by Tauri commands, HTTP and the scheduler |
| `TurnEngine` (engine.rs) | locals of `run_loop`: rounds used, final synthesis, legacy mode, tools; the tool call in progress | `run`, `run_loop`, `process_tool`, `SequenceEmitter` | provider, policy, bridge, file session, router, event sink |
| `RuntimeBridge` (bridge.rs) | receiver of the response channel | `request_approval`, `execute_tool`, `recv_matching` | waits for `respond`, the cancel token and a timer |
| `ToolPolicy` (policy.rs) | none | `authorize`, `authorize_file`, `apply_unattended` | consulted by `process_tool` |
| local files (local_files.rs) | workspace grants, per-turn results by tool-use id | `configure`, `snapshot`, `preview`, `execute` | run by the engine in a blocking task; revoked by the user |
| providers, legacy fence | none that lasts | one round; the first shell fence of a text | called by `run_loop` |

Hard behaviour: a client may respond, repeat, conflict or cancel at every
suspension point of the engine; every wait has three ways out (answer, cancel,
timeout) that may be ready together; an expectation outlives the wait it was
published for; events may fail to be delivered; a task may end before its
starter has finished; a workspace may be revoked mid-call.

Correct means: nothing that needs approval runs without a decision of the owner
on that call; a result never misstates whether its call was dispatched; each
proposed call gets one result; the round budget holds and nothing runs in the
final synthesis; a cancelled turn ends, unless a backend tool holds it; no entry
outlives its task.

### Databases (src-tauri/src/db)

| part | state | operations | interacts with |
|---|---|---|---|
| `ConnManager` (manager.rs) | map connection id -> driver | `insert`, `remove`, `open_query_session`, `close_query_session`, `touch`, `status`, `query*`, `transaction`, `search_metadata`, `cancel*` | takes the three locks in the order connections, sessions, executions |
| `QuerySessions` (query_session_registry.rs) | map session id -> entry (parent, driver, lease, operation lock) | `reserve`, `activate`, `acquire`, `cancel`, `close`, `close_parent`, `retire`, `reap_expired_at` | a cleanup task per retired session, one reaper |
| `RunningQueries` (query_control.rs) | active executions, pending cancellations | `register`, `cancel`, `cancel_connection`, `QueryGuard::drop` | called under the locks above |
| drivers, import/export, SQL generation | external servers | | used through the `Driver` trait |

Hard behaviour: disconnect, close, lease expiry, cancel and new executions
race; cancel may overtake the run request; an open may finish after its entry
was taken; callers may go away at any await.

Correct means: nothing runs on a closed connection or session without having
been cancelled, no session comes back after its connection was removed, no
guard removes another's entry, no operation lock is left behind, no accepted
cancellation is lost, the limits hold, and a disconnect comes to rest but for
driver calls that do not heed their token.

### Automation (src-tauri/src/automation)

| part | state | operations | interacts with |
|---|---|---|---|
| tick loop (scheduler.rs) | `last_fired`, the `running` guard, both in memory | `tick_once`, `should_fire` | reads the store's snapshot, spawns a dispatch per firing |
| dispatcher (dispatcher.rs) | none | `run_shell`, `run_prompt` | notifies the frontend, starts an unattended turn of the agent |
| history (history.rs) | last run by task id | `record`, reports of the frontend | written by dispatcher, turn and frontend |
| store (repo.rs) | tasks, skills, MCP connections in a file | `upsert_task`, `delete_task` | edited beside the tick |

Hard behaviour: ticks drift against the minute; tasks are edited, deleted and
saved again under their id while they run; the loop may panic and the process
restart.  Correct means: the overlap guard is exact and released, firings keep
their distance, recurring tasks recur, a run leaves its entry.

### SSH (src-tauri/src/ssh)

| part | state | operations | interacts with |
|---|---|---|---|
| `SessionManager` (manager.rs) | five tables: sessions, reconnect entries, tunnels, monitors, transfer flags | `get_cancellable`, `remove`, `is_reconnecting_or_closed`, `insert_monitor`, ... | all of the below |
| supervisor (conn.rs) | phase of the session, the connection it dials | `supervise_reconnect` | replaces the session's handle; stopped and aborted by `remove` |
| terminals (term.rs) | `Session::terms`, an owner task each | open, close, write, resize | a channel of one physical connection |
| monitor (monitor.rs) | a sampling task | start, stop | one command after the other under the session's mutex |
| transfers (sftp.rs) | cancel flag, attempt | upload, download with retries, by SFTP or by exec | `get_cancellable` at each attempt |
| tunnels (tunnel.rs) | routes of forwarded ports, accepting tasks | open, close | the routes outlive a connection |

Hard behaviour: the physical connection goes and comes while commands hold, or
wait for, the session; the user disconnects at any time; stop, abort and the
removal from the tables are separate steps; two clients may drive one session.
Correct means: never two physical connections, everything that waits is freed,
the supervisor ends, what can be looked up is served.

### Android receiver (android/app/src/cpp)

| part | state | operations | interacts with |
|---|---|---|---|
| `NativeReceiver` (cfc-cpp/jni.cpp) | the receiver, the mode asked for | `submit`, `pollFile`, `snapshot`, `reset` | camera thread and UI thread |
| `MultiThreadedDecoder` | frames in flight, outline, tracked region, detected mode | `add`, `set_mode`, `stop` | one to four decoder threads |
| `thread_pool`, `monitor` (concurrent/) | `_running`, queue; flag and condition variable | `try_execute`, `run`, `stop`; `wait`, `notify_one`, `signal_all` | |
| camera view (OpencvCameraView.java) | the camera thread | connect, disconnect | a new thread each time, while the receiver stays |
| frame decoding (libcimbar encoder/) | offset, bad mark and buffer of the aligner | `write`, `mark_bad_chunk` | hands chunks to the sink |
| `ObservedFountainSink`, `fountain_decoder_sink` | streams by slot, finished transfers, status, events | `write`, `decode_frame`, `store`, `mark_done`, `poll` | decoder threads and UI |
| `ReceivedFileStore.h` | the files of the app | `store_received_file`, `publish_received_file` | called while the write lock is held |

Hard behaviour: notifications without a flag, a flag taken by one of several
threads, a queue without an order between camera threads, frames that finish out
of order, bad blocks at any place of a frame, a
sender that repeats itself for ever, a process that dies while it stores.
Correct means: frames in flight are bounded and exactly counted, a stop ends,
each transfer is stored once and whole, and nothing replaces a stored file.

### The rest

*Optical transfer* (optical.rs): scoped unlock grants and read leases of the
sending page.  *Servers* (server.rs, server_ws.rs, mcp/, auth.rs): transports
and accounts.  *Terminals, VNC, scan, parsers*: byte streams and text.
*Vendored libraries* under `android/.../third_party_lib` (wirehair, zstd, stb,
fmt, the lock-free queue), and the image half of libcimbar (extraction, colour,
encoder, command-line and wasm front ends).  `PROJECT.json` lists each with what
is kept out or in.

## 2. Plan

1. `AgentTurn` with its contract, invariant and proofs: done.
2. `QuerySessions` with its invariant and proofs: done.
3. `Scheduler` with its invariant and proofs: done.
4. `SshSessions` with its invariant and proofs: done.
5. `ReceiverPool`, `FrameAligner` and `FountainSink` with their invariants and
   proofs: done.
6. The step simulation of `AgentTurn` by `TurnContract`: done.  With it every
   safety property the runs check, state or action, is a theorem.
7. `Reception`, the promise of `FountainSink` to the user, and its refinement:
   done.  Still to state and prove: a registry whose cancellations are never lost
   (of `QuerySessions`).
8. Modules still to write: `LocalFiles` (grants, versions and atomic replacement
   behind `FileReturns`) and `Optical` (grants, leases, revocation).

## 3. Modules

| module | models |
|---|---|
| `AgentTurn` | one turn: runtime entry, engine task, bridge, client |
| `TurnContract` | what a follower of the turn's events may rely on |
| `AgentTurnInv` | the inductive invariant of `AgentTurn` |
| `AgentTurnProofs` | theorems and proofs |
| `TurnContractProofs` | that `AgentTurn` implements `TurnContract` |
| `MCAgentTurn` | requests and tool shapes for TLC |
| `QuerySessions` | connections, sessions and executions |
| `QuerySessionsProofs` | theorems and proofs |
| `MCQuerySessions` | symmetry for TLC |
| `Scheduler` | tick loop, dispatcher, last-run table, edits and restarts |
| `SchedulerProofs`, `MCScheduler` | theorems and proofs; drafts for TLC |
| `SshSessions` | one logical SSH session, its supervisor and commands |
| `SshSessionsProofs`, `MCSshSessions` | theorems and proofs; commands for TLC |
| `ReceiverPool` | the receiver's threads, queue, monitor and replacement |
| `ReceiverPoolProofs` | theorems and proofs |
| `FrameAligner` | from the blocks of a frame to its chunks, as operators |
| `FrameAlignerProofs` | what comes through the aligner |
| `FountainSink` | streams, storing and announcing; extends `FrameAligner` |
| `Reception` | what a reception promises the user |
| `FountainSinkProofs` | theorems and proofs; extends `FrameAlignerProofs` |
| `MCFountainSink` | transfers and damages for TLC |

A definition whose comment begins with "Mutant" is a plausible bug in the
definition that follows it; no specification uses it.

### AgentTurn

`pc` is the await at which the engine task is suspended; a step is what the code
does from one await to the next.  `starter` is the progress of `start_turn`,
which runs beside the task it spawned.  The `ActiveTurn` entry is `registered`,
`handle`, `consumed`, `queue` (the channel), `cancelled`, `expected`.  A tool
use is numbered by the order in which it is admitted; `tool[n].id` is the
provider's identifier, equal to the number unless `ReuseIds`.  `stage`,
`status` and `dispatched` are what the events say of a use; `allowedBy` records
for which use and by whom its Allow was given.  The record of a queued response
carries the use being processed when `respond` accepted it (`at`) and the caller
(`by`): nothing reads them except `allowedBy`.

| code | actions |
|---|---|
| `start_turn_with_router` | `StartRefused`, `StartInsert`, `StartSpawn`, `StartAttach` |
| `respond`, `cancel`, `configure(None)` | `Respond`, `Cancel`, `RevokeWorkspace` |
| `run`, `run_loop` | `EmitTurnStarted`, `LoopCancelled`, `LoopRound`, `EmitMessageStarted`, `EmitFallback`, `RoundCancelled`, `RoundWithoutTools`, `RoundViolatesSynthesis`, `RoundAdmitsTools`, `EmitTerminal` |
| provider | `ProviderAnswers`, `ProviderLacksTools`, `ProviderFails`, `ProviderPanics` |
| `process_tool` | `ProposeRefused`, `ProposeBackend`, `ProposeAllowed`, `ProposeForApproval`, `EmitApprovalRequested`, `EmitExecutionRequested`, `EmitToolStarted`, `EmitFileStarted`, `FileReturns`, `BackendReturns`, `FinishAborting`, `FinishTool` |
| `RuntimeBridge` | `SkipMismatch`, `ApprovalAllowed`, `ApprovalDenied`, `ApprovalCancelled`, `ApprovalTimesOut`, `ExecResult`, `ExecUnknown` |
| sink errors, `CleanupGuard` | `SinkFailsInLoop`, `SinkFailsAtEdge`, `Cleanup` |

Abstracted: a command is "plain", "sensitive" or "invalid", and listed or not
in a whitelist (what the classifier, the validator and the task say of it);
`sensitive` for a file call means that it replaces a file.  Texts, deltas, usage,
sequence numbers and history contents do not influence control.  Rejected calls
of `respond` change nothing and are not steps.

### TurnContract

Uses open one at a time and in order, are handed over at most once and only
while open, and close with one result that fits whether they were handed over;
the terminal event comes last, with every use closed unless a delivery failed.
`ImplementsContract` is the refinement, with `phase` from `pc`, `use` from
`stage`, and `ran` from `dispatched`.

### QuerySessions

An action is one critical section of the code.  `conn[c]` goes from "new" through
"open" and the parts of `remove` ("sweeping", "awaiting") to "closed", or to
"dropped" if its caller went away.  `entry[s]` is the session map ("removed" is
taken out but not yet retired, "gone" is retired), `ticket[s]` the progress of
`open_query_session`, `child[s]` the forked driver.  `active` and `early` are the
registry.  `exec[e]`, `keyOf[e]` and `lock` follow an execution through `acquire`,
the operation lock, the driver call and the guard's drop; `stopped` holds those
whose token is cancelled.  `canceling` is the key with which a cancel call is
between the session map and the registry; it keeps the connection map locked,
which `ConnsFree` expresses.  The drivers are external: they fork, close, and
return from a call.  That a call returns because its token is cancelled is not
assumed: the default of `query_cancellable` looks at the token only before it starts.

### Scheduler

Time is counted in half seconds (`Second = 2`).  The clock is the minute in a short
cycle and the offset in it; `last_fired` is the age of the last firing,
saturating at `MaxAge`, and a once task's time is what is left of it, so that
behaviours of any length stay finite.  The wall clock only moves forward.  A cron
expression is the set of minutes it matches.  One tick is `Wake` (sleep, `now`, the
snapshot), then `Skip` or `Fire` for each task of the snapshot, then `Sleep`;
edits, the dispatches (`Shell...`, `Prompt...`, `Release`), reports and the ends of
turns come between any two of these.  A dispatch at "waiting" is in `sessions.get`
(dispatcher.rs:195, 228) or runs its script, neither of which has a limit.  `Restart` keeps only the store.
`sinceSave`, `inMinute` and `held` are history variables.

### SshSessions

One logical session.  The physical connections are numbered as they are made;
`handle` is the one the Session holds, `made` the one the supervisor has just
dialled.  `sup`, `disc` and `op` are program counters: a step is what a task does
between two points at which another may come between, and `lock` is the Session's
mutex where it is held across an await (opening a channel, for a terminal, a sample or
a transfer, and asking for a forward); elsewhere taking it is the guard `lock = NoOne`.  An aborted supervisor
ends at an await (`SupDropped`), not before.  `Heads` distinguishes the desktop,
which supervises, from the web head (server.rs), which does not.  `Mixes` bounds
which commands come together, `MaxConns` the connections; `Lose` needs one left to
make after it.

| code | actions |
|---|---|
| `ssh_connect`, `ssh_disconnect`, `remove` | `Connect`, `Disconnect`, `DiscEntry`, `DiscTable`, `DiscClose` |
| `supervise_reconnect` | `SupSleep`, `SupProbe`, `SupClosed`, `SupTop`, `SupConnects`, `SupFails`, `SupRetries`, `SupMade`, `SupInstall`, `SupMark`, `SupDropped` |
| `get_cancellable` | `GetTable`, `GetEntry`, `GetPhase`, `GetProbe`, `GetProbed`, `GetAgain` |
| terminals | `TermOpen`, `TermOpened`, `TermListed`, `TermEnds`, `TermExits`, `TermRemoved`, `TermClose` |
| monitor | `MonitorSpawns`, `MonitorListed`, `SampleOpens`, `SampleOpened`, `MonitorStop` |
| transfers | `TransferOpen`, `TransferOpened`, `TransferDone`, `TransferStops`, `TransferLoses`, `TransferFails`, `TransferLost`, `TransferJudged`, `TransferRetries`, `Cancel` |
| remote forwards | `ForwardAsks`, `ForwardAnswered`, `ForwardClose` |

An attempt of a transfer goes by SFTP first, and by exec (`fallback`) when that cannot
be opened.  It may meet an error at any time, also on a connection that is there: one
that looks like the transport's (`TransferLoses`, for instance a request unanswered for
five minutes) is always retried, any other (`TransferFails`) only if
`is_reconnecting_or_closed`.  By exec the loss of the connection may pass for the end
(`TransferDone`), and the wait for the remote command ends only with the channel.

### ReceiverPool

`camera`, `stopper` and `pc` are where the camera thread, the thread that stops the
receiver and the decoder threads are.  `monitor` is modelled as written: a
`notify_one` that finds nobody waiting is lost, `signal_all` sets a flag that the
first thread to come takes, and a wait may end by itself (`Spurious`).  Each time
the camera is switched on a new thread submits (OpencvCameraView.java:398) while the
receiver stays (`RestartCamera`); the queue keeps the frames of each thread apart and has
an order only among those of one (concurrentqueue.h:1125-1156), so nothing is said of the
order in which frames are taken.  A look that misses the frames of one producer, because
it has none or because another thread has not given back its claim, is `LookEmpty`;
`NothingLeft` follows when every producer has been looked at.  `stop` sets
`_running`, signals and joins in three steps.  A reset comes from the UI thread
after it has stopped the camera (MainActivity.java:294-300), so the camera is idle
then; a replacement comes from the camera thread itself.  `start` returns whether
or not its threads have run, so its ten seconds are left out.  The tracked region
only tells a scan where to look and appears as the number of its frame.

### FrameAligner and FountainSink

`FrameAligner` is `aligned_stream` as operators on a record of its fields, fed with
the blocks of a frame by `Align`, a recursive function.  In every mode a chunk is a whole number of
Reed-Solomon blocks, so lengths are counted in blocks.  `FountainSink` takes its
output: `pending` are the chunks of a thread's frame still to be written, `store` is
what the holder of the write lock is storing.  Storing has several steps because
the UI, which takes only the status lock, sees the state between them.  `whole`
of a chunk says that its bytes are the frame's chunk (data the code does not have;
the invariant needs it).  A stream may be solved with as many blocks as its file
has or with any number more.  `Reset` and `Crash` share `Restart`: only the published
files survive; the temporary ones are hidden (".incoming-") and are left behind
by a crash.

`Reception` is what the user sees of all that: a transfer is settled once in a
reception, as a new file under the first free name or as an error; the user is told
of each file once, in the order they came; the counts agree; only the user deletes.
`ImplementsReception` is the refinement.  A transfer is settled at `Publish` (or
where the store fails), two steps before `done` has it; the event and the count that
`Report` adds are anticipated by `Untold`, `Saved` and `Failed`.  `MarkDone` and
everything about frames, chunks and streams are stuttering steps.

## 4. Runs

| run | instance | states | shows |
|---|---|---|---|
| agent_turn | ask mode, 2 rounds + synthesis, up to 2 calls a round, 3 in all, 2 actors | 900 thousand | consent, honest and final results, budget |
| agent_routing | all modes, policies, routers and kinds of tool; 1 call; sink may fail; workspace revoked; fair | 290 thousand | pairing, manual mode, no leftover entry, contract, cancelled turns end, turns end, each as far as backend tools answer |
| query_sessions | 1 connection, 1 session, 2 executions, 2 ids | 340 thousand | exact guards and locks, no orphan, cancellations kept |
| query_live | 2 sessions, quota 1 per connection, 1 execution, fair | 170 thousand | no session after the sweep, limits, disconnect quiesces, leases reclaimed |
| scheduler | 1 shell task of any trigger (one interval too long for a Duration), restarts, a panicking loop | 3.8 million | exact guard, at most two firings a minute, spacing |
| scheduler_live | one id, saved as a cron prompt, a once shell or an interval shell task, fair | 450 thousand | runs recorded, guards released, tasks recur, once tasks fire |
| ssh_sessions | 2 terminals and a close, or 2 monitors and a forward; 2 disconnects; 2 connections | 3.2 million | the session invariant |
| ssh_live | a transfer and a terminal, both heads, 1 disconnect, fair | 180 thousand | supervisor and waiters end, cancelled and disconnected transfers end, connections close |
| receiver_pool | 2 threads, 2 cameras, 3 frames, 2 receivers, fair | 490 thousand | bounds, frames once, outline, draining, stop |
| fountain_sink | 2 threads, 2 transfers of one slot, 2 frames of 2 chunks of 2 blocks, 2 names, 2 receptions | 1.1 million | chunks, streams, files, goodput, the promise to the user |
| frame_chunk_lost, receiver_stall | small | | the findings of section 7 |

Why the bounds suffice.  *AgentTurn*: a late or misdirected response needs two
calls in flight one after the other; a denial, the cap and the synthesis need two
rounds; `MaxUses = 3` gives both.  The channel holds at most one response per
key.  A second owner is enough for "not the owner".  *QuerySessions*: two
executions are enough for one to wait for the lock the other holds or to reuse
its id, two ids for a pending cancellation beside a running execution, one pending
cancellation for the limit to bite, two sessions for the quota; `Lease = 2` lets
a session be touched between two ticks, and 1 is enough where only expiry
matters.  In query_live the limits that bite are `MaxPerConn` and `MaxEarly`; with one
connection whose quota is 1, `MaxTotal` cannot be reached, and with one execution
neither can a second active one be refused: there `QuotasHold` is what speaks for the
limits.  Connections interact in nothing else.  Sessions and executions are
interchangeable, which the safety run uses as symmetry.  *Scheduler*: a minute of
eight units with ticks of two or three lets a task fire at its start and its end
and skip a minute; two minutes give one that matches and one that does not; tasks share
nothing but the loop, so one id is enough.  *SshSessions*: two
connections give one loss and one replacement at every point; two disconnects
race in each of their steps; the mixes hold the commands that touch the same
state.  *ReceiverPool*: two threads are the fewest for a flag or a notification to
be taken by the wrong one or for a look to miss a frame, two cameras for a frame of a
switched-off one to be overtaken, and three frames reach the limit in flight; the
refusal of a fourth is left to `PoolInvHolds`.  *FountainSink*: a slot is contested by
two transfers, one of two blocks and one of four, so that a stream spans frames and the smaller one may need a block
more than it has; the damages are no block, the
first or the last of a chunk, and a whole chunk; two names make the second file
wait for a deletion, a third finds none.

`CHECK_DEADLOCK FALSE` where the system may come to rest: a closed connection, a
disconnected session, a receiver nobody shows anything to, or a bounded instance
whose ids, frames or receptions are used up.  In `AgentTurn` the end of a turn is a
stuttering step (`Over`), so deadlock is checked.

Fairness.

* `AgentTurn`: weak fairness of `Starting`, `Rounds`, `Tools` and of the terminal
  event with the cleanup: tokio polls a ready task, timers fire, and blocking file
  operations return.  Within `Tools` the waits for the client always have the timeout as
  a way out, which bridge.rs guarantees with its `sleep` branch.  The wait for the backend
  router (engine.rs:589) looks at neither the token nor a timer, and an MCP client has no
  timeout, so nothing is assumed of it: `CancelEnds` excepts a turn it holds for ever, and
  `TurnEnds` assumes that it and the provider answer.  No delivery has to fail, and
  nothing is assumed of the client.
* `QuerySessions`: weak fairness of each task's own step, of the open's timer and of the
  reaper.  No driver call has to return, cancelled or not: ClickHouse's, for one, can
  neither be cancelled nor time out.  `DisconnectQuiesces` says that everything else
  comes to rest, and that with drivers that heed their tokens (`DriversHeed`) every
  execution ends; a waiter leaves when its own token fires (`StopWaiting`).
* `Scheduler`: weak fairness of the loop's step and of each dispatch where it does not
  wait for its target (`AwaitsTarget`); nobody has to edit, report or restart.
  `GuardReleased` and `Recurs` except a dispatch whose target never answers.
* `SshSessions`: weak fairness of the supervisor, of each disconnect call and each
  command, and of closing a dropped handle.  A server answers the opening of a channel, or
  the keepalive finds the connection dead (conn.rs:321-326), so a mutex held across one is
  given back; since tokio's mutex is given in turn, the look at the connection in
  `get_cancellable` is strongly fair.  Excepted is a transfer by exec on an open channel
  (`Stuck`), which `TransfersEnd` excepts too.  That the server answers when dialled often
  enough (`ServerAnswers`) is a hypothesis of `GetsReturn` only.
* `ReceiverPool`: weak fairness of the camera's `add` once begun, of `stop`, and of each
  decoder thread: the operating system runs ready threads and the work on a frame
  is a bounded computation.  Wake-ups without a reason may happen and need not.

## 5. Proofs

Every invariant and every action property of the runs of section 4 is a theorem
here, as are both refinements.  The theorems are about all values of
the constants; the inductive invariant of each component (`IndInv`, `QueryInv` with
`Quotas`, `SchedulerInv`, `SshInv`, `PoolInv`, `SinkInv`) is also checked by TLC in a
run of section 4, where every property has a mutant of the code that breaks it.

### The agent

`AgentTurnProofs` proves, for every value of the constants that satisfies
`AgentTurnAssumption` (a non-zero round cap, an owner among the owners, and sets
of the right shape):

* `TypeCorrect` and `Invariance`: `Spec => []TypeOK`, `Spec => []IndInv`;
* `HonestResultHolds`, `PairedHolds`, `AcceptedOnceHolds`, `RoundBudgetHolds`,
  `ManualRunsNothingHolds`, `NoLeftoverEntryHolds`, and the action property
  `FinalSynthesisHolds`;
* `ConsentHolds`, under `~ReuseIds`.  The assumption is needed: with
  `AgentTurnReuse.cfg` TLC finds `Consent` violated without it.

None of the properties is inductive by itself.  `IndInv` (AgentTurnInv) adds what
the engine's position implies: `Position` (all admitted uses before the current
one are done), `Lifetime`, `Identity` (ids are the numbers, without reuse), `Mail`
(a queued response was accepted from the owner, at a use not earlier than the
one it names), `Dispatch` and `Progress` (what has happened to the current use at each
`pc`), `Results` (which results fit a use), `Cleared` (a use about to be dispatched
was allowed), `Synthesis`, `ManualCalls` and `TerminalLast` (the terminal event is
the engine's last word).  `ManualCalls` says why manual mode runs nothing of the
provider's own: every round is asked without tools, so only the fence of the
legacy fallback can be admitted; its call is of the terminal, nobody is asked about
it, and it is handed over only when the task's whitelist has it.  The heart of `Consent` is `Mail` with `Identity`: a
response accepted while use `m` was processed names a use no later than `m`;
when the wait for use `n` takes a matching one, its id is `n`, so `m >= n`, and
`m <= n` since uses advance; hence the decision was given for that very use,
although the expectation of an earlier use may have stayed published.

The proof has one lemma per action and invariant part that the action can
disturb.

`TurnContractProofs` proves `ResultsAreFinalHolds` and `ContractHolds`
(`Spec => ImplementsContract`).  `StepKinds` sorts every step of the engine, the
client and `start_turn` into eight kinds by what they do to the uses: nothing
that is shown, the turn begins, a use is proposed, asked about, handed over or
finished, a delivery fails, the terminal event.  A kind at a time the step is then a
step of the contract or leaves its variables alone.  `NoneOpenBetween` supplies the
guards of the contract: between uses no use is open, which is `Progress` of the
invariant.

### Databases

`QuerySessionsProofs` proves, from `QuerySessionsAssumption` (finite sets of
sessions and keys, natural limits, a lease of at least one tick), every safety
property the runs check: `QueryInvariance` (`Spec => []QueryInv`),
`GuardsExactHolds`, `NoOrphanHolds`, `LockExactHolds`,
`NoSessionAfterSweepHolds`, `QuotasHold` and the action property
`CancelKeptHolds`.

`QueryInv` joins the properties with what they rest on.  `Held` (an execution
in flight has a key) makes a guard's drop well defined.  `GuardsExact` makes
cancellation by scope complete: `remove` and `retire` walk the registry, so an
execution in flight that were not listed would be missed.  `Tickets` and `Opened`
exclude the one other way in which a session's entry goes: a failing open gives
its slot back without cancelling anything, which is right only because no
execution can have been acquired before the ticket was used up.  `NoOrphan` then
follows: `acquire` finds only what is there (`Reachable`), `LossCancels` shows
that what disappears cancels its executions in the same step, and `StoppedKept`
that only an execution's own guard takes its cancellation away.  `Pending` says
that a cancellation waits only for an execution that has not arrived; with
`GuardsExact` it gives `CancelKept`.  `Quotas` is inductive beside `QueryInv`: one
lemma per limited set shows which single action adds to it.

### Automation

`SchedulerProofs` proves `SchedulerInvariant`, `FiresAtMostTwice` and the action
property `FiringsSpaced`, from `SchedulerAssumption` and intervals below 2^63
(`Representable`: with a longer one the loop panics, section 8).  Without that
hypothesis it proves `GuardIsExact` (the overlap guard and the dispatches in flight
agree) and `EveryRunRecordedHolds`; the latter is not inductive, and `RunTraced`
adds where a firing that has no entry yet is: a dispatch that has still to write it
or a turn that will.
`AtMostTwice` is not inductive: `MinuteSpacing` relates the number of firings in
the current minute to the age of the last one and the offset, and since a minute
is at most two windows a third firing does not fit.

### SSH

`SshSessionsProofs` proves `SessionInvariant` (`Spec => []SshInv`) for any commands,
disconnecting calls and number of connections, and from it `NeverTwoConnections`,
`ListedTerminalsServed` and `SamplersWithinReach`.  `SshInv` joins what the
supervisor knows at each of its steps (`ConnectionsAreNumbered`: the connection it
replaces is closed from the moment it dials; `PhaseIsTrue`: as long as the entry is
there the phase is what the supervisor last stored) with the two statements about
terminals and samplers.

### The receiver

`ReceiverPoolProofs` proves `PoolInvHolds` (`Spec => []PoolInv`) and
`GeometryKeptHolds` for any number of decoder threads, frames and replacements.
What the properties rest on are three conjuncts of `PoolInv`.  `WorkHeld`: a thread
holds a frame exactly at the steps that work on one, and the frame the camera is
copying is newer than all there are; with it the count of frames in flight and
`FramesOnce` (no frame is given out twice, however many cameras have put frames into
the queue) are inductive.  `RunningExact`: `_running` is the number of
threads that have started, and after a stop the threads still to start cannot
bring it above -1, which gives `StaysStopped`.  `StopInOrder`: once a stop has
signalled, its flag is up, or a thread that took it is awake or gone; this names the
thread behind which `SleepsBehindAnother` lets another one sleep.

`FrameAlignerProofs` proves `DeliveredWhole`: for every length of chunk and frame and
every set of damaged blocks, what `aligned_stream` passes on are whole chunks of the
frame, each with its own blocks in order and none of them damaged.  The aligner is a
recursive function of the number of blocks that have gone by.  The library's
induction schemes take an operator, which no prover here instantiates, so the
induction is over a set: `AllNumbers` derives from the well-foundedness of < that a
set with 0 and every successor is `Nat`.  `RunExists` shows by it that the recursion
has a solution, `AlignedStep` that one more block keeps `Aligned`: the buffer holds
the blocks of the chunk the offset is in, or the chunk is marked.

`FountainSinkProofs` proves `SinkInvHolds`, `SavedOnceHolds`, `GoodputExactHolds` and
the refinement `ReceptionHolds` for any threads, transfers, names and receptions,
and without any hypothesis `FilesKeptHolds` (a published file is never replaced) and
`WholeChunksHold` (`DeliveredWhole` carried to the sink).  The first four assume `ToldApart`: no two transfers have both the slot and the size of
each other.  The code looks at nothing else (fountain_decoder_sink.h:147-154), so
without it two transfers mix in one stream and the second is taken for done.  Two
transfers of one slot and different sizes satisfy it, which is what the instance of
fountain_sink has: one stream refuses the other's chunks.

`IndInv` is `SinkInv` with `SavedOnce` and `GoodputExact`, and three conjuncts of
`SinkInv` are there for the induction.  `StoreHeld`: while a transfer is stored its
stream is kept, has only its blocks, and the transfer is not done.  `FilesOfDone`: a
file of this reception is of a transfer that is done, or being stored under that
name; since what is being published is not done, `Publish` makes no second file
(`SavedOnce`).  `CountedKept`: a counted block is in its transfer's stream unless
the transfer is done; so a block its stream does not know was never counted
(`GoodputExact`), because chunks of a transfer that is done are ignored.  The
refinement has one lemma per step that settles or tells (`FailureSettles`,
`PublishSaves`, `PollTells`) and one per kind of step that the user does not see.

### Not proved

Liveness under fairness is outside the prover's reach and stays with TLC:
`CancelEnds`, `TurnEnds`, `DisconnectQuiesces`, `LeaseReclaimed`, `GuardReleased`,
`Recurs`, `OnceFires`, `SupervisorEnds`, `WaitersFreed`, `GetsReturn`, `TransfersEnd`,
`ConnectionsClose`, `DrainGoesOn` and `StopEnds`.  The totals of the status
(`TotalBlocks`, `ReceivedBlocks`), sums over the streams, are part of no property.

## 6. Not modelled

Contents of messages and results; several turns at once (they share only the
registry's mutex); the classifier's regular expressions and the fence parser;
file versions and paths; driver protocols and transaction states; which of
TimedOut and Cancelled a caller is told; a second connection to the same
database; the moment between `query_session_status`'s test and the driver's answer
(the driver serialises the two).  `stop` of the reaper and process exit are left
out: nothing is persisted by these components.

*SSH*: authentication, host keys and the jump host; local and dynamic forwards; the
segments of one transfer; the bytes of a channel.  *Scheduler*: the cron parser, a
wall clock that is set back.  *Receiver*: what a scanner sees in a picture, the
Reed-Solomon and wirehair arithmetic, compressed contents and file names, the
fallback rename of old kernels.  Two transfers of one number and one size are the
same to the code (their streams mix, and the second is taken for done); numbers
repeat after 128 files; the instance keeps clear of both.  A transfer that was
broken off keeps its slot until a reset, which the instance shows and no property
forbids.

Most of the C and C++ in the repository is vendored (zstd, wirehair, stb, fmt, the
queue) or image arithmetic without control of its own.  The map therefore covers a
small share of the lines of that tree, although the receiver's own concurrency and
its decoding pipeline from blocks to files are modelled; the Rust backend, where
the program's own logic is, is mapped in the other modules.

## 7. Findings

Two places where the code does not do what a test of it says; each has a run.

1. *A good chunk is dropped* (frame_chunk_lost, `GoodChunksDelivered`): when the bad
   block is the last of its chunk, `mark_bad_chunk` wraps the offset to 0 and leaves
   the mark, so the next chunk, all of whose blocks are good, is dropped
   (aligned_stream.h:66-73, 97-104).  It costs throughput, never correctness:
   `OnlyWholeChunks` holds.
2. *A queued frame nobody scans* (receiver_stall, `FrameScanned`): `notify_one` without
   a flag, sent between a thread's last look at the queue and its wait, is lost.
   The camera's next frame makes up for it, unless the limit of frames in flight has
   been reached by then: such frames count, and a refused frame notifies nobody.

## 8. Statements the code does not keep

Comments, assertions and tests of the repository that TLC refutes on a small
instance.  The formulas stand at the end of their modules; the configurations in
the last column are kept for a reader and are not among the runs of
`PROJECT.json`.

| statement | where it is said | what happens | config |
|---|---|---|---|
| `CancelStopsDispatch` | engine.rs:729, runtime.rs:239 | a turn cancelled after the policy decision or the approval (engine.rs:834) still hands the call to the client, and reports it OutcomeUnknown | AgentTurnCancel |
| `OneTerminalEvent` | engine.rs:139 (assertion) | a sink that refuses the first or the terminal event leaves the turn without one, although nothing panicked | AgentTurnSink |
| `ReceivedMatches` | bridge.rs:122 | the expectation is not reset after an approval timeout, so a late decision is accepted and reaches the next wait, which skips it | AgentTurnLate |
| `LegacyOnlySynthetic` | engine.rs:483 | `tools_disabled` is computed (engine.rs:322) before the fallback sets `legacy_mode` (engine.rs:388): native calls of the retried answer are processed | AgentTurnLegacy |
| `Consent`, with repeated ids | CONTEXT.md:22 | responses are keyed by the provider's id (runtime.rs:263): a late Allow of one call lets another with its id run | AgentTurnReuse |
| `CronOncePerMinute` | scheduler.rs:99 | the window is 59 seconds after the last firing, not the minute: with drifting ticks a task fires at the start and at the end | SchedulerCronTwice |
| `NoMinuteSkipped` | scheduler.rs:77 | after a firing late in a minute no tick may be left in the next one | SchedulerCronSkipped |
| `OnceOnly` | scheduler.rs:79 | `last_fired` is in memory: after a restart a once task fires again | SchedulerOnceAgain |
| `DueOnceFires` | scheduler.rs:79 | a once task saved again under an id that fired never fires | SchedulerOnceEdited |
| `NoOverlap` | scheduler.rs:1 | `run_prompt` returns when the turn has started (dispatcher.rs:316), so the guard is released while it runs | SchedulerOverlap |
| `ReportKept` | dispatcher.rs:223 | `run_shell` notifies first and records Running afterwards: a fast report is overwritten | SchedulerReport |
| `LoopAlive` | scheduler.rs:5 | an interval too long for a Duration (scheduler.rs:91) panics the tick loop | SchedulerPanic |
| `TerminalsEnd` | conn.rs:677 | on the desktop a connection installed after the disconnection is not closed, since the terminal's owner holds the Session (term.rs:183); its sender is in the Session too | SshTerminalStays |
| `SeenOpen` | manager.rs:148 | between the removal of the entry and of the session a command is handed the session unseen (manager.rs:168-171, 229-233) | |
| `NoneInstalledAfter` | conn.rs:655 | the supervisor tests the stop before it waits for the session's mutex (conn.rs:553-561) | |
| `NoSamplerAfter` | conn.rs:687 | a sampler spawned before and registered after the disconnection goes on (monitor.rs:429) | |
| `ForwardsListen` | conn.rs:540 | the routes are kept over a reconnection and the server is not asked to listen again | |
| `ForwardsRouted` | tunnel.rs:292 | a second forward of a port overwrites the route of the first, and its rollback removes it (tunnel.rs:327) | |
| `CompleteOnConnection` | sftp.rs:466 | by exec the end of the channel counts as the end of the data, and a missing exit status as success (sftp.rs:904): an attempt whose connection was lost may complete | SshTruncated |
| `StopAlwaysEnds` | MainActivity.java:296 | two threads between the test of their loop and their wait when the stop signals: one takes the flag, the other sleeps for ever and is joined for ever | |

A transfer that nobody cancels is retried without a limit as long as its errors look like
the transport's, also on a connection that is there, and on the web head also on one
that is lost, which nobody replaces (`Unsupervised`).  `TransfersEnd` is about transfers
that are cancelled or whose session is disconnected.
