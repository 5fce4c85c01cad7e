------------------------------ MODULE AgentTurn ------------------------------
(***************************************************************************)
(* One Turn of the Catio agent: the registry entry AgentRuntime keeps for  *)
(* it, the TurnEngine task that drives provider rounds and tool calls, the *)
(* RuntimeBridge on which that task waits for the client, and the calls a  *)
(* client makes while the task runs (respond, cancel, revoking the local   *)
(* workspace).  The engine suspends at every event it emits and at every   *)
(* wait; `pc' names the place where it is suspended, so a client's call    *)
(* falls between any two of them.                                          *)
(*                                                                         *)
(* A tool use is numbered by the order in which the provider requested it  *)
(* (Uses); the identifier the provider gave it is a field of the tool use. *)
(* Texts, deltas, token usage, message history and event sequence numbers  *)
(* are left out: no control flow of the turn reads them.                   *)
(***************************************************************************)
EXTENDS Naturals, Sequences, FiniteSets

CONSTANTS
    Owners,          \* the actors a transport may inject
    Owner,           \* the actor that started this turn
    Requests,        \* the start requests explored, see Request
    Snapshots,       \* the workspace snapshots a turn may start with
    Shapes,          \* the tool calls the provider may request, see Shape
    ClientStatuses,  \* the execution statuses the client's ToolHost reports
    RoundCap,        \* request.round_cap, at least 1 by validation
    MaxTools,        \* bound: tool calls in one provider round
    MaxUses,         \* bound: tool calls in the whole turn
    SinkMayFail,     \* whether delivering an event may fail
    ReuseIds         \* whether the provider may repeat a tool-use id

Modes       == {"manual", "ask", "auto"}
Policies    == {"none", "auto", "rejectSensitive", "whitelist"}
Names       == {"terminal", "file", "backend", "unknown"}
Inputs      == {"invalid", "plain", "sensitive"}
Statuses    == {"succeeded", "failed", "blocked", "cancelled",
                "outcomeUnknown", "unsupported", "denied"}
Uses        == 1 .. MaxUses
Request     == [mode: Modes, unattended: Policies, router: BOOLEAN]
Shape       == [name: Names, input: Inputs, listed: BOOLEAN]

ASSUME AgentTurnAssumption ==
    /\ Owner \in Owners
    /\ Requests \subseteq Request
    /\ Snapshots \subseteq {"none", "active"}
    /\ Shapes \subseteq Shape
    /\ ClientStatuses \subseteq Statuses \ {"denied"}
    /\ RoundCap \in Nat \ {0}
    /\ MaxTools \in Nat
    /\ MaxUses \in Nat
    /\ SinkMayFail \in BOOLEAN
    /\ ReuseIds \in BOOLEAN

VARIABLES
    \* AgentRuntime
    request,         \* the validated start request and the turn's router
    starter,         \* progress of start_turn
    registered,      \* the turn has an ActiveTurn entry
    handle,          \* the entry holds the task's JoinHandle
    consumed,        \* responses accepted so far: ActiveTurn.consumed
    queue,           \* the response channel between respond and the bridge
    cancelled,       \* the cancel token
    files,           \* the local workspace snapshot of the turn
    expected,        \* what respond may accept, published by the engine
    \* TurnEngine
    pc,              \* where the engine task is suspended
    usedRounds, finalSynthesis, legacyMode,
    toolsDisabled, allowedNames,      \* fixed at the start of a round
    answer,          \* what the provider returned for this round
    anyDenied,
    cur, last,       \* the use being processed, the last use admitted
    tool, stage, status,              \* per use: call, progress, result
    dispatched,      \* uses handed to an executor
    outcome,         \* how run_loop ended
    \* what an observer of the turn sees
    terminal,        \* the terminal event delivered, "none" before
    sinkFailed,      \* some delivery failed
    allowedBy        \* per use: the Allow decision that let it through

runtimeVars == <<request, starter, registered, handle>>
clientVars  == <<consumed, queue, cancelled, files>>
outsideVars == <<runtimeVars, clientVars, expected>>
roundVars   == <<usedRounds, finalSynthesis, legacyMode, toolsDisabled, allowedNames>>
loopVars    == <<roundVars, answer, anyDenied>>
useVars     == <<cur, last, tool>>
toolVars    == <<useVars, stage, status, dispatched, allowedBy>>
endVars     == <<outcome, terminal, sinkFailed>>
vars        == <<outsideVars, pc, loopVars, toolVars, endVars>>

-----------------------------------------------------------------------------
(* Responses and what the engine expects of them.                          *)

NoneExpected == [kind |-> "none", id |-> 0]
Approval(id) == [kind |-> "approval", id |-> id]
ToolResult(id) == [kind |-> "toolResult", id |-> id]

Responses == [kind: {"approval"}, id: Uses, val: {"allow", "deny"}]
        \cup [kind: {"toolResult"}, id: Uses, val: ClientStatuses]

\* The dedupe key of a response: its kind and the tool-use id.
ResponseKey(r) == <<r.kind, r.id>>

\* Mutant: the kind alone decides.
MatchesKindOnly(e, r) == e.kind = r.kind

\* ExpectedResponse::matches.
Matches(e, r) == e.kind = r.kind /\ e.id = r.id

-----------------------------------------------------------------------------
(* Tool policy.  For a file tool "sensitive" means that it replaces a file *)
(* and `listed' is FALSE; for a terminal tool they are what the command    *)
(* classifier and the task's whitelist say of the command.                 *)

\* Mutant: manual mode asks like ask mode.
AuthorizeManualAsks(mode, t) ==
    IF mode # "auto" /\ t.input = "sensitive" THEN "approval" ELSE "allowed"

Authorize(mode, t) ==
    CASE mode = "manual"                        -> "hidden"
      [] mode = "ask" /\ t.input = "sensitive"  -> "approval"
      [] OTHER                                  -> "allowed"

ApplyUnattended(decision, policy, t) ==
    CASE policy = "none"                              -> decision
      [] policy = "whitelist" /\ t.listed             -> "allowed"
      [] policy = "auto" /\ decision = "approval"     -> "allowed"
      [] policy # "auto" /\ decision = "approval"     -> "hidden"
      [] OTHER                                        -> decision

Decision(t) ==
    ApplyUnattended(Authorize(request.mode, t), request.unattended, t)

\* How process_tool treats a call: refused up front, run by the backend
\* router, or put before the policy.
Route(t) ==
    LET fileUsable == t.name = "file" /\ files = "active"
        inBackend  == t.name # "terminal" /\ ~fileUsable
    IN  CASE \/ inBackend /\ ~request.router
             \/ ~legacyMode /\ t.name \notin allowedNames -> "unsupported"
          [] inBackend                                    -> "backend"
          [] t.input = "invalid"                          -> "invalid"
          [] OTHER                                        -> Decision(t)

\* The result of a call that is refused up front.
RefusalStatus ==
    [r \in {"unsupported", "invalid", "hidden"} |->
        CASE r = "unsupported" -> "unsupported"
          [] r = "invalid"     -> "failed"
          [] r = "hidden"      -> "blocked"]

-----------------------------------------------------------------------------
NoTool   == [id |-> 0, name |-> "unknown", input |-> "plain", listed |-> FALSE]
NoAllow  == [at |-> 0, by |-> Owner]
NoAnswer == [kind |-> "none", calls |-> <<>>]

Init ==
    /\ request \in Requests
    /\ files \in Snapshots
    /\ starter = "idle" /\ registered = FALSE /\ handle = FALSE
    /\ consumed = {} /\ queue = <<>> /\ cancelled = FALSE
    /\ expected = NoneExpected
    /\ pc = "off"
    /\ usedRounds = 0 /\ finalSynthesis = FALSE /\ legacyMode = FALSE
    /\ toolsDisabled = FALSE /\ allowedNames = {}
    /\ answer = NoAnswer /\ anyDenied = FALSE
    /\ cur = 0 /\ last = 0
    /\ tool = [n \in Uses |-> NoTool]
    /\ stage = [n \in Uses |-> "none"]
    /\ status = [n \in Uses |-> "none"]
    /\ dispatched = {}
    /\ allowedBy = [n \in Uses |-> NoAllow]
    /\ outcome = "none" /\ terminal = "none" /\ sinkFailed = FALSE

-----------------------------------------------------------------------------
(* start_turn: validate and create the provider, insert the entry, spawn   *)
(* the task, attach its handle.                                            *)

StartRefused ==
    /\ starter = "idle"
    /\ starter' = "refused"
    /\ UNCHANGED <<request, registered, handle, clientVars, expected, pc, loopVars,
                   toolVars, endVars>>

StartInsert ==
    /\ starter = "idle"
    /\ starter' = "inserted"
    /\ registered' = TRUE
    /\ UNCHANGED <<request, handle, clientVars, expected, pc, loopVars, toolVars,
                   endVars>>

StartSpawn ==
    /\ starter = "inserted"
    /\ starter' = "spawned"
    /\ pc' = "turnStarted"
    /\ UNCHANGED <<request, registered, handle, clientVars, expected, loopVars,
                   toolVars, endVars>>

\* Mutant: the entry is written again together with the handle.
StartAttachReinserts ==
    /\ starter = "spawned"
    /\ starter' = "returned"
    /\ handle' = TRUE
    /\ registered' = TRUE
    /\ UNCHANGED <<request, clientVars, expected, pc, loopVars, toolVars, endVars>>

\* The task may have finished already: the handle is attached only to an
\* entry that still exists.
StartAttach ==
    /\ starter = "spawned"
    /\ starter' = "returned"
    /\ handle' = registered
    /\ UNCHANGED <<request, registered, clientVars, expected, pc, loopVars,
                   toolVars, endVars>>

-----------------------------------------------------------------------------
(* The client.                                                             *)

\* Mutant: a response that repeats an accepted key is accepted again.
RespondAgain(o, r) ==
    /\ registered
    /\ o = Owner
    /\ Matches(expected, r)
    /\ consumed' = consumed \cup {r}
    /\ queue' = Append(queue, [resp |-> r, at |-> cur, by |-> o])
    /\ UNCHANGED <<runtimeVars, cancelled, files, expected, pc, loopVars, toolVars,
                   endVars>>

\* respond, where it accepts the response.  An unknown turn, another owner,
\* a replay, a conflicting replay and an unexpected response all leave the
\* turn as it is.
Respond(o, r) ==
    /\ registered
    /\ o = Owner
    /\ \A c \in consumed : ResponseKey(c) # ResponseKey(r)
    /\ Matches(expected, r)
    /\ consumed' = consumed \cup {r}
    /\ queue' = Append(queue, [resp |-> r, at |-> cur, by |-> o])
    /\ UNCHANGED <<runtimeVars, cancelled, files, expected, pc, loopVars, toolVars,
                   endVars>>

Cancel(o) ==
    /\ registered
    /\ o = Owner
    /\ ~cancelled
    /\ cancelled' = TRUE
    /\ UNCHANGED <<runtimeVars, consumed, queue, files, expected, pc, loopVars,
                   toolVars, endVars>>

\* Clearing the configured workspace revokes every snapshot.
RevokeWorkspace ==
    /\ files = "active"
    /\ starter # "idle"
    /\ files' = "revoked"
    /\ UNCHANGED <<runtimeVars, consumed, queue, cancelled, expected, pc, loopVars,
                   toolVars, endVars>>

-----------------------------------------------------------------------------
(* The engine task: the rounds.                                            *)

EmitTurnStarted ==
    /\ pc = "turnStarted"
    /\ pc' = "loop"
    /\ UNCHANGED <<outsideVars, loopVars, toolVars, endVars>>

EndLoop(how) ==
    /\ outcome' = how
    /\ pc' = "terminal"
    /\ UNCHANGED <<terminal, sinkFailed>>

LoopCancelled ==
    /\ pc = "loop"
    /\ cancelled
    /\ EndLoop("cancelled")
    /\ UNCHANGED <<outsideVars, loopVars, toolVars>>

\* Mutant: one round more than the cap.
LoopRoundOffByOne ==
    /\ pc = "loop"
    /\ ~cancelled
    /\ finalSynthesis' = (finalSynthesis \/ usedRounds > RoundCap)
    /\ usedRounds' = usedRounds + 1
    /\ toolsDisabled' = (finalSynthesis' \/ legacyMode \/ request.mode = "manual")
    /\ allowedNames' = IF toolsDisabled' THEN {} ELSE {"terminal"}
    /\ pc' = "messageStarted"
    /\ UNCHANGED <<outsideVars, legacyMode, answer, anyDenied, toolVars, endVars>>

LoopRound ==
    /\ pc = "loop"
    /\ ~cancelled
    /\ finalSynthesis' = (finalSynthesis \/ usedRounds >= RoundCap)
    /\ usedRounds' = usedRounds + 1
    /\ toolsDisabled' = (finalSynthesis' \/ legacyMode \/ request.mode = "manual")
    /\ allowedNames' =
         IF toolsDisabled' THEN {}
         ELSE {n \in Names : \/ n = "terminal"
                             \/ n = "file" /\ files = "active"
                             \/ n = "backend" /\ request.router}
    /\ pc' = "messageStarted"
    /\ UNCHANGED <<outsideVars, legacyMode, answer, anyDenied, toolVars, endVars>>

EmitMessageStarted ==
    /\ pc = "messageStarted"
    /\ pc' = "provider"
    /\ UNCHANGED <<outsideVars, loopVars, toolVars, endVars>>

\* What a provider may return: plain text, text with a valid fenced shell
\* command, or native tool calls.
Answers ==
         {[kind |-> "text", calls |-> <<>>]}
    \cup {[kind |-> "fence", calls |-> <<s>>] :
             s \in {s \in Shapes : s.name = "terminal" /\ s.input # "invalid"}}
    \cup {[kind |-> "tools", calls |-> c] :
             c \in UNION {[1 .. k -> Shapes] : k \in 1 .. MaxTools}}

ProviderAnswers ==
    /\ pc \in {"provider", "retry"}
    /\ \E a \in Answers :
          /\ last + Len(a.calls) <= MaxUses
          /\ answer' = a
    /\ pc' = "messageFinished"
    /\ UNCHANGED <<outsideVars, roundVars, anyDenied, toolVars, endVars>>

\* ToolsUnsupported on the first attempt of an ordinary round.
ProviderLacksTools ==
    /\ pc = "provider"
    /\ ~finalSynthesis
    /\ ~legacyMode
    /\ pc' = "fallback"
    /\ UNCHANGED <<outsideVars, loopVars, toolVars, endVars>>

EmitFallback ==
    /\ pc = "fallback"
    /\ legacyMode' = TRUE
    /\ pc' = "retry"
    /\ UNCHANGED <<outsideVars, usedRounds, finalSynthesis, toolsDisabled,
                   allowedNames, answer, anyDenied, toolVars, endVars>>

\* Any other provider error, and any error of the retry, fails the turn.
ProviderFails ==
    /\ pc \in {"provider", "retry"}
    /\ EndLoop("failed")
    /\ UNCHANGED <<outsideVars, loopVars, toolVars>>

\* A panic unwinds the task: no terminal event, but the guard still drops.
ProviderPanics ==
    /\ pc \in {"provider", "retry"}
    /\ outcome' = "panicked"
    /\ pc' = "cleanup"
    /\ UNCHANGED <<outsideVars, loopVars, toolVars, terminal, sinkFailed>>

\* Mutant: the retry of the fallback does not watch the token.
RoundCancelledOnce ==
    /\ pc = "provider"
    /\ cancelled
    /\ EndLoop("cancelled")
    /\ UNCHANGED <<outsideVars, loopVars, toolVars>>

RoundCancelled ==
    /\ pc \in {"provider", "retry"}
    /\ cancelled
    /\ EndLoop("cancelled")
    /\ UNCHANGED <<outsideVars, loopVars, toolVars>>

\* After a complete round: the legacy fence counts as a tool call only in
\* legacy mode, and tool calls are admitted, refused as a violation of a
\* tools-disabled round, or absent.
Synthetic == legacyMode /\ answer.kind = "fence"
ToolsRequested == answer.kind = "tools" \/ Synthetic

\* Mutant: the fence is exempt from the final synthesis too.
SynthesisViolatedByNative == ToolsRequested /\ toolsDisabled /\ ~Synthetic

SynthesisViolated ==
    ToolsRequested /\ (finalSynthesis \/ (toolsDisabled /\ ~Synthetic))

RoundWithoutTools ==
    /\ pc = "messageFinished"
    /\ ~ToolsRequested
    /\ EndLoop("ok")
    /\ UNCHANGED <<outsideVars, loopVars, toolVars>>

RoundViolatesSynthesis ==
    /\ pc = "messageFinished"
    /\ SynthesisViolated
    /\ EndLoop("failed")
    /\ UNCHANGED <<outsideVars, loopVars, toolVars>>

\* Tool-use ids: the provider's own, which this program does not choose.
IdChoices(k) ==
    IF ReuseIds /\ ~Synthetic THEN [1 .. k -> 1 .. (last + k)]
                              ELSE {[i \in 1 .. k |-> last + i]}

RoundAdmitsTools ==
    /\ pc = "messageFinished"
    /\ ToolsRequested
    /\ ~SynthesisViolated
    /\ LET k == Len(answer.calls) IN
       \E ids \in IdChoices(k) :
          /\ tool' = [n \in Uses |->
                IF n \in (last + 1) .. (last + k)
                THEN [id     |-> ids[n - last],
                      name   |-> answer.calls[n - last].name,
                      input  |-> answer.calls[n - last].input,
                      listed |-> answer.calls[n - last].listed]
                ELSE tool[n]]
          /\ cur' = last + 1
          /\ last' = last + k
    /\ anyDenied' = FALSE
    /\ answer' = NoAnswer
    /\ pc' = "tool"
    /\ UNCHANGED <<outsideVars, roundVars, stage, status, dispatched, allowedBy,
                   endVars>>

-----------------------------------------------------------------------------
(* The engine task: process_tool for the use `cur'.                        *)

\* ToolProposed, for a call that gets its result at once.
ProposeRefused ==
    /\ pc = "tool"
    /\ Route(tool[cur]) \in {"unsupported", "invalid", "hidden"}
    /\ stage' = [stage EXCEPT ![cur] = "proposed"]
    /\ status' = [status EXCEPT ![cur] = RefusalStatus[Route(tool[cur])]]
    /\ pc' = "finish"
    /\ UNCHANGED <<outsideVars, loopVars, useVars, dispatched, allowedBy, endVars>>

\* ToolProposed, then the call goes to the router, which runs it in this
\* process if it knows the name.
ProposeBackend ==
    /\ pc = "tool"
    /\ Route(tool[cur]) = "backend"
    /\ stage' = [stage EXCEPT ![cur] = "proposed"]
    /\ dispatched' = dispatched \cup {n \in {cur} : tool[n].name = "backend"}
    /\ pc' = "backend"
    /\ UNCHANGED <<outsideVars, loopVars, useVars, status, allowedBy, endVars>>

\* Mutant: a file call stopped before it ran is reported as unknown.
GoAheadUnsure ==
    IF tool[cur].name = "file"
    THEN /\ expected' = NoneExpected
         /\ IF cancelled
            THEN /\ status' = [status EXCEPT ![cur] = "outcomeUnknown"]
                 /\ pc' = "finish"
            ELSE /\ pc' = "startFile"
                 /\ UNCHANGED status
    ELSE /\ expected' = ToolResult(tool[cur].id)
         /\ pc' = "request"
         /\ UNCHANGED status

\* What follows once a call may run: a terminal call publishes the result
\* it waits for, a file call checks the cancel token first.
GoAhead ==
    IF tool[cur].name = "file"
    THEN /\ expected' = NoneExpected
         /\ IF cancelled
            THEN /\ status' = [status EXCEPT ![cur] = "cancelled"]
                 /\ pc' = "finish"
            ELSE /\ pc' = "startFile"
                 /\ UNCHANGED status
    ELSE /\ expected' = ToolResult(tool[cur].id)
         /\ pc' = "request"
         /\ UNCHANGED status

ProposeAllowed ==
    /\ pc = "tool"
    /\ Route(tool[cur]) = "allowed"
    /\ stage' = [stage EXCEPT ![cur] = "proposed"]
    /\ GoAhead
    /\ UNCHANGED <<runtimeVars, clientVars, loopVars, useVars, dispatched,
                   allowedBy, endVars>>

\* ToolProposed, then the expected decision is published.
ProposeForApproval ==
    /\ pc = "tool"
    /\ Route(tool[cur]) = "approval"
    /\ stage' = [stage EXCEPT ![cur] = "proposed"]
    /\ expected' = Approval(tool[cur].id)
    /\ pc' = "ask"
    /\ UNCHANGED <<runtimeVars, clientVars, loopVars, useVars, status, dispatched,
                   allowedBy, endVars>>

EmitApprovalRequested ==
    /\ pc = "ask"
    /\ stage' = [stage EXCEPT ![cur] = "asked"]
    /\ pc' = "approval"
    /\ UNCHANGED <<outsideVars, loopVars, useVars, status, dispatched, allowedBy,
                   endVars>>

\* recv_matching drops what is not the response the wait is for.
SkipMismatch ==
    /\ \/ pc = "approval" /\ queue # <<>>
          /\ ~Matches(Approval(tool[cur].id), Head(queue).resp)
       \/ pc = "exec" /\ queue # <<>>
          /\ ~Matches(ToolResult(tool[cur].id), Head(queue).resp)
    /\ queue' = Tail(queue)
    /\ UNCHANGED <<runtimeVars, consumed, cancelled, files, expected, pc, loopVars,
                   toolVars, endVars>>

\* request_approval: a decision arrives, the turn is cancelled, or the wait
\* times out.  Several may be ready at once; select! takes any of them.
ApprovalAllowed ==
    /\ pc = "approval"
    /\ queue # <<>>
    /\ Matches(Approval(tool[cur].id), Head(queue).resp)
    /\ Head(queue).resp.val = "allow"
    /\ queue' = Tail(queue)
    /\ allowedBy' = [allowedBy EXCEPT ![cur] =
                        [at |-> Head(queue).at, by |-> Head(queue).by]]
    /\ GoAhead
    /\ UNCHANGED <<runtimeVars, consumed, cancelled, files, loopVars, useVars,
                   stage, dispatched, endVars>>

ApprovalDenied ==
    /\ pc = "approval"
    /\ queue # <<>>
    /\ Matches(Approval(tool[cur].id), Head(queue).resp)
    /\ Head(queue).resp.val = "deny"
    /\ queue' = Tail(queue)
    /\ status' = [status EXCEPT ![cur] = "denied"]
    /\ pc' = "finish"
    /\ UNCHANGED <<runtimeVars, consumed, cancelled, files, expected, loopVars,
                   useVars, stage, dispatched, allowedBy, endVars>>

ApprovalCancelled ==
    /\ pc = "approval"
    /\ cancelled
    /\ status' = [status EXCEPT ![cur] = "cancelled"]
    /\ pc' = "finish"
    /\ UNCHANGED <<outsideVars, loopVars, useVars, stage, dispatched, allowedBy,
                   endVars>>

\* Mutant: the decision is awaited without a deadline.
ApprovalWaits ==
    /\ pc = "approval"
    /\ cancelled
    /\ status' = [status EXCEPT ![cur] = "blocked"]
    /\ pc' = "finish"
    /\ UNCHANGED <<outsideVars, loopVars, useVars, stage, dispatched, allowedBy,
                   endVars>>

\* The published expectation stays in place after a timeout.
ApprovalTimesOut ==
    /\ pc = "approval"
    /\ status' = [status EXCEPT ![cur] = "blocked"]
    /\ pc' = "finish"
    /\ UNCHANGED <<outsideVars, loopVars, useVars, stage, dispatched, allowedBy,
                   endVars>>

\* ToolExecutionRequested hands a terminal call to the client.
EmitExecutionRequested ==
    /\ pc = "request"
    /\ dispatched' = dispatched \cup {cur}
    /\ pc' = "start"
    /\ UNCHANGED <<outsideVars, loopVars, useVars, stage, status, allowedBy,
                   endVars>>

EmitToolStarted ==
    /\ pc = "start"
    /\ pc' = "exec"
    /\ UNCHANGED <<outsideVars, loopVars, toolVars, endVars>>

\* execute_tool: the client's result, or an unknown outcome on cancellation
\* and on timeout.
ExecResult ==
    /\ pc = "exec"
    /\ queue # <<>>
    /\ Matches(ToolResult(tool[cur].id), Head(queue).resp)
    /\ queue' = Tail(queue)
    /\ status' = [status EXCEPT ![cur] = Head(queue).resp.val]
    /\ pc' = "finish"
    /\ UNCHANGED <<runtimeVars, consumed, cancelled, files, expected, loopVars,
                   useVars, stage, dispatched, allowedBy, endVars>>

\* Mutant: cancelling a running call is reported as a clean cancellation.
ExecCancelledCleanly(why) ==
    /\ pc = "exec"
    /\ why = "cancelled" => cancelled
    /\ status' = [status EXCEPT ![cur] = IF why = "cancelled" THEN "cancelled"
                                         ELSE "outcomeUnknown"]
    /\ pc' = "finish"
    /\ UNCHANGED <<outsideVars, loopVars, useVars, stage, dispatched, allowedBy,
                   endVars>>

ExecUnknown(why) ==
    /\ pc = "exec"
    /\ why = "cancelled" => cancelled
    /\ status' = [status EXCEPT ![cur] = "outcomeUnknown"]
    /\ pc' = "finish"
    /\ UNCHANGED <<outsideVars, loopVars, useVars, stage, dispatched, allowedBy,
                   endVars>>

\* ToolStarted of a file call, then the blocking operation is spawned.
EmitFileStarted ==
    /\ pc = "startFile"
    /\ dispatched' = dispatched \cup {cur}
    /\ pc' = "fileExec"
    /\ UNCHANGED <<outsideVars, loopVars, useVars, stage, status, allowedBy,
                   endVars>>

\* FileSession::execute: a call whose id was executed before gets that result
\* back, or a conflict; otherwise a revoked grant blocks it, a cancelled token
\* may stop it before it commits, and it succeeds or fails.  Revocation waits
\* for a running operation, so the operation is one step; a lost blocking
\* task leaves the outcome unknown.
FileReturns(s) ==
    /\ pc = "fileExec"
    /\ LET earlier == {n \in dispatched \ {cur} :
                          tool[n].name = "file" /\ tool[n].id = tool[cur].id}
       IN  IF earlier # {}
           THEN s = "failed" \/ \E n \in earlier : s = status[n]
           ELSE /\ s \in (IF files = "revoked"
                          THEN {"blocked", "outcomeUnknown"}
                          ELSE {"succeeded", "failed", "cancelled", "outcomeUnknown"})
                /\ s = "cancelled" => cancelled
    /\ status' = [status EXCEPT ![cur] = s]
    /\ pc' = "finish"
    /\ UNCHANGED <<outsideVars, loopVars, useVars, stage, dispatched, allowedBy,
                   endVars>>

\* ToolRouter::dispatch: a result of its own, or none for a name it does
\* not know (a file tool whose workspace was revoked is such a name).
BackendReturns(s) ==
    /\ pc = "backend"
    /\ s \in {"succeeded", "failed", "unsupported"}
    /\ tool[cur].name # "backend" => s = "unsupported"
    /\ status' = [status EXCEPT ![cur] = s]
    /\ pc' = "finish"
    /\ UNCHANGED <<outsideVars, loopVars, useVars, stage, dispatched, allowedBy,
                   endVars>>

\* ToolFinished.  A call cancelled before its dispatch ends the turn; any
\* other result leads to the next call, and after the last one to the next
\* round, which is the final synthesis when a call was denied.
Aborts == status[cur] = "cancelled" /\ cur \notin dispatched

\* Mutant: the early return skips ToolFinished.
FinishAbortingSilently ==
    /\ pc = "finish"
    /\ Aborts
    /\ EndLoop("cancelled")
    /\ UNCHANGED <<outsideVars, loopVars, toolVars>>

FinishAborting ==
    /\ pc = "finish"
    /\ Aborts
    /\ stage' = [stage EXCEPT ![cur] = "finished"]
    /\ EndLoop("cancelled")
    /\ UNCHANGED <<outsideVars, loopVars, useVars, status, dispatched, allowedBy>>

\* Mutant: the loop over the calls does not advance.
FinishToolRepeats ==
    /\ pc = "finish"
    /\ ~Aborts
    /\ stage' = [stage EXCEPT ![cur] = "finished"]
    /\ anyDenied' = (anyDenied \/ status[cur] = "denied")
    /\ pc' = IF cur < last THEN "tool" ELSE "loop"
    /\ finalSynthesis' = (finalSynthesis \/ (cur = last /\ anyDenied'))
    /\ UNCHANGED <<outsideVars, usedRounds, legacyMode, toolsDisabled, allowedNames,
                   answer, useVars, status, dispatched, allowedBy, endVars>>

FinishTool ==
    /\ pc = "finish"
    /\ ~Aborts
    /\ stage' = [stage EXCEPT ![cur] = "finished"]
    /\ anyDenied' = (anyDenied \/ status[cur] = "denied")
    /\ IF cur < last
       THEN /\ cur' = cur + 1
            /\ pc' = "tool"
            /\ UNCHANGED finalSynthesis
       ELSE /\ finalSynthesis' = (finalSynthesis \/ anyDenied')
            /\ pc' = "loop"
            /\ UNCHANGED cur
    /\ UNCHANGED <<outsideVars, usedRounds, legacyMode, toolsDisabled, allowedNames,
                   answer, last, tool, status, dispatched, allowedBy, endVars>>

-----------------------------------------------------------------------------
(* The engine task: the end of the turn.                                   *)

EmitTerminal ==
    /\ pc = "terminal"
    /\ terminal' = outcome
    /\ pc' = "cleanup"
    /\ UNCHANGED <<outsideVars, loopVars, toolVars, outcome, sinkFailed>>

\* A delivery inside run_loop fails: the turn fails and still tries to say so.
Emitting == {"messageStarted", "provider", "fallback", "retry", "messageFinished",
             "tool", "ask", "request", "start", "startFile", "finish"}

SinkFailsInLoop ==
    /\ SinkMayFail
    /\ pc \in Emitting
    /\ sinkFailed' = TRUE
    /\ outcome' = "failed"
    /\ pc' = "terminal"
    /\ UNCHANGED <<outsideVars, loopVars, toolVars, terminal>>

\* The first or the terminal event cannot be delivered: run returns.
SinkFailsAtEdge ==
    /\ SinkMayFail
    /\ pc \in {"turnStarted", "terminal"}
    /\ sinkFailed' = TRUE
    /\ pc' = "cleanup"
    /\ UNCHANGED <<outsideVars, loopVars, toolVars, outcome, terminal>>

\* The task ends; CleanupGuard removes the entry, and the receiver goes.
Cleanup ==
    /\ pc = "cleanup"
    /\ registered' = FALSE
    /\ handle' = FALSE
    /\ pc' = "done"
    /\ UNCHANGED <<request, starter, clientVars, expected, loopVars, toolVars,
                   endVars>>

\* start_turn has returned and the task, if there was one, is gone.
Over ==
    /\ \/ starter = "refused"
       \/ starter = "returned" /\ pc = "done"
    /\ UNCHANGED vars

-----------------------------------------------------------------------------
Starting == StartRefused \/ StartInsert \/ StartSpawn \/ StartAttach

Client ==
    \/ \E o \in Owners : \/ \E r \in Responses : Respond(o, r)
                         \/ Cancel(o)
    \/ RevokeWorkspace

Provider ==
    \/ ProviderAnswers \/ ProviderLacksTools \/ ProviderFails \/ ProviderPanics

\* Everything the engine task does without waiting for the provider.
Rounds ==
    \/ EmitTurnStarted \/ LoopCancelled \/ LoopRound \/ EmitMessageStarted
    \/ EmitFallback \/ RoundCancelled
    \/ RoundWithoutTools \/ RoundViolatesSynthesis \/ RoundAdmitsTools

Tools ==
    \/ ProposeRefused \/ ProposeBackend \/ ProposeAllowed \/ ProposeForApproval
    \/ EmitApprovalRequested \/ SkipMismatch
    \/ ApprovalAllowed \/ ApprovalDenied \/ ApprovalCancelled \/ ApprovalTimesOut
    \/ EmitExecutionRequested \/ EmitToolStarted \/ ExecResult
    \/ \E why \in {"cancelled", "timeout"} : ExecUnknown(why)
    \/ EmitFileStarted
    \/ \E s \in Statuses : FileReturns(s) \/ BackendReturns(s)
    \/ FinishAborting \/ FinishTool

Ending == EmitTerminal \/ SinkFailsInLoop \/ SinkFailsAtEdge \/ Cleanup

Engine == Rounds \/ Tools \/ Ending

Next == Starting \/ Client \/ Provider \/ Engine \/ Over

Spec == Init /\ [][Next]_vars

-----------------------------------------------------------------------------
(* Fairness: the runtime keeps polling the tasks that are ready, timers     *)
(* fire, and the blocking file operations return.  Nothing is assumed of    *)
(* the provider, of the client or of the backend router, whose calls wait   *)
(* for servers without a limit, and no delivery has to fail.                *)

HeldByRouter == pc = "backend" /\ tool[cur].name = "backend"

StepFairness ==
    /\ WF_vars(Starting) /\ WF_vars(Rounds)
    /\ WF_vars(~HeldByRouter /\ Tools)
    /\ WF_vars(EmitTerminal \/ Cleanup)

\* The backend router answers what it was asked.
RouterAnswers == WF_vars(\E s \in Statuses : BackendReturns(s))

FairSpec == Spec /\ StepFairness

-----------------------------------------------------------------------------
(* Properties.                                                             *)

PCs == Emitting \cup {"off", "turnStarted", "loop", "approval", "exec",
                      "fileExec", "backend", "terminal", "cleanup", "done"}

\* Every variable keeps the shape of the data structure it stands for.
TypeOK ==
    /\ request \in Requests
    /\ starter \in {"idle", "refused", "inserted", "spawned", "returned"}
    /\ registered \in BOOLEAN /\ handle \in BOOLEAN
    /\ consumed \subseteq Responses
    /\ queue \in Seq([resp: Responses, at: 0 .. MaxUses, by: Owners])
    /\ cancelled \in BOOLEAN
    /\ files \in {"none", "active", "revoked"}
    /\ expected \in [kind: {"none", "approval", "toolResult"}, id: 0 .. MaxUses]
    /\ pc \in PCs
    /\ usedRounds \in Nat
    /\ finalSynthesis \in BOOLEAN /\ legacyMode \in BOOLEAN
    /\ toolsDisabled \in BOOLEAN
    /\ allowedNames \subseteq Names
    /\ answer \in [kind: {"none", "text", "fence", "tools"}, calls: Seq(Shapes)]
    /\ anyDenied \in BOOLEAN
    /\ cur \in 0 .. MaxUses /\ last \in 0 .. MaxUses
    /\ tool \in [Uses -> [id: 0 .. MaxUses, name: Names, input: Inputs, listed: BOOLEAN]]
    /\ stage \in [Uses -> {"none", "proposed", "asked", "finished"}]
    /\ status \in [Uses -> Statuses \cup {"none"}]
    /\ dispatched \subseteq Uses
    /\ allowedBy \in [Uses -> [at: 0 .. MaxUses, by: Owners]]
    /\ outcome \in {"none", "ok", "cancelled", "failed", "panicked"}
    /\ terminal \in {"none", "ok", "cancelled", "failed"}
    /\ sinkFailed \in BOOLEAN

\* Nothing that the policy puts before a human runs without one: a call that
\* needs approval reaches an executor only through an Allow that the turn's
\* owner gave while that very call was being processed, whatever late,
\* repeated or early responses and cancellations surround it.
Consent ==
    \A n \in dispatched :
        tool[n].name # "backend" /\ Decision(tool[n]) = "approval"
        => allowedBy[n] = [at |-> n, by |-> Owner]

\* A terminal call's result tells the truth about its dispatch: what never
\* left the engine is never reported as run or unknown, and what was handed
\* to the client is reported only as the client's own result for that id or
\* as an unknown outcome; it is never called denied.
HonestResult ==
    \A n \in Uses :
        stage[n] = "finished" /\ tool[n].name = "terminal" =>
            IF n \in dispatched
            THEN \/ status[n] = "outcomeUnknown"
                 \/ [kind |-> "toolResult", id |-> tool[n].id, val |-> status[n]]
                        \in consumed
            ELSE status[n] \in {"unsupported", "failed", "blocked",
                                "denied", "cancelled"}

\* When the turn ends with its events delivered, every call that was proposed
\* has its one result and no executor is left without one.
Paired ==
    pc = "done" /\ starter # "refused" /\ ~sinkFailed =>
        \A n \in Uses : /\ stage[n] \in {"none", "finished"}
                        /\ n \in dispatched => stage[n] = "finished"

\* Each response key is accepted once and reaches the engine once, however
\* often the client repeats it.
AcceptedOnce ==
    /\ \A c, d \in consumed : ResponseKey(c) = ResponseKey(d) => c = d
    /\ \A i, j \in 1 .. Len(queue) :
          ResponseKey(queue[i].resp) = ResponseKey(queue[j].resp) => i = j
    /\ \A i \in 1 .. Len(queue) : queue[i].resp \in consumed

\* The round budget: the rounds of the request plus one final synthesis, and
\* nothing follows the final synthesis.
RoundBudget ==
    /\ usedRounds <= RoundCap + 1
    /\ usedRounds = RoundCap + 1 => finalSynthesis

\* Manual mode runs nothing, not through the legacy fallback either, unless
\* an unattended task lists the command.
ManualRunsNothing ==
    request.mode = "manual" =>
        \A n \in dispatched : request.unattended = "whitelist" /\ tool[n].listed

\* The task's end removes the entry, however it races with start_turn's own
\* last step: no turn stays registered without a task.
NoLeftoverEntry == pc = "done" => ~registered /\ ~handle

\* Once a denial or the round cap forced the final synthesis no call is
\* proposed, asked for or dispatched any more.
FinalSynthesisRunsNothing ==
    [][finalSynthesis => UNCHANGED <<stage, dispatched, tool>>]_vars

\* A result that was reported stays as it is, and after the terminal event
\* nothing more is proposed, dispatched or reported.
ResultsAreFinal ==
    [][/\ \A n \in Uses : stage[n] = "finished" =>
              stage'[n] = "finished" /\ status'[n] = status[n]
       /\ terminal # "none" => UNCHANGED <<stage, status, dispatched, terminal>>]_vars

\* A cancelled turn ends, wherever the engine was, without any help of the
\* provider or the client; the one wait that does not look at the token is
\* that for the backend router, which may hold it for ever.
CancelEnds == cancelled ~> (pc = "done" \/ []HeldByRouter)

\* Every wait for the client ends, so a turn whose provider and backend
\* router answer ends, whatever its client does.
TurnEnds ==
    WF_vars(Provider) /\ RouterAnswers => ((pc = "turnStarted") ~> (pc = "done"))

-----------------------------------------------------------------------------
(* The turn's promise to its observers.                                    *)

Contract == INSTANCE TurnContract WITH
    phase  <- CASE pc = "off" -> "new"
                [] pc \in {"cleanup", "done"} -> "closed"
                [] OTHER -> "running",
    use    <- [n \in Uses |-> CASE stage[n] \in {"proposed", "asked"} -> "open"
                                [] OTHER -> stage[n]],
    ran    <- dispatched,
    result <- [n \in Uses |-> IF stage[n] = "finished" THEN status[n] ELSE "none"],
    lost   <- sinkFailed

\* The engine, with every interleaving of its client, keeps the contract of
\* the event stream.
ImplementsContract == Contract!Spec

-----------------------------------------------------------------------------
(* What the repository says of the turn, to be compared with the code.     *)

\* engine.rs, request_approval: a cancellation that precedes the dispatch of
\* a call leaves that call undispatched.
CancelStopsDispatch ==
    [][cancelled => \A n \in dispatched' \ dispatched : tool[n].name = "backend"]_vars

\* engine.rs, SequenceEmitter::drop: a turn that did not panic has emitted
\* its terminal event when the emitter is dropped.
OneTerminalEvent ==
    pc = "done" /\ outcome # "panicked" => terminal # "none"

\* bridge.rs, recv_matching: what the bridge receives has been checked by
\* respond, so it matches what the engine waits for.
ReceivedMatches ==
    /\ pc = "approval" /\ queue # <<>> => Matches(Approval(tool[cur].id), Head(queue).resp)
    /\ pc = "exec" /\ queue # <<>> => Matches(ToolResult(tool[cur].id), Head(queue).resp)

\* engine.rs, run_loop: in legacy mode only the synthetic terminal call is
\* processed, any other tool call is a violation.
LegacyOnlySynthetic ==
    [][legacyMode /\ last' # last => answer.kind = "fence"]_vars

=============================================================================
