---------------------------- MODULE AgentTurnInv ----------------------------
(***************************************************************************)
(* The inductive invariant of AgentTurn: what has to hold between any two  *)
(* steps of the engine, its client and start_turn for Consent,             *)
(* HonestResult, AcceptedOnce, RoundBudget, Paired, ManualRunsNothing and  *)
(* NoLeftoverEntry to keep holding.                                        *)
(***************************************************************************)
EXTENDS AgentTurn

ToolPCs == {"tool", "ask", "approval", "request", "start", "exec",
            "startFile", "fileExec", "backend", "finish"}
RoundPCs == {"loop", "messageStarted", "provider", "fallback", "retry", "messageFinished"}

\* Where the engine is among the uses: between rounds all admitted uses are
\* processed, within a round `cur' is one of them, and a round that is about
\* to be judged fits into the bound.
Position ==
    /\ cur <= last
    /\ pc \in {"off", "turnStarted"} => last = 0
    /\ pc \in RoundPCs => cur = last
    /\ pc \in ToolPCs => 1 <= cur
    /\ pc = "messageFinished" =>
          /\ last + Len(answer.calls) <= MaxUses
          /\ answer.kind \in {"fence", "tools"} => Len(answer.calls) >= 1

\* The task runs only after it was spawned, ends its loop with an outcome, and
\* takes its entry along.
Lifetime ==
    /\ starter \in {"idle", "refused", "inserted"} => pc = "off"
    /\ pc = "terminal" => outcome \in {"ok", "cancelled", "failed"}
    /\ NoLeftoverEntry

\* Without repeated ids, a use's id is its number.
Identity == ~ReuseIds => \A n \in Uses : n <= last => tool[n].id = n

\* What respond accepts: from the owner, at a use not earlier than the one it
\* names, and remembered.
Mail ==
    /\ \A i \in 1 .. Len(queue) :
          /\ queue[i].resp \in consumed
          /\ queue[i].by = Owner
          /\ queue[i].at <= cur
          /\ ~ReuseIds => queue[i].resp.id <= queue[i].at
    /\ ~ReuseIds => expected.id <= cur

\* A use is dispatched after it was proposed and before it is finished, and
\* waits where its kind of executor is.
Dispatch ==
    /\ \A n \in dispatched : n <= cur
    /\ pc \in {"tool", "ask", "approval", "request", "startFile"} => cur \notin dispatched
    /\ pc \in {"start", "exec", "fileExec"} => cur \in dispatched
    /\ pc \in {"ask", "approval"} => tool[cur].name \in {"terminal", "file"}
    /\ pc \in {"start", "exec", "request"} => tool[cur].name = "terminal"
    /\ pc \in {"startFile", "fileExec"} => tool[cur].name = "file"
    /\ pc = "backend" => (cur \in dispatched <=> tool[cur].name = "backend")

\* The progress of each use, from the position of the engine.
Progress ==
    /\ \A n \in Uses : n < cur => stage[n] = "finished"
    /\ \A n \in Uses : n > cur => stage[n] = "none"
    /\ pc = "tool" => stage[cur] = "none"
    /\ pc \in ToolPCs \ {"tool"} => stage[cur] \in {"proposed", "asked"}
    /\ pc \in RoundPCs /\ cur > 0 => stage[cur] = "finished"
    /\ pc \notin ToolPCs /\ cur > 0 /\ ~sinkFailed => stage[cur] = "finished"

\* Which results fit a use.
Fits(n) ==
    /\ status[n] \in (IF n \in dispatched THEN Statuses \ {"denied"}
                      ELSE {"unsupported", "failed", "blocked", "denied", "cancelled"})
    /\ n \in dispatched /\ tool[n].name = "terminal" =>
          \/ status[n] = "outcomeUnknown"
          \/ [kind |-> "toolResult", id |-> tool[n].id, val |-> status[n]] \in consumed

Results ==
    /\ \A n \in Uses : stage[n] = "finished" => Fits(n)
    /\ pc = "finish" => Fits(cur)

\* The engine runs a use only if its policy allows it or a human did.
Decided(n) ==
    tool[n].name # "backend" /\ Decision(tool[n]) = "approval"
        => allowedBy[n] = [at |-> n, by |-> Owner]

Cleared ==
    /\ \A n \in dispatched : Decided(n)
    /\ pc \in {"request", "startFile"} => Decided(cur)

\* Tool calls are processed only before the final synthesis, and a round
\* starts only within the budget.
Synthesis ==
    /\ finalSynthesis => pc \notin ToolPCs
    /\ pc \in {"off", "turnStarted", "loop"} => usedRounds <= RoundCap
    /\ RoundBudget

\* In manual mode every round is without tools, so that only the fence of the
\* legacy fallback is admitted, and its command runs when the whitelist has it.
Listed(n) == request.unattended = "whitelist" /\ tool[n].listed

ManualCalls ==
    /\ answer.kind = "fence" =>
          \A i \in 1 .. Len(answer.calls) : answer.calls[i].name = "terminal"
    /\ request.mode = "manual" =>
          /\ pc \in RoundPCs \ {"loop"} => toolsDisabled
          /\ pc \in ToolPCs => \A n \in cur .. last : tool[n].name = "terminal"
          /\ pc \notin {"ask", "approval"}
          /\ pc \in {"request", "startFile"} => Listed(cur)
    /\ ManualRunsNothing

\* The terminal event is the engine's last word.
TerminalLast == terminal # "none" => pc \in {"cleanup", "done"}

\* What Consent, HonestResult, Paired and NoLeftoverEntry rest on.
Core ==
    /\ TypeOK /\ Lifetime /\ Position /\ Identity /\ Mail
    /\ Dispatch /\ Progress /\ Results
    /\ ~ReuseIds => Cleared

\* The strengthening that is preserved by every step.
IndInv == Core /\ Synthesis /\ AcceptedOnce /\ ManualCalls /\ TerminalLast

=============================================================================
