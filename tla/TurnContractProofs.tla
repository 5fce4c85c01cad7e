------------------------- MODULE TurnContractProofs -------------------------
(***************************************************************************)
(* Proofs that the engine of AgentTurn keeps the contract of the event     *)
(* stream (TurnContract), and that reported results are final, for every   *)
(* value of the constants.  Both rest on the inductive invariant that      *)
(* AgentTurnProofs establishes.                                            *)
(***************************************************************************)
EXTENDS AgentTurnProofs

\* What an observer of the turn sees of a use, as the contract maps it.
Shown(n) == CASE stage[n] \in {"proposed", "asked"} -> "open"
              [] OTHER -> stage[n]

ShownResult(n) == IF stage[n] = "finished" THEN status[n] ELSE "none"

ShownPhase ==
    CASE pc = "off" -> "new"
      [] pc \in {"cleanup", "done"} -> "closed"
      [] OTHER -> "running"

\* Where a step leaves every use as it was for the observer.
SameUses ==
    /\ UNCHANGED <<stage, dispatched>>
    /\ \A n \in Uses : stage[n] = "finished" => status'[n] = status[n]

\* The kinds of steps of the whole system, seen from the uses: nothing is
\* shown, the current use is proposed, handed over or finished.
Stutters  == SameUses /\ UNCHANGED <<terminal, sinkFailed>> /\ ShownPhase' = ShownPhase
Begins    == SameUses /\ UNCHANGED <<terminal, sinkFailed>> /\ pc = "off" /\ pc' = "turnStarted"
Proposes  == /\ pc = "tool" /\ pc' \in ToolPCs
             /\ stage' = [stage EXCEPT ![cur] = "proposed"]
             /\ dispatched' \in {dispatched, dispatched \cup {cur}}
             /\ \A n \in Uses : n # cur => status'[n] = status[n]
             /\ UNCHANGED <<terminal, sinkFailed>>
Asks      == /\ pc = "ask" /\ pc' = "approval"
             /\ stage' = [stage EXCEPT ![cur] = "asked"]
             /\ UNCHANGED <<status, dispatched, terminal, sinkFailed>>
HandsOver == /\ pc \in {"request", "startFile"} /\ pc' \in ToolPCs
             /\ dispatched' = dispatched \cup {cur}
             /\ UNCHANGED <<stage, status, terminal, sinkFailed>>
Finishes  == /\ pc = "finish" /\ pc' \in {"terminal", "tool", "loop"}
             /\ stage' = [stage EXCEPT ![cur] = "finished"]
             /\ UNCHANGED <<status, dispatched, terminal, sinkFailed>>
Loses     == /\ ShownPhase = "running" /\ ShownPhase' \in {"running", "closed"}
             /\ sinkFailed' = TRUE
             /\ UNCHANGED <<stage, status, dispatched, terminal>>
Closes    == /\ pc \in {"provider", "retry", "terminal"} /\ pc' = "cleanup"
             /\ terminal' \in {"none", "ok", "cancelled", "failed"}
             /\ UNCHANGED <<stage, status, dispatched, sinkFailed>>

\* Every step is of one of these kinds.
LEMMA StepKinds ==
    ASSUME IndInv, [Next]_vars
    PROVE  \/ Stutters \/ Begins \/ Proposes \/ Asks
           \/ HandsOver \/ Finishes \/ Loses \/ Closes
<1>1. TypeOK /\ Lifetime /\ Position /\ Progress /\ Dispatch
    BY DEF IndInv, Core
<1> USE DEF runtimeVars, clientVars, outsideVars, roundVars, loopVars, useVars, toolVars, endVars
<1>2. CASE UNCHANGED <<stage, status, dispatched, terminal, sinkFailed>>
           /\ ShownPhase' = ShownPhase
    BY <1>2 DEF Stutters, SameUses
<1>3. CASE Starting
  <2>1. UNCHANGED <<stage, status, dispatched, terminal, sinkFailed>>
        /\ (pc' = pc \/ StartSpawn)
      BY <1>3 DEF Starting, StartRefused, StartInsert, StartSpawn, StartAttach
  <2>2. StartSpawn => pc = "off" /\ pc' = "turnStarted"
      BY <1>1 DEF StartSpawn, Lifetime
  <2> QED
      BY <1>2, <2>1, <2>2 DEF Begins, SameUses, ShownPhase
<1>4. CASE Client
    BY <1>2, <1>4 DEF Client, Respond, Cancel, RevokeWorkspace, ShownPhase
<1>5. CASE ProviderAnswers \/ ProviderLacksTools \/ ProviderFails
    BY <1>2, <1>5 DEF ProviderAnswers, ProviderLacksTools, ProviderFails, EndLoop, ShownPhase
<1>6. CASE ProviderPanics
    BY <1>1, <1>6 DEF ProviderPanics, Closes, TypeOK
<1>7. CASE Rounds
    BY <1>2, <1>7 DEF Rounds, EmitTurnStarted, LoopCancelled, LoopRound,
                  EmitMessageStarted, EmitFallback, RoundCancelled, RoundWithoutTools,
                  RoundViolatesSynthesis, RoundAdmitsTools, EndLoop, ShownPhase
<1>8. CASE ProposeRefused \/ ProposeBackend \/ ProposeAllowed \/ ProposeForApproval
  <2>1. \A n \in Uses : n # cur => status'[n] = status[n]
    <3>1. status \in [Uses -> Statuses \cup {"none"}]
        BY <1>1 DEF TypeOK
    <3> QED
        BY <1>8, <3>1 DEF ProposeRefused, ProposeBackend, ProposeAllowed, ProposeForApproval,
                          GoAhead
  <2>2. {n \in {cur} : tool[n].name = "backend"} \in {{}, {cur}}
      OBVIOUS
  <2>3. dispatched' \in {dispatched, dispatched \cup {cur}}
      BY <1>8, <2>2 DEF ProposeRefused, ProposeBackend, ProposeAllowed, ProposeForApproval
  <2>4. pc = "tool" /\ pc' \in {"finish", "backend", "startFile", "request", "ask"}
      BY <1>8 DEF ProposeRefused, ProposeBackend, ProposeAllowed, ProposeForApproval, GoAhead
  <2>5. /\ stage' = [stage EXCEPT ![cur] = "proposed"]
        /\ UNCHANGED <<terminal, sinkFailed>>
      BY <1>8 DEF ProposeRefused, ProposeBackend, ProposeAllowed, ProposeForApproval
  <2> QED
      BY <2>1, <2>3, <2>4, <2>5 DEF Proposes, ToolPCs
<1>9. CASE EmitApprovalRequested
    BY <1>9 DEF EmitApprovalRequested, Asks
<1>10. CASE EmitExecutionRequested \/ EmitFileStarted
    BY <1>10 DEF EmitExecutionRequested, EmitFileStarted, HandsOver, ToolPCs
<1>11. CASE SkipMismatch \/ EmitToolStarted
    BY <1>2, <1>11 DEF SkipMismatch, EmitToolStarted, ShownPhase
\* A result that is settled before ToolFinished is not shown yet.
<1>12. CASE \/ ApprovalAllowed \/ ApprovalDenied \/ ApprovalCancelled \/ ApprovalTimesOut
            \/ ExecResult \/ (\E why \in {"cancelled", "timeout"} : ExecUnknown(why))
            \/ (\E s \in Statuses : FileReturns(s) \/ BackendReturns(s))
  <2>1. /\ UNCHANGED <<stage, dispatched, terminal, sinkFailed>>
        /\ pc \in {"approval", "exec", "fileExec", "backend"}
        /\ pc' \in {"finish", "startFile", "request"}
      BY <1>12 DEF ApprovalAllowed, ApprovalDenied, ApprovalCancelled, ApprovalTimesOut,
                   GoAhead, ExecResult, ExecUnknown, FileReturns, BackendReturns
  <2>2. \A n \in Uses : n # cur => status'[n] = status[n]
    <3>1. status \in [Uses -> Statuses \cup {"none"}]
        BY <1>1 DEF TypeOK
    <3> QED
        BY <1>12, <3>1
           DEF ApprovalAllowed, ApprovalDenied, ApprovalCancelled, ApprovalTimesOut,
               GoAhead, ExecResult, ExecUnknown, FileReturns, BackendReturns
  <2>3. stage[cur] # "finished"
      BY <1>1, <2>1 DEF Progress, ToolPCs
  <2> QED
      BY <2>1, <2>2, <2>3 DEF Stutters, SameUses, ShownPhase
<1>13. CASE FinishAborting \/ FinishTool
    BY <1>13 DEF FinishAborting, FinishTool, EndLoop, Finishes
<1>14. CASE EmitTerminal
    BY <1>1, <1>14 DEF EmitTerminal, Lifetime, Closes
<1>15. CASE SinkFailsInLoop \/ SinkFailsAtEdge
    BY <1>15 DEF SinkFailsInLoop, SinkFailsAtEdge, Emitting, Loses, ShownPhase
<1>16. CASE Cleanup
    BY <1>2, <1>16 DEF Cleanup, ShownPhase
<1>17. CASE UNCHANGED vars
    BY <1>2, <1>17 DEF vars, ShownPhase
<1> QED
    BY <1>3, <1>4, <1>5, <1>6, <1>7, <1>8, <1>9, <1>10, <1>11, <1>12, <1>13, <1>14,
       <1>15, <1>16, <1>17 DEF Next, Provider, Engine, Tools, Ending, Over

-----------------------------------------------------------------------------
(* Results are final.                                                      *)

\* A result that ToolFinished reported is never changed, and nothing follows
\* the terminal event: what emit has sent is true for good.
THEOREM ResultsAreFinalHolds == Spec => ResultsAreFinal
<1>1. ASSUME IndInv, [Next]_vars
      PROVE  [/\ \A n \in Uses : stage[n] = "finished" =>
                     stage'[n] = "finished" /\ status'[n] = status[n]
              /\ terminal # "none" => UNCHANGED <<stage, status, dispatched, terminal>>]_vars
  <2>1. /\ TerminalLast /\ TypeOK /\ Progress /\ Position
        /\ stage \in [Uses -> {"none", "proposed", "asked", "finished"}]
      BY <1>1 DEF IndInv, Core, TypeOK
  <2>2. pc \in ToolPCs \ {"finish"} => stage[cur] # "finished"
      BY <2>1 DEF Progress, ToolPCs
  <2>3. ASSUME NEW n \in Uses, stage[n] = "finished"
        PROVE  stage'[n] = "finished" /\ status'[n] = status[n]
      BY <1>1, <2>1, <2>2, <2>3, StepKinds
         DEF Stutters, Begins, SameUses, Proposes, Asks, HandsOver, Finishes, Loses, Closes,
             ToolPCs
  <2>4. ASSUME terminal # "none" PROVE UNCHANGED vars \/ Cleanup \/ Client \/ Starting
    <3>1. pc \in {"cleanup", "done"}
        BY <2>1, <2>4 DEF TerminalLast
    <3>2. ~Provider
        BY <3>1 DEF Provider, ProviderAnswers, ProviderLacksTools, ProviderFails, ProviderPanics
    <3>3. ~Rounds
        BY <3>1 DEF Rounds, EmitTurnStarted, LoopCancelled, LoopRound,
                  EmitMessageStarted, EmitFallback, RoundCancelled, RoundWithoutTools,
                  RoundViolatesSynthesis, RoundAdmitsTools
    <3>4. ~Tools
        BY <3>1 DEF Tools, ProposeRefused, ProposeBackend, ProposeAllowed, ProposeForApproval,
             EmitApprovalRequested, SkipMismatch, ApprovalAllowed, ApprovalDenied,
             ApprovalCancelled, ApprovalTimesOut, EmitExecutionRequested,
             EmitToolStarted, ExecResult, ExecUnknown, EmitFileStarted, FileReturns,
             BackendReturns, FinishAborting, FinishTool
    <3>5. Ending => Cleanup
        BY <3>1 DEF Ending, EmitTerminal, SinkFailsInLoop, SinkFailsAtEdge, Emitting
    <3> QED
        BY <1>1, <3>2, <3>3, <3>4, <3>5 DEF Next, Engine, Over
  <2>5. ASSUME terminal # "none" PROVE UNCHANGED <<stage, status, dispatched, terminal>>
      BY <2>4, <2>5 DEF vars, Cleanup, Client, Respond, Cancel, RevokeWorkspace,
             Starting, StartRefused, StartInsert, StartSpawn, StartAttach, toolVars, endVars
  <2> QED
      BY <2>3, <2>5
<1> QED
    BY Invariance, <1>1, PTL DEF Spec, ResultsAreFinal

-----------------------------------------------------------------------------
(* The refinement.                                                         *)

\* No use is open for the observer while the engine works on none, unless a
\* delivery failed.
LEMMA NoneOpenBetween ==
    ASSUME IndInv, pc \notin ToolPCs \ {"tool"}, ~sinkFailed
    PROVE  Contract!NoneOpen
<1>1. TypeOK /\ Progress /\ cur \in Nat
    BY AgentTurnAssumption DEF IndInv, Core, TypeOK
<1>2. ASSUME NEW n \in Uses PROVE stage[n] \in {"none", "finished"}
  <2>1. n \in Nat /\ n > 0
      BY DEF Uses
  <2>2. CASE n < cur
      BY <1>1, <2>2 DEF Progress
  <2>3. CASE n > cur
      BY <1>1, <2>3 DEF Progress
  <2>4. CASE n = cur
      BY <1>1, <2>1, <2>4 DEF Progress, ToolPCs
  <2> QED
      BY <1>1, <2>1, <2>2, <2>3, <2>4
<1>3. \A n \in Uses : Shown(n) # "open"
    BY <1>2 DEF Shown
<1> QED
    BY <1>3 DEF Contract!NoneOpen, Contract!Uses, Uses, Shown

\* The state before start_turn maps to the contract's initial state.
LEMMA ContractInit == Init => Contract!Init
    BY DEF Init, Contract!Init, Contract!Uses, Uses

\* Every step maps to a step of the contract or leaves what is seen as it is.
LEMMA ContractStep ==
    ASSUME IndInv, [Next]_vars
    PROVE  [Contract!Next]_(Contract!vars)
<1>1. /\ TypeOK /\ Progress /\ Position /\ Results /\ Dispatch /\ TerminalLast
      /\ stage \in [Uses -> {"none", "proposed", "asked", "finished"}]
      /\ status \in [Uses -> Statuses \cup {"none"}]
    BY DEF IndInv, Core, TypeOK
<1>2. cur \in Nat /\ (pc \in ToolPCs => cur \in Uses)
    BY <1>1, AgentTurnAssumption DEF TypeOK, Position, Uses
<1> DEFINE use == [n \in Uses |-> Shown(n)]
           result == [n \in Uses |-> ShownResult(n)]
<1>3. CASE Stutters
  <2>1. \A n \in Uses : Shown(n)' = Shown(n) /\ ShownResult(n)' = ShownResult(n)
      BY <1>3 DEF Stutters, SameUses, Shown, ShownResult
  <2>2. use' = use /\ result' = result
      BY <2>1
  <2>3. UNCHANGED <<ShownPhase, use, dispatched, result, sinkFailed, terminal>>
      BY <1>3, <2>2 DEF Stutters, SameUses
  <2> QED
      BY <2>3 DEF Contract!vars, ShownPhase, Shown, ShownResult
<1>4. CASE Begins
  <2>1. \A n \in Uses : Shown(n)' = Shown(n) /\ ShownResult(n)' = ShownResult(n)
      BY <1>4 DEF Begins, SameUses, Shown, ShownResult
  <2>2. use' = use /\ result' = result
      BY <2>1
  <2>3. /\ UNCHANGED <<use, dispatched, result, sinkFailed, terminal>>
        /\ ShownPhase = "new" /\ ShownPhase' = "running"
      BY <1>4, <2>2 DEF Begins, SameUses, ShownPhase
  <2>4. Contract!Begin
      BY <2>3 DEF Contract!Begin, ShownPhase, Shown, ShownResult
  <2> QED
      BY <2>4 DEF Contract!Next
<1>5. CASE Proposes
  <2>1. cur \in Uses /\ stage[cur] = "none" /\ \A n \in Uses : n >= cur => stage[n] = "none"
    <3>1. cur \in Uses /\ stage[cur] = "none"
        BY <1>1, <1>2, <1>5 DEF Proposes, Progress, ToolPCs
    <3>2. ASSUME NEW n \in Uses, n >= cur PROVE n = cur \/ n > cur
        BY <1>2, <3>2 DEF Uses
    <3> QED
        BY <1>1, <3>1, <3>2 DEF Progress
  <2>2. \A n \in Uses : stage[n] \in {"none", "finished"}
    <3>1. ASSUME NEW n \in Uses PROVE n < cur \/ n >= cur
        BY <1>2 DEF Uses
    <3> QED
        BY <1>1, <2>1, <3>1 DEF Progress
  <2>3. /\ \A n \in Uses : Shown(n) # "open"
        /\ \A n \in Uses : n >= cur => Shown(n) = "none"
      BY <2>1, <2>2 DEF Shown
  <2>4. /\ \A n \in Uses : Shown(n)' = IF n = cur THEN "open" ELSE Shown(n)
        /\ \A n \in Uses : ShownResult(n)' = ShownResult(n)
    <3>1. stage' = [stage EXCEPT ![cur] = "proposed"]
          /\ \A n \in Uses : n # cur => status'[n] = status[n]
        BY <1>5 DEF Proposes
    <3> QED
        BY <1>1, <2>1, <3>1 DEF Shown, ShownResult
  <2>5. use' = [use EXCEPT ![cur] = "open"] /\ result' = result
      BY <2>1, <2>4
  <2>6. /\ ShownPhase = "running" /\ ShownPhase' = "running"
        /\ UNCHANGED <<sinkFailed, terminal>>
        /\ dispatched' \in {dispatched, dispatched \cup {cur}}
      BY <1>5 DEF Proposes, ShownPhase, ToolPCs
  <2>7. PICK n \in Uses : n = cur
      BY <2>1
  <2>8. Contract!Propose(n)
      BY <2>1, <2>3, <2>7, <2>5, <2>6
         DEF Contract!Propose, Contract!NoneOpen, Contract!Uses, Uses,
             ShownPhase, Shown, ShownResult
  <2> QED
      BY <2>8 DEF Contract!Next, Contract!Uses, Uses
<1>6. CASE Asks
  <2>1. stage[cur] \in {"proposed", "asked"} /\ cur \in Uses
      BY <1>1, <1>2, <1>6 DEF Asks, Progress, ToolPCs
  <2>2. \A n \in Uses : Shown(n)' = Shown(n) /\ ShownResult(n)' = ShownResult(n)
      BY <1>1, <1>6, <2>1 DEF Asks, Shown, ShownResult
  <2>3. use' = use /\ result' = result
      BY <2>2
  <2>4. UNCHANGED <<ShownPhase, use, dispatched, result, sinkFailed, terminal>>
      BY <1>6, <2>3 DEF Asks, ShownPhase
  <2> QED
      BY <2>4 DEF Contract!vars, ShownPhase, Shown, ShownResult
<1>7. CASE HandsOver
  <2>1. stage[cur] \in {"proposed", "asked"} /\ cur \in Uses /\ cur \notin dispatched
      BY <1>1, <1>2, <1>7 DEF HandsOver, Progress, Dispatch, ToolPCs
  <2>2. \A n \in Uses : Shown(n)' = Shown(n) /\ ShownResult(n)' = ShownResult(n)
      BY <1>7 DEF HandsOver, Shown, ShownResult
  <2>3. use' = use /\ result' = result /\ use[cur] = "open"
      BY <2>1, <2>2 DEF Shown
  <2>4. /\ ShownPhase = "running" /\ ShownPhase' = "running"
        /\ UNCHANGED <<use, result, sinkFailed, terminal>>
        /\ dispatched' = dispatched \cup {cur}
      BY <1>7, <2>3 DEF HandsOver, ShownPhase, ToolPCs
  <2>5. Contract!HandOver(cur)
      BY <2>1, <2>3, <2>4 DEF Contract!HandOver, ShownPhase, Shown, ShownResult
  <2> QED
      BY <2>1, <2>5 DEF Contract!Next, Contract!Uses, Uses
<1>8. CASE Finishes
  <2>1. stage[cur] \in {"proposed", "asked"} /\ cur \in Uses
      BY <1>1, <1>2, <1>8 DEF Finishes, Progress, ToolPCs
  <2>2. status[cur] \in (IF cur \in dispatched THEN Statuses \ {"denied"}
                         ELSE {"unsupported", "failed", "blocked", "denied", "cancelled"})
      BY <1>1, <1>8 DEF Finishes, Results, Fits
  <2>3. status[cur] \in Statuses
      BY <2>2 DEF Statuses
  <2>4. /\ \A n \in Uses : Shown(n)' = IF n = cur THEN "finished" ELSE Shown(n)
        /\ \A n \in Uses : ShownResult(n)' = IF n = cur THEN status[cur] ELSE ShownResult(n)
    <3>1. stage' = [stage EXCEPT ![cur] = "finished"] /\ status' = status
        BY <1>8 DEF Finishes
    <3> QED
        BY <1>1, <2>1, <3>1 DEF Shown, ShownResult
  <2>5. /\ use' = [use EXCEPT ![cur] = "finished"] /\ use[cur] = "open"
        /\ result' = [result EXCEPT ![cur] = status[cur]]
      BY <2>1, <2>4 DEF Shown
  <2>6. /\ ShownPhase = "running" /\ ShownPhase' = "running"
        /\ UNCHANGED <<dispatched, sinkFailed, terminal>>
      BY <1>8 DEF Finishes, ShownPhase
  <2>7. PICK n \in Uses, r \in Statuses : n = cur /\ r = status[cur]
      BY <2>1, <2>3
  <2>8. Contract!Finish(n, r)
      BY <2>1, <2>2, <2>7, <2>5, <2>6
         DEF Contract!Finish, Contract!Run, Contract!NotRun, ShownPhase, Shown, ShownResult
  <2> QED
      BY <2>8 DEF Contract!Next, Contract!Uses, Uses
<1>9. CASE Loses
  <2>1. \A n \in Uses : Shown(n)' = Shown(n) /\ ShownResult(n)' = ShownResult(n)
      BY <1>9 DEF Loses, Shown, ShownResult
  <2>2. use' = use /\ result' = result
      BY <2>1
  <2>3. /\ ShownPhase = "running" /\ ShownPhase' \in {"running", "closed"}
        /\ sinkFailed' = TRUE /\ UNCHANGED <<use, dispatched, result, terminal>>
      BY <1>9, <2>2 DEF Loses
  <2>4. Contract!Lose
      BY <2>3 DEF Contract!Lose, ShownPhase, Shown, ShownResult
  <2> QED
      BY <2>4 DEF Contract!Next
<1>10. CASE Closes
  <2>1. \A n \in Uses : Shown(n)' = Shown(n) /\ ShownResult(n)' = ShownResult(n)
      BY <1>10 DEF Closes, Shown, ShownResult
  <2>2. use' = use /\ result' = result
      BY <2>1
  <2>3. /\ ShownPhase = "running" /\ ShownPhase' = "closed"
        /\ UNCHANGED <<use, dispatched, result, sinkFailed>>
        /\ terminal' \in {"none", "ok", "cancelled", "failed"}
      BY <1>10, <2>2 DEF Closes, ShownPhase
  <2>4. sinkFailed \/ Contract!NoneOpen
      BY <1>10, NoneOpenBetween DEF Closes, ToolPCs
  <2>5. Contract!Close(terminal')
      BY <2>3, <2>4 DEF Contract!Close, ShownPhase, Shown, ShownResult
  <2> QED
      BY <2>3, <2>5 DEF Contract!Next
<1> QED
    BY StepKinds, <1>3, <1>4, <1>5, <1>6, <1>7, <1>8, <1>9, <1>10

\* The turn engine, with every interleaving of start_turn, its client and the
\* provider, implements the contract of the event stream: uses are opened in
\* order and one at a time, handed over at most once while they are open,
\* closed by one result that fits, and the terminal event comes last.
THEOREM ContractHolds == Spec => ImplementsContract
<1>1. IndInv /\ [Next]_vars => [Contract!Next]_(Contract!vars)
    BY ContractStep
<1> QED
    BY Invariance, ContractInit, <1>1, PTL DEF Spec, ImplementsContract, Contract!Spec

=============================================================================
