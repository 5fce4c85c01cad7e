-------------------------- MODULE AgentTurnProofs --------------------------
(***************************************************************************)
(* Proofs about AgentTurn, for every value of its constants.               *)
(***************************************************************************)
EXTENDS AgentTurnInv, SequenceTheorems, TLAPS

-----------------------------------------------------------------------------
(* Type correctness.                                                       *)

\* What a provider returns is a well-formed answer.
LEMMA AnswersTyped ==
    \A a \in Answers :
        a \in [kind: {"none", "text", "fence", "tools"}, calls: Seq(Shapes)]
<1> SUFFICES ASSUME NEW a \in Answers
             PROVE  a \in [kind: {"none", "text", "fence", "tools"}, calls: Seq(Shapes)]
    OBVIOUS
<1>1. CASE a = [kind |-> "text", calls |-> <<>>]
    BY <1>1
<1>2. CASE \E s \in Shapes : a = [kind |-> "fence", calls |-> <<s>>]
    BY <1>2
<1>3. CASE \E k \in 1 .. MaxTools : \E c \in [1 .. k -> Shapes] :
              a = [kind |-> "tools", calls |-> c]
  <2>0. PICK k \in 1 .. MaxTools : \E c \in [1 .. k -> Shapes] :
              a = [kind |-> "tools", calls |-> c]
      BY <1>3
  <2>1. PICK c \in [1 .. k -> Shapes] : a = [kind |-> "tools", calls |-> c]
      BY <2>0
  <2>2. k \in Nat
      BY <2>0, AgentTurnAssumption
  <2>3. c \in Seq(Shapes)
      BY <2>1, <2>2, SeqDef
  <2> QED
      BY <2>1, <2>3
<1> QED
    BY <1>1, <1>2, <1>3 DEF Answers

\* A round that carries tool calls carries at least one.
LEMMA AnswersNonEmpty ==
    \A a \in Answers : a.kind \in {"fence", "tools"} => Len(a.calls) >= 1
<1> SUFFICES ASSUME NEW a \in Answers, a.kind \in {"fence", "tools"}
             PROVE  Len(a.calls) >= 1
    OBVIOUS
<1>1. CASE \E s \in Shapes : a = [kind |-> "fence", calls |-> <<s>>]
    BY <1>1
<1>2. CASE \E k \in 1 .. MaxTools : \E c \in [1 .. k -> Shapes] :
              a = [kind |-> "tools", calls |-> c]
  <2>1. PICK k \in 1 .. MaxTools : \E c \in [1 .. k -> Shapes] :
              a = [kind |-> "tools", calls |-> c]
      BY <1>2
  <2>2. PICK c \in [1 .. k -> Shapes] : a = [kind |-> "tools", calls |-> c]
      BY <2>1
  <2>3. k \in Nat /\ k >= 1
      BY <2>1, AgentTurnAssumption
  <2>4. c \in Seq(Shapes) /\ Len(c) = k
      BY <2>2, <2>3, SeqDef, LenProperties
  <2> QED
      BY <2>2, <2>3, <2>4
<1> QED
    BY <1>1, <1>2 DEF Answers

\* Init establishes the types.
LEMMA InitTyped == Init => TypeOK
<1> SUFFICES ASSUME Init PROVE TypeOK
    OBVIOUS
<1> USE AgentTurnAssumption
<1>1. NoTool \in [id: 0 .. MaxUses, name: Names, input: Inputs, listed: BOOLEAN]
    BY DEF NoTool, Names, Inputs
<1>2. NoAllow \in [at: 0 .. MaxUses, by: Owners]
    BY DEF NoAllow
<1>3. NoAnswer \in [kind: {"none", "text", "fence", "tools"}, calls: Seq(Shapes)]
    BY DEF NoAnswer
<1>4. NoneExpected \in [kind: {"none", "approval", "toolResult"}, id: 0 .. MaxUses]
    BY DEF NoneExpected
<1>5. pc \in PCs /\ queue \in Seq([resp: Responses, at: 0 .. MaxUses, by: Owners])
    BY DEF Init, PCs
<1>6. files \in {"none", "active", "revoked"} /\ request \in Requests
    BY DEF Init
<1>7. tool \in [Uses -> [id: 0 .. MaxUses, name: Names, input: Inputs, listed: BOOLEAN]]
    BY <1>1 DEF Init
<1>8. /\ stage \in [Uses -> {"none", "proposed", "asked", "finished"}]
      /\ status \in [Uses -> Statuses \cup {"none"}]
    BY DEF Init
<1>9. allowedBy \in [Uses -> [at: 0 .. MaxUses, by: Owners]]
    BY <1>2 DEF Init
<1>10. /\ cur \in 0 .. MaxUses /\ last \in 0 .. MaxUses /\ usedRounds \in Nat
       /\ consumed \subseteq Responses /\ allowedNames \subseteq Names
       /\ dispatched \subseteq Uses
    BY DEF Init
<1>11. /\ answer \in [kind: {"none", "text", "fence", "tools"}, calls: Seq(Shapes)]
       /\ expected \in [kind: {"none", "approval", "toolResult"}, id: 0 .. MaxUses]
    BY <1>3, <1>4 DEF Init
<1>12. /\ registered \in BOOLEAN /\ handle \in BOOLEAN /\ cancelled \in BOOLEAN
       /\ finalSynthesis \in BOOLEAN /\ legacyMode \in BOOLEAN
       /\ toolsDisabled \in BOOLEAN /\ anyDenied \in BOOLEAN /\ sinkFailed \in BOOLEAN
    BY DEF Init
<1>13. /\ starter \in {"idle", "refused", "inserted", "spawned", "returned"}
       /\ outcome \in {"none", "ok", "cancelled", "failed", "panicked"}
       /\ terminal \in {"none", "ok", "cancelled", "failed"}
    BY DEF Init
<1> QED
    BY <1>5, <1>6, <1>7, <1>8, <1>9, <1>10, <1>11, <1>12, <1>13 DEF TypeOK

\* Every entry of the response channel carries the position it was sent at.
LEMMA QueueTyped ==
    ASSUME TypeOK
    PROVE  \A i \in 1 .. Len(queue) : queue[i].at \in Nat
<1> DEFINE T == [resp: Responses, at: 0 .. MaxUses, by: Owners]
<1>1. queue \in Seq(T)
    BY DEF TypeOK
<1>2. \A t \in T : t.at \in Nat
    BY AgentTurnAssumption
<1> HIDE DEF T
<1>3. \A i \in 1 .. Len(queue) : queue[i] \in T
    BY <1>1
<1> QED
    BY <1>2, <1>3

\* The head and the tail of the response channel.
LEMMA QueueHead ==
    ASSUME TypeOK, queue # <<>>
    PROVE  /\ Head(queue) = queue[1] /\ 1 \in 1 .. Len(queue)
           /\ queue[1] \in [resp: Responses, at: 0 .. MaxUses, by: Owners]
           /\ Tail(queue) \in Seq([resp: Responses, at: 0 .. MaxUses, by: Owners])
           /\ \A i \in 1 .. Len(Tail(queue)) :
                 i + 1 \in 1 .. Len(queue) /\ Tail(queue)[i] = queue[i + 1]
<1> DEFINE T == [resp: Responses, at: 0 .. MaxUses, by: Owners]
<1>1. queue \in Seq(T)
    BY DEF TypeOK
<1> HIDE DEF T
<1>2. Len(queue) \in Nat /\ Len(queue) >= 1 /\ Len(Tail(queue)) = Len(queue) - 1
    BY <1>1
<1>3. Head(queue) = queue[1] /\ queue[1] \in T
    BY <1>1, <1>2
<1>4. Tail(queue) \in Seq(T)
    BY <1>1
<1>5. \A i \in 1 .. Len(Tail(queue)) : Tail(queue)[i] = queue[i + 1]
    BY <1>1, <1>2
<1> QED
    BY <1>2, <1>3, <1>4, <1>5 DEF T

\* What a step that admits a round's tool calls does to the uses: the earlier
\* ones stay, the new ones are numbered on.
Admitted ==
    /\ cur' = last + 1
    /\ last' \in (last + 1) .. MaxUses /\ last \in Nat
    /\ tool' \in [Uses -> [id: 0 .. MaxUses, name: Names, input: Inputs,
                           listed: BOOLEAN]]
    /\ \A n \in Uses : n <= last => tool'[n] = tool[n]
    /\ ~ReuseIds => \A n \in Uses : n > last /\ n <= last' => tool'[n].id = n

LEMMA AdmittedUses == TypeOK /\ Position /\ RoundAdmitsTools => Admitted
<1> HAVE TypeOK /\ Position /\ RoundAdmitsTools
<1> DEFINE k == Len(answer.calls)
           new(ids) == [n \in Uses |->
                 IF n \in (last + 1) .. (last + k)
                 THEN [id     |-> ids[n - last],
                       name   |-> answer.calls[n - last].name,
                       input  |-> answer.calls[n - last].input,
                       listed |-> answer.calls[n - last].listed]
                 ELSE tool[n]]
<1>1. PICK ids \in IdChoices(k) :
         tool' = new(ids) /\ cur' = last + 1 /\ last' = last + k
    BY DEF RoundAdmitsTools
<1>2. k \in Nat /\ last \in Nat /\ last + k <= MaxUses /\ MaxUses \in Nat
    BY AgentTurnAssumption DEF RoundAdmitsTools, TypeOK, Position
<1>3. k >= 1
    BY DEF RoundAdmitsTools, TypeOK, Position, ToolsRequested, Synthetic
<1>4. /\ \A i \in 1 .. k : ids[i] \in 1 .. (last + k)
      /\ ~ReuseIds => \A i \in 1 .. k : ids[i] = last + i
  <2>1. CASE ReuseIds /\ ~Synthetic
      BY <2>1, <1>1, <1>2 DEF IdChoices
  <2>2. CASE ~(ReuseIds /\ ~Synthetic)
    <3>1. ids = [i \in 1 .. k |-> last + i]
        BY <2>2, <1>1 DEF IdChoices
    <3> QED
        BY <3>1, <1>2
  <2> QED
      BY <2>1, <2>2
<1>5. \A i \in 1 .. k : answer.calls[i] \in Shape
    BY AgentTurnAssumption DEF TypeOK
<1>6. \A n \in (last + 1) .. (last + k) : n - last \in 1 .. k
    BY <1>2
<1>7. ASSUME NEW n \in Uses, n <= last PROVE tool'[n] = tool[n]
    BY <1>1, <1>2, <1>7 DEF Uses
<1>8. ASSUME NEW n \in Uses, n > last, n <= last + k
      PROVE  /\ tool'[n] \in [id: 0 .. MaxUses, name: Names, input: Inputs, listed: BOOLEAN]
             /\ ~ReuseIds => tool'[n].id = n
  <2>1. n - last \in 1 .. k /\ n \in (last + 1) .. (last + k)
      BY <1>2, <1>8 DEF Uses
  <2>2. tool'[n] = [id     |-> ids[n - last],
                    name   |-> answer.calls[n - last].name,
                    input  |-> answer.calls[n - last].input,
                    listed |-> answer.calls[n - last].listed]
      BY <1>1, <2>1
  <2>3. ids[n - last] \in 0 .. MaxUses /\ (~ReuseIds => ids[n - last] = n)
      BY <1>2, <1>4, <2>1 DEF Uses
  <2>4. answer.calls[n - last] \in Shape
      BY <1>5, <2>1
  <2> QED
      BY <2>2, <2>3, <2>4 DEF Shape
<1>9. ASSUME NEW n \in Uses, n > last + k
      PROVE  tool'[n] \in [id: 0 .. MaxUses, name: Names, input: Inputs, listed: BOOLEAN]
  <2>1. tool'[n] = tool[n]
      BY <1>1, <1>2, <1>9 DEF Uses
  <2> QED
      BY <2>1 DEF TypeOK
<1>10. ASSUME NEW n \in Uses
       PROVE  tool'[n] \in [id: 0 .. MaxUses, name: Names, input: Inputs, listed: BOOLEAN]
  <2>1. n <= last \/ (n > last /\ n <= last + k) \/ n > last + k
      BY <1>2 DEF Uses
  <2> QED
      BY <1>7, <1>8, <1>9, <2>1 DEF TypeOK
<1>11. tool' \in [Uses -> [id: 0 .. MaxUses, name: Names, input: Inputs, listed: BOOLEAN]]
    BY <1>1, <1>10
<1> QED
    BY <1>1, <1>2, <1>3, <1>7, <1>8, <1>11 DEF Admitted

-----------------------------------------------------------------------------
(* Every step preserves every conjunct of the inductive invariant.         *)

\* Every step keeps the types.
LEMMA TypeOKStep == Core /\ [Next]_vars => TypeOK'
<1> SUFFICES ASSUME Core, [Next]_vars PROVE TypeOK'
    OBVIOUS
<1>0. RoundAdmitsTools => Admitted
    BY AdmittedUses DEF Core
<1>00. RoundAdmitsTools => cur' \in 0 .. MaxUses /\ last' \in 0 .. MaxUses
    BY <1>0, AgentTurnAssumption DEF Admitted
<1> USE AgentTurnAssumption DEF Core, TypeOK, Position, Lifetime, PCs, Emitting,
        ToolPCs, RoundPCs, Uses, Statuses, runtimeVars, clientVars, outsideVars,
        roundVars, loopVars, useVars, toolVars, endVars
<1>1. CASE StartRefused
    BY <1>1 DEF StartRefused
<1>2. CASE StartInsert
    BY <1>2 DEF StartInsert
<1>3. CASE StartSpawn
    BY <1>3 DEF StartSpawn
<1>4. CASE StartAttach
    BY <1>4 DEF StartAttach
<1>5. CASE RevokeWorkspace
    BY <1>5 DEF RevokeWorkspace
<1>6. CASE \E o \in Owners : Cancel(o)
    BY <1>6 DEF Cancel
<1>7. CASE \E o \in Owners, r \in Responses : Respond(o, r)
    BY <1>7 DEF Respond
<1>8. CASE ProviderAnswers
  <2>1. PICK a \in Answers : answer' = a
      BY <1>8 DEF ProviderAnswers
  <2>2. answer' \in [kind: {"none", "text", "fence", "tools"}, calls: Seq(Shapes)]
      BY <2>1, AnswersTyped
  <2> QED
      BY <1>8, <2>2 DEF ProviderAnswers
<1>9. CASE ProviderLacksTools
    BY <1>9 DEF ProviderLacksTools, EndLoop
<1>10. CASE ProviderFails
    BY <1>10 DEF ProviderFails, EndLoop
<1>11. CASE ProviderPanics
    BY <1>11 DEF ProviderPanics, EndLoop
<1>12. CASE EmitTurnStarted
    BY <1>12 DEF EmitTurnStarted
<1>13. CASE EmitMessageStarted
    BY <1>13 DEF EmitMessageStarted
<1>14. CASE EmitFallback
    BY <1>14 DEF EmitFallback
<1>15. CASE LoopCancelled
    BY <1>15 DEF LoopCancelled, EndLoop
<1>16. CASE RoundCancelled
    BY <1>16 DEF RoundCancelled, EndLoop
<1>17. CASE RoundWithoutTools
    BY <1>17 DEF RoundWithoutTools, EndLoop
<1>18. CASE RoundViolatesSynthesis
    BY <1>18 DEF RoundViolatesSynthesis, EndLoop
<1>19. CASE LoopRound
    BY <1>19 DEF LoopRound
<1>20. CASE RoundAdmitsTools
  <2>1. tool' \in [Uses -> [id: 0 .. MaxUses, name: Names, input: Inputs,
                            listed: BOOLEAN]]
      BY <1>20, <1>0 DEF Admitted
  <2>2. answer' \in [kind: {"none", "text", "fence", "tools"}, calls: Seq(Shapes)]
      BY <1>20 DEF RoundAdmitsTools, NoAnswer
  <2>3. pc' \in PCs /\ anyDenied' \in BOOLEAN
      BY <1>20 DEF RoundAdmitsTools
  <2>4. UNCHANGED <<outsideVars, roundVars, stage, status, dispatched, allowedBy, endVars>>
      BY <1>20 DEF RoundAdmitsTools
  <2> QED
      BY <1>20, <1>00, <2>1, <2>2, <2>3, <2>4
<1>21. CASE ProposeRefused
  <2>1. status' \in [Uses -> Statuses \cup {"none"}]
      BY <1>21 DEF ProposeRefused, RefusalStatus
  <2> QED
      BY <1>21, <2>1 DEF ProposeRefused
<1>22. CASE ProposeBackend
  <2>1. cur \in Uses
      BY <1>22 DEF ProposeBackend
  <2>2. dispatched' \subseteq Uses
      BY <1>22, <2>1 DEF ProposeBackend
  <2> QED
      BY <1>22, <2>2 DEF ProposeBackend
<1>23. CASE ProposeAllowed
  <2>1. tool[cur].id \in 0 .. MaxUses
      BY <1>23 DEF ProposeAllowed
  <2>2. expected' \in [kind: {"none", "approval", "toolResult"}, id: 0 .. MaxUses]
      BY <1>23, <2>1 DEF ProposeAllowed, GoAhead, NoneExpected, ToolResult
  <2> QED
      BY <1>23, <2>2 DEF ProposeAllowed, GoAhead
<1>24. CASE ProposeForApproval
  <2>1. tool[cur].id \in 0 .. MaxUses
      BY <1>24 DEF ProposeForApproval
  <2> QED
      BY <1>24, <2>1 DEF ProposeForApproval, Approval
<1>25. CASE EmitApprovalRequested
    BY <1>25 DEF EmitApprovalRequested
<1>26. CASE SkipMismatch
  <2>1. queue' \in Seq([resp: Responses, at: 0 .. MaxUses, by: Owners])
      BY <1>26, QueueHead DEF SkipMismatch
  <2>2. UNCHANGED <<runtimeVars, consumed, cancelled, files, expected, pc, loopVars,
                    toolVars, endVars>>
      BY <1>26 DEF SkipMismatch
  <2> QED
      BY <2>1, <2>2
<1>27. CASE ApprovalAllowed
  <2>0. pc = "approval"
      BY <1>27 DEF ApprovalAllowed
  <2>1. tool[cur].id \in 0 .. MaxUses
      BY <2>0
  <2>2. expected' \in [kind: {"none", "approval", "toolResult"}, id: 0 .. MaxUses]
      BY <1>27, <2>1 DEF ApprovalAllowed, GoAhead, NoneExpected, ToolResult
  <2>3. /\ Head(queue) \in [resp: Responses, at: 0 .. MaxUses, by: Owners]
        /\ queue' \in Seq([resp: Responses, at: 0 .. MaxUses, by: Owners])
      BY <1>27, QueueHead DEF ApprovalAllowed
  <2>4. allowedBy' \in [Uses -> [at: 0 .. MaxUses, by: Owners]]
      BY <1>27, <2>3 DEF ApprovalAllowed
  <2>5. status' \in [Uses -> Statuses \cup {"none"}] /\ pc' \in PCs
      BY <1>27 DEF ApprovalAllowed, GoAhead
  <2> QED
      BY <1>27, <2>2, <2>3, <2>4, <2>5 DEF ApprovalAllowed
<1>28. CASE ApprovalDenied
  <2>1. queue' \in Seq([resp: Responses, at: 0 .. MaxUses, by: Owners])
      BY <1>28, QueueHead DEF ApprovalDenied
  <2>2. status' \in [Uses -> Statuses \cup {"none"}] /\ pc' = "finish"
      BY <1>28 DEF ApprovalDenied
  <2>3. UNCHANGED <<runtimeVars, consumed, cancelled, files, expected, loopVars,
                    useVars, stage, dispatched, allowedBy, endVars>>
      BY <1>28 DEF ApprovalDenied
  <2> QED
      BY <2>1, <2>2, <2>3
<1>29. CASE ApprovalCancelled
    BY <1>29 DEF ApprovalCancelled
<1>30. CASE ApprovalTimesOut
    BY <1>30 DEF ApprovalTimesOut
<1>31. CASE EmitExecutionRequested
    BY <1>31 DEF EmitExecutionRequested
<1>32. CASE EmitToolStarted
    BY <1>32 DEF EmitToolStarted
<1>33. CASE EmitFileStarted
    BY <1>33 DEF EmitFileStarted
<1>34. CASE ExecResult
  <2>1. /\ Head(queue) \in [resp: Responses, at: 0 .. MaxUses, by: Owners]
        /\ queue' \in Seq([resp: Responses, at: 0 .. MaxUses, by: Owners])
      BY <1>34, QueueHead DEF ExecResult
  <2>2. Head(queue).resp.val \in Statuses
      BY <1>34, <2>1 DEF ExecResult, Matches, ToolResult, Responses
  <2>3. status' \in [Uses -> Statuses \cup {"none"}]
      BY <1>34, <2>2 DEF ExecResult
  <2>4. pc' = "finish"
        /\ UNCHANGED <<runtimeVars, consumed, cancelled, files, expected, loopVars,
                        useVars, stage, dispatched, allowedBy, endVars>>
      BY <1>34 DEF ExecResult
  <2> QED
      BY <2>1, <2>3, <2>4
<1>35. CASE \E why \in {"cancelled", "timeout"} : ExecUnknown(why)
    BY <1>35 DEF ExecUnknown
<1>36. CASE \E s \in Statuses : FileReturns(s)
    BY <1>36 DEF FileReturns
<1>37. CASE \E s \in Statuses : BackendReturns(s)
    BY <1>37 DEF BackendReturns
<1>38. CASE FinishAborting
    BY <1>38 DEF FinishAborting, EndLoop, Aborts
<1>39. CASE FinishTool
  <2>1. anyDenied' \in BOOLEAN /\ finalSynthesis' \in BOOLEAN
      BY <1>39 DEF FinishTool
  <2>2. cur' \in 0 .. MaxUses /\ pc' \in PCs
      BY <1>39 DEF FinishTool
  <2>3. stage' \in [Uses -> {"none", "proposed", "asked", "finished"}]
      BY <1>39 DEF FinishTool
  <2>4. UNCHANGED <<outsideVars, usedRounds, legacyMode, toolsDisabled, allowedNames,
                    answer, last, tool, status, dispatched, allowedBy, endVars>>
      BY <1>39 DEF FinishTool
  <2> QED
      BY <2>1, <2>2, <2>3, <2>4
<1>40. CASE EmitTerminal
    BY <1>40 DEF EmitTerminal
<1>41. CASE SinkFailsInLoop
    BY <1>41 DEF SinkFailsInLoop
<1>42. CASE SinkFailsAtEdge
    BY <1>42 DEF SinkFailsAtEdge
<1>43. CASE Cleanup
  <2>1. registered' \in BOOLEAN /\ handle' \in BOOLEAN /\ pc' \in PCs
      BY <1>43 DEF Cleanup
  <2> QED
      BY <1>43, <2>1 DEF Cleanup
<1>44. CASE UNCHANGED vars
    BY <1>44 DEF vars
<1> QED
    BY <1>1, <1>2, <1>3, <1>4, <1>5, <1>6, <1>7, <1>8, <1>9, <1>10, <1>11, <1>12, <1>13,
       <1>14, <1>15, <1>16, <1>17, <1>18, <1>19, <1>20, <1>21, <1>22, <1>23, <1>24,
       <1>25, <1>26, <1>27, <1>28, <1>29, <1>30, <1>31, <1>32, <1>33, <1>34, <1>35,
       <1>36, <1>37, <1>38, <1>39, <1>40, <1>41, <1>42, <1>43, <1>44
       DEF Next, Starting, Client, Provider, Engine, Rounds, Tools, Ending, Over

\* Every step keeps the task and its entry together.
LEMMA LifetimeStep == Core /\ [Next]_vars => Lifetime'
<1> SUFFICES ASSUME Core, [Next]_vars PROVE Lifetime'
    OBVIOUS
<1> USE AgentTurnAssumption DEF Core, TypeOK, Lifetime, NoLeftoverEntry, Emitting,
        runtimeVars, clientVars, outsideVars, roundVars, loopVars, useVars, toolVars,
        endVars
<1>1. CASE Starting
    BY <1>1 DEF Starting, StartRefused, StartInsert, StartSpawn, StartAttach
<1>2. CASE RevokeWorkspace
    BY <1>2 DEF RevokeWorkspace
<1>3. CASE \E o \in Owners : Cancel(o)
    BY <1>3 DEF Cancel
<1>4. CASE \E o \in Owners, r \in Responses : Respond(o, r)
    BY <1>4 DEF Respond
<1>5. CASE ProviderAnswers
    BY <1>5 DEF ProviderAnswers
<1>6. CASE ProviderLacksTools \/ ProviderFails \/ ProviderPanics
    BY <1>6 DEF ProviderLacksTools, ProviderFails, ProviderPanics, EndLoop
<1>7. CASE EmitTurnStarted \/ EmitMessageStarted \/ EmitFallback
    BY <1>7 DEF EmitTurnStarted, EmitMessageStarted, EmitFallback
<1>8. CASE LoopCancelled \/ RoundCancelled \/ RoundWithoutTools \/ RoundViolatesSynthesis
    BY <1>8 DEF LoopCancelled, RoundCancelled, RoundWithoutTools,
        RoundViolatesSynthesis, EndLoop
<1>9. CASE LoopRound
    BY <1>9 DEF LoopRound
<1>10. CASE RoundAdmitsTools
    BY <1>10 DEF RoundAdmitsTools
<1>11. CASE ProposeRefused
    BY <1>11 DEF ProposeRefused
<1>12. CASE ProposeBackend
    BY <1>12 DEF ProposeBackend
<1>13. CASE ProposeAllowed
    BY <1>13 DEF ProposeAllowed, GoAhead
<1>14. CASE ProposeForApproval \/ EmitApprovalRequested
    BY <1>14 DEF ProposeForApproval, EmitApprovalRequested
<1>15. CASE SkipMismatch
    BY <1>15 DEF SkipMismatch
<1>16. CASE ApprovalAllowed
    BY <1>16 DEF ApprovalAllowed, GoAhead
<1>17. CASE ApprovalDenied
    BY <1>17 DEF ApprovalDenied
<1>18. CASE ApprovalCancelled \/ ApprovalTimesOut
    BY <1>18 DEF ApprovalCancelled, ApprovalTimesOut
<1>19. CASE EmitExecutionRequested \/ EmitToolStarted \/ EmitFileStarted
    BY <1>19 DEF EmitExecutionRequested, EmitToolStarted, EmitFileStarted
<1>20. CASE ExecResult
    BY <1>20 DEF ExecResult
<1>21. CASE \E why \in {"cancelled", "timeout"} : ExecUnknown(why)
    BY <1>21 DEF ExecUnknown
<1>22. CASE \E s \in Statuses : FileReturns(s)
    BY <1>22 DEF FileReturns
<1>23. CASE \E s \in Statuses : BackendReturns(s)
    BY <1>23 DEF BackendReturns
<1>24. CASE FinishAborting
    BY <1>24 DEF FinishAborting, EndLoop, Aborts
<1>25. CASE FinishTool
    BY <1>25 DEF FinishTool
<1>26. CASE EmitTerminal \/ SinkFailsInLoop \/ SinkFailsAtEdge \/ Cleanup
    BY <1>26 DEF EmitTerminal, SinkFailsInLoop, SinkFailsAtEdge, Cleanup
<1>27. CASE UNCHANGED vars
    BY <1>27 DEF vars
<1> QED
    BY <1>1, <1>2, <1>3, <1>4, <1>5, <1>6, <1>7, <1>8, <1>9, <1>10, <1>11, <1>12, <1>13,
       <1>14, <1>15, <1>16, <1>17, <1>18, <1>19, <1>20, <1>21, <1>22, <1>23, <1>24,
       <1>25, <1>26, <1>27
       DEF Next, Starting, Client, Provider, Engine, Rounds, Tools, Ending, Over

\* Every step keeps the engine's position among the uses.
LEMMA PositionStep == Core /\ [Next]_vars => Position'
<1> SUFFICES ASSUME Core, [Next]_vars PROVE Position'
    OBVIOUS
<1>0. RoundAdmitsTools => Admitted
    BY AdmittedUses DEF Core
<1> USE AgentTurnAssumption DEF Core, TypeOK, Position, Lifetime, Emitting, ToolPCs,
        RoundPCs, runtimeVars, clientVars, outsideVars, roundVars, loopVars, useVars,
        toolVars, endVars
<1>1. CASE Starting
    BY <1>1 DEF Starting, StartRefused, StartInsert, StartSpawn, StartAttach
<1>2. CASE RevokeWorkspace
    BY <1>2 DEF RevokeWorkspace
<1>3. CASE \E o \in Owners : Cancel(o)
    BY <1>3 DEF Cancel
<1>4. CASE \E o \in Owners, r \in Responses : Respond(o, r)
    BY <1>4 DEF Respond
<1>5. CASE ProviderAnswers
  <2>1. PICK a \in Answers : last + Len(a.calls) <= MaxUses /\ answer' = a
      BY <1>5 DEF ProviderAnswers
  <2>2. a.kind \in {"fence", "tools"} => Len(a.calls) >= 1
      BY AnswersNonEmpty
  <2> QED
      BY <1>5, <2>1, <2>2 DEF ProviderAnswers
<1>6. CASE ProviderLacksTools \/ ProviderFails \/ ProviderPanics
    BY <1>6 DEF ProviderLacksTools, ProviderFails, ProviderPanics, EndLoop
<1>7. CASE EmitTurnStarted \/ EmitMessageStarted \/ EmitFallback
    BY <1>7 DEF EmitTurnStarted, EmitMessageStarted, EmitFallback
<1>8. CASE LoopCancelled \/ RoundCancelled \/ RoundWithoutTools \/ RoundViolatesSynthesis
    BY <1>8 DEF LoopCancelled, RoundCancelled, RoundWithoutTools,
        RoundViolatesSynthesis, EndLoop
<1>9. CASE LoopRound
    BY <1>9 DEF LoopRound
<1>10. CASE RoundAdmitsTools
    BY <1>10, <1>0 DEF RoundAdmitsTools, Admitted
<1>11. CASE ProposeRefused
    BY <1>11 DEF ProposeRefused
<1>12. CASE ProposeBackend
    BY <1>12 DEF ProposeBackend
<1>13. CASE ProposeAllowed
    BY <1>13 DEF ProposeAllowed, GoAhead
<1>14. CASE ProposeForApproval \/ EmitApprovalRequested
    BY <1>14 DEF ProposeForApproval, EmitApprovalRequested
<1>15. CASE SkipMismatch
    BY <1>15 DEF SkipMismatch
<1>16. CASE ApprovalAllowed
    BY <1>16 DEF ApprovalAllowed, GoAhead
<1>17. CASE ApprovalDenied
    BY <1>17 DEF ApprovalDenied
<1>18. CASE ApprovalCancelled \/ ApprovalTimesOut
    BY <1>18 DEF ApprovalCancelled, ApprovalTimesOut
<1>19. CASE EmitExecutionRequested \/ EmitToolStarted \/ EmitFileStarted
    BY <1>19 DEF EmitExecutionRequested, EmitToolStarted, EmitFileStarted
<1>20. CASE ExecResult
    BY <1>20 DEF ExecResult
<1>21. CASE \E why \in {"cancelled", "timeout"} : ExecUnknown(why)
    BY <1>21 DEF ExecUnknown
<1>22. CASE \E s \in Statuses : FileReturns(s)
    BY <1>22 DEF FileReturns
<1>23. CASE \E s \in Statuses : BackendReturns(s)
    BY <1>23 DEF BackendReturns
<1>24. CASE FinishAborting
    BY <1>24 DEF FinishAborting, EndLoop, Aborts
<1>25. CASE FinishTool
    BY <1>25 DEF FinishTool
<1>26. CASE EmitTerminal \/ SinkFailsInLoop \/ SinkFailsAtEdge \/ Cleanup
    BY <1>26 DEF EmitTerminal, SinkFailsInLoop, SinkFailsAtEdge, Cleanup
<1>27. CASE UNCHANGED vars
    BY <1>27 DEF vars
<1> QED
    BY <1>1, <1>2, <1>3, <1>4, <1>5, <1>6, <1>7, <1>8, <1>9, <1>10, <1>11, <1>12, <1>13,
       <1>14, <1>15, <1>16, <1>17, <1>18, <1>19, <1>20, <1>21, <1>22, <1>23, <1>24,
       <1>25, <1>26, <1>27
       DEF Next, Starting, Client, Provider, Engine, Rounds, Tools, Ending, Over

\* Every step keeps the use numbers as identities.
LEMMA IdentityStep == Core /\ [Next]_vars => Identity'
<1> SUFFICES ASSUME Core, [Next]_vars PROVE Identity'
    OBVIOUS
<1>0. RoundAdmitsTools => Admitted
    BY AdmittedUses DEF Core
<1> USE DEF runtimeVars, clientVars, outsideVars, roundVars, loopVars, useVars,
        toolVars, endVars
<1>1. CASE UNCHANGED <<tool, last>>
    BY <1>1 DEF Core, Identity
<1>2. CASE Starting
    BY <1>1, <1>2 DEF Starting, StartRefused, StartInsert, StartSpawn, StartAttach
<1>3. CASE RevokeWorkspace
    BY <1>1, <1>3 DEF RevokeWorkspace
<1>4. CASE \E o \in Owners : Cancel(o)
    BY <1>1, <1>4 DEF Cancel
<1>5. CASE \E o \in Owners, r \in Responses : Respond(o, r)
    BY <1>1, <1>5 DEF Respond
<1>6. CASE ProviderAnswers
    BY <1>1, <1>6 DEF ProviderAnswers
<1>7. CASE ProviderLacksTools \/ ProviderFails \/ ProviderPanics
    BY <1>1, <1>7 DEF ProviderLacksTools, ProviderFails, ProviderPanics, EndLoop
<1>8. CASE EmitTurnStarted \/ EmitMessageStarted \/ EmitFallback
    BY <1>1, <1>8 DEF EmitTurnStarted, EmitMessageStarted, EmitFallback
<1>9. CASE LoopCancelled \/ RoundCancelled \/ RoundWithoutTools \/ RoundViolatesSynthesis
    BY <1>1, <1>9 DEF LoopCancelled, RoundCancelled, RoundWithoutTools,
        RoundViolatesSynthesis, EndLoop
<1>10. CASE LoopRound
    BY <1>1, <1>10 DEF LoopRound
<1>11. CASE ProposeRefused
    BY <1>1, <1>11 DEF ProposeRefused
<1>12. CASE ProposeBackend
    BY <1>1, <1>12 DEF ProposeBackend
<1>13. CASE ProposeAllowed
    BY <1>1, <1>13 DEF ProposeAllowed, GoAhead
<1>14. CASE ProposeForApproval \/ EmitApprovalRequested
    BY <1>1, <1>14 DEF ProposeForApproval, EmitApprovalRequested
<1>15. CASE SkipMismatch
    BY <1>1, <1>15 DEF SkipMismatch
<1>16. CASE ApprovalAllowed
    BY <1>1, <1>16 DEF ApprovalAllowed, GoAhead
<1>17. CASE ApprovalDenied
    BY <1>1, <1>17 DEF ApprovalDenied
<1>18. CASE ApprovalCancelled \/ ApprovalTimesOut
    BY <1>1, <1>18 DEF ApprovalCancelled, ApprovalTimesOut
<1>19. CASE EmitExecutionRequested \/ EmitToolStarted \/ EmitFileStarted
    BY <1>1, <1>19 DEF EmitExecutionRequested, EmitToolStarted, EmitFileStarted
<1>20. CASE ExecResult
    BY <1>1, <1>20 DEF ExecResult
<1>21. CASE \E why \in {"cancelled", "timeout"} : ExecUnknown(why)
    BY <1>1, <1>21 DEF ExecUnknown
<1>22. CASE \E s \in Statuses : FileReturns(s)
    BY <1>1, <1>22 DEF FileReturns
<1>23. CASE \E s \in Statuses : BackendReturns(s)
    BY <1>1, <1>23 DEF BackendReturns
<1>24. CASE FinishAborting
    BY <1>1, <1>24 DEF FinishAborting, EndLoop, Aborts
<1>25. CASE FinishTool
    BY <1>1, <1>25 DEF FinishTool
<1>26. CASE EmitTerminal \/ SinkFailsInLoop \/ SinkFailsAtEdge \/ Cleanup
    BY <1>1, <1>26 DEF EmitTerminal, SinkFailsInLoop, SinkFailsAtEdge, Cleanup
<1>27. CASE UNCHANGED vars
    BY <1>1, <1>27 DEF vars
<1> USE AgentTurnAssumption DEF Core, TypeOK, Position, Identity, Uses
<1>28. CASE RoundAdmitsTools
  <2>1. ASSUME ~ReuseIds, NEW n \in Uses, n <= last' PROVE tool'[n].id = n
    <3>1. n <= last \/ n > last
        BY <1>28, <1>0 DEF Admitted
    <3> QED
        BY <1>28, <1>0, <2>1, <3>1 DEF Admitted
  <2> QED
      BY <2>1
<1> QED
    BY <1>2, <1>3, <1>4, <1>5, <1>6, <1>7, <1>8, <1>9, <1>10, <1>11, <1>12, <1>13,
       <1>14, <1>15, <1>16, <1>17, <1>18, <1>19, <1>20, <1>21, <1>22, <1>23, <1>24,
       <1>25, <1>26, <1>27, <1>28
       DEF Next, Starting, Client, Provider, Engine, Rounds, Tools, Ending, Over

\* Every step keeps what the response channel may hold.
LEMMA MailStep == Core /\ [Next]_vars => Mail'
<1> SUFFICES ASSUME Core, [Next]_vars PROVE Mail'
    OBVIOUS
<1>0. RoundAdmitsTools => Admitted
    BY AdmittedUses DEF Core
<1>q. \A i \in 1 .. Len(queue) : queue[i].at \in Nat
    BY QueueTyped, AgentTurnAssumption DEF Core
<1> USE DEF runtimeVars, clientVars, outsideVars, roundVars, loopVars, useVars,
        toolVars, endVars
<1>1. CASE UNCHANGED <<queue, consumed, expected, cur>>
    BY <1>1 DEF Core, Mail
<1>2. CASE Starting
    BY <1>1, <1>2 DEF Starting, StartRefused, StartInsert, StartSpawn, StartAttach
<1>3. CASE RevokeWorkspace
    BY <1>1, <1>3 DEF RevokeWorkspace
<1>4. CASE \E o \in Owners : Cancel(o)
    BY <1>1, <1>4 DEF Cancel
<1>5. CASE ProviderAnswers
    BY <1>1, <1>5 DEF ProviderAnswers
<1>6. CASE ProviderLacksTools \/ ProviderFails \/ ProviderPanics
    BY <1>1, <1>6 DEF ProviderLacksTools, ProviderFails, ProviderPanics, EndLoop
<1>7. CASE EmitTurnStarted \/ EmitMessageStarted \/ EmitFallback
    BY <1>1, <1>7 DEF EmitTurnStarted, EmitMessageStarted, EmitFallback
<1>8. CASE LoopCancelled \/ RoundCancelled \/ RoundWithoutTools \/ RoundViolatesSynthesis
    BY <1>1, <1>8 DEF LoopCancelled, RoundCancelled, RoundWithoutTools,
        RoundViolatesSynthesis, EndLoop
<1>9. CASE LoopRound
    BY <1>1, <1>9 DEF LoopRound
<1>10. CASE ProposeRefused
    BY <1>1, <1>10 DEF ProposeRefused
<1>11. CASE ProposeBackend
    BY <1>1, <1>11 DEF ProposeBackend
<1>12. CASE EmitApprovalRequested
    BY <1>1, <1>12 DEF EmitApprovalRequested
<1>13. CASE ApprovalCancelled \/ ApprovalTimesOut
    BY <1>1, <1>13 DEF ApprovalCancelled, ApprovalTimesOut
<1>14. CASE EmitExecutionRequested
    BY <1>1, <1>14 DEF EmitExecutionRequested
<1>15. CASE EmitToolStarted
    BY <1>1, <1>15 DEF EmitToolStarted
<1>16. CASE EmitFileStarted
    BY <1>1, <1>16 DEF EmitFileStarted
<1>17. CASE \E why \in {"cancelled", "timeout"} : ExecUnknown(why)
    BY <1>1, <1>17 DEF ExecUnknown
<1>18. CASE \E s \in Statuses : FileReturns(s)
    BY <1>1, <1>18 DEF FileReturns
<1>19. CASE \E s \in Statuses : BackendReturns(s)
    BY <1>1, <1>19 DEF BackendReturns
<1>20. CASE FinishAborting
    BY <1>1, <1>20 DEF FinishAborting, EndLoop, Aborts
<1>21. CASE EmitTerminal \/ SinkFailsInLoop \/ SinkFailsAtEdge \/ Cleanup
    BY <1>1, <1>21 DEF EmitTerminal, SinkFailsInLoop, SinkFailsAtEdge, Cleanup
<1>22. CASE UNCHANGED vars
    BY <1>1, <1>22 DEF vars
<1> USE AgentTurnAssumption DEF Core, TypeOK, Position, Lifetime, Identity, Mail,
        ToolPCs, RoundPCs, Uses
<1>23. CASE \E o \in Owners, r \in Responses : Respond(o, r)
  <2>1. PICK o \in Owners, r \in Responses : Respond(o, r)
      BY <1>23
  <2> DEFINE entry == [resp |-> r, at |-> cur, by |-> o]
  <2>2. queue \in Seq([resp: Responses, at: 0 .. MaxUses, by: Owners])
      OBVIOUS
  <2>3. /\ Len(queue') = Len(queue) + 1
        /\ \A i \in 1 .. Len(queue) : queue'[i] = queue[i]
        /\ queue'[Len(queue) + 1] = entry
      BY <2>1, <2>2, AppendProperties, LenProperties DEF Respond
  <2>4. ~ReuseIds => r.id <= cur
      BY <2>1 DEF Respond, Matches
  <2>5. ASSUME NEW i \in 1 .. Len(queue')
        PROVE  /\ queue'[i].resp \in consumed'
               /\ queue'[i].by = Owner
               /\ queue'[i].at <= cur'
               /\ ~ReuseIds => queue'[i].resp.id <= queue'[i].at
    <3>1. CASE i \in 1 .. Len(queue)
        BY <2>1, <2>3, <3>1 DEF Respond
    <3>2. CASE i = Len(queue) + 1
        BY <2>1, <2>3, <2>4, <3>2 DEF Respond
    <3>3. Len(queue) \in Nat
        BY <2>2, LenProperties
    <3> QED
        BY <2>3, <3>1, <3>2, <3>3
  <2> QED
      BY <2>1, <2>5 DEF Respond
<1>24. CASE RoundAdmitsTools
  <2>1. cur' \in Nat /\ cur <= cur' /\ cur \in Nat
      BY <1>24, <1>0 DEF Admitted
  <2>2. UNCHANGED <<queue, consumed, expected>>
      BY <1>24 DEF RoundAdmitsTools
  <2>3. \A i \in 1 .. Len(queue) : queue[i].at \in Nat
      BY <1>q
  <2> QED
      BY <2>1, <2>2, <2>3
<1>25. CASE ProposeAllowed
  <2>1. ~ReuseIds => tool[cur].id = cur
      BY <1>25 DEF ProposeAllowed
  <2>2. ~ReuseIds => expected'.id <= cur
      BY <1>25, <2>1 DEF ProposeAllowed, GoAhead, NoneExpected, ToolResult, Approval
  <2> QED
      BY <1>25, <2>2 DEF ProposeAllowed
<1>26. CASE ProposeForApproval
  <2>1. ~ReuseIds => tool[cur].id = cur
      BY <1>26 DEF ProposeForApproval
  <2>2. ~ReuseIds => expected'.id <= cur
      BY <1>26, <2>1 DEF ProposeForApproval, GoAhead, NoneExpected, ToolResult, Approval
  <2> QED
      BY <1>26, <2>2 DEF ProposeForApproval
<1>27. CASE SkipMismatch
  <2>1. queue' = Tail(queue) /\ queue # <<>>
      BY <1>27 DEF SkipMismatch
  <2>2. \A i \in 1 .. Len(queue') : i + 1 \in 1 .. Len(queue) /\ queue'[i] = queue[i + 1]
      BY <2>1, QueueHead
  <2> QED
      BY <1>27, <2>2 DEF SkipMismatch
<1>28. CASE ApprovalAllowed
  <2>1. ~ReuseIds => tool[cur].id = cur
      BY <1>28 DEF ApprovalAllowed
  <2>2. ~ReuseIds => expected'.id <= cur
      BY <1>28, <2>1 DEF ApprovalAllowed, GoAhead, NoneExpected, ToolResult, Approval
  <2>3. queue' = Tail(queue) /\ queue # <<>>
      BY <1>28 DEF ApprovalAllowed
  <2>4. \A i \in 1 .. Len(queue') : i + 1 \in 1 .. Len(queue) /\ queue'[i] = queue[i + 1]
      BY <2>3, QueueHead
  <2> QED
      BY <1>28, <2>2, <2>4 DEF ApprovalAllowed
<1>29. CASE ApprovalDenied
    BY <1>29 DEF ApprovalDenied
<1>30. CASE ExecResult
    BY <1>30 DEF ExecResult
<1>31. CASE FinishTool
  <2>1. cur' \in {cur, cur + 1}
      BY <1>31 DEF FinishTool
  <2>2. ~ReuseIds => expected.id <= cur'
      BY <2>1
  <2>3. \A i \in 1 .. Len(queue) : queue[i].at <= cur'
      BY <2>1, <1>q
  <2> QED
      BY <1>31, <2>2, <2>3 DEF FinishTool
<1> QED
    BY <1>2, <1>3, <1>4, <1>5, <1>6, <1>7, <1>8, <1>9, <1>10, <1>11, <1>12, <1>13,
       <1>14, <1>15, <1>16, <1>17, <1>18, <1>19, <1>20, <1>21, <1>22, <1>23, <1>24,
       <1>25, <1>26, <1>27, <1>28, <1>29, <1>30, <1>31
       DEF Next, Starting, Client, Provider, Engine, Rounds, Tools, Ending, Over

\* Every step keeps the order of proposal and dispatch.
LEMMA DispatchStep == Core /\ [Next]_vars => Dispatch'
<1> SUFFICES ASSUME Core, [Next]_vars PROVE Dispatch'
    OBVIOUS
<1> USE AgentTurnAssumption DEF Core, TypeOK, Position, Lifetime, Dispatch, Emitting,
        ToolPCs, RoundPCs, Uses, runtimeVars, clientVars, outsideVars, roundVars,
        loopVars, useVars, toolVars, endVars
<1>1. CASE StartRefused
    BY <1>1 DEF StartRefused
<1>2. CASE StartInsert
    BY <1>2 DEF StartInsert
<1>3. CASE StartSpawn
    BY <1>3 DEF StartSpawn
<1>4. CASE StartAttach
    BY <1>4 DEF StartAttach
<1>5. CASE RevokeWorkspace
    BY <1>5 DEF RevokeWorkspace
<1>6. CASE \E o \in Owners : Cancel(o)
    BY <1>6 DEF Cancel
<1>7. CASE \E o \in Owners, r \in Responses : Respond(o, r)
    BY <1>7 DEF Respond
<1>8. CASE ProviderAnswers
    BY <1>8 DEF ProviderAnswers
<1>9. CASE ProviderLacksTools
    BY <1>9 DEF ProviderLacksTools, EndLoop
<1>10. CASE ProviderFails
    BY <1>10 DEF ProviderFails, EndLoop
<1>11. CASE ProviderPanics
    BY <1>11 DEF ProviderPanics, EndLoop
<1>12. CASE EmitTurnStarted
    BY <1>12 DEF EmitTurnStarted
<1>13. CASE EmitMessageStarted
    BY <1>13 DEF EmitMessageStarted
<1>14. CASE EmitFallback
    BY <1>14 DEF EmitFallback
<1>15. CASE LoopCancelled
    BY <1>15 DEF LoopCancelled, EndLoop
<1>16. CASE RoundCancelled
    BY <1>16 DEF RoundCancelled, EndLoop
<1>17. CASE RoundWithoutTools
    BY <1>17 DEF RoundWithoutTools, EndLoop
<1>18. CASE RoundViolatesSynthesis
    BY <1>18 DEF RoundViolatesSynthesis, EndLoop
<1>19. CASE LoopRound
    BY <1>19 DEF LoopRound
<1>20. CASE RoundAdmitsTools
    BY <1>20 DEF RoundAdmitsTools
<1>21. CASE ProposeRefused
    BY <1>21 DEF ProposeRefused
<1>22. CASE ProposeBackend
    BY <1>22 DEF ProposeBackend
<1>23. CASE ProposeAllowed
  <2>1. tool[cur].name \in {"terminal", "file"}
      BY <1>23 DEF ProposeAllowed, Route, Names
  <2> QED
      BY <1>23, <2>1 DEF ProposeAllowed, GoAhead
<1>24. CASE ProposeForApproval
  <2>1. tool[cur].name \in {"terminal", "file"}
      BY <1>24 DEF ProposeForApproval, Route, Names
  <2> QED
      BY <1>24, <2>1 DEF ProposeForApproval, GoAhead
<1>25. CASE EmitApprovalRequested
    BY <1>25 DEF EmitApprovalRequested
<1>26. CASE SkipMismatch
    BY <1>26 DEF SkipMismatch
<1>27. CASE ApprovalAllowed
    BY <1>27 DEF ApprovalAllowed, GoAhead
<1>28. CASE ApprovalDenied
    BY <1>28 DEF ApprovalDenied
<1>29. CASE ApprovalCancelled
    BY <1>29 DEF ApprovalCancelled
<1>30. CASE ApprovalTimesOut
    BY <1>30 DEF ApprovalTimesOut
<1>31. CASE EmitExecutionRequested
    BY <1>31 DEF EmitExecutionRequested
<1>32. CASE EmitToolStarted
    BY <1>32 DEF EmitToolStarted
<1>33. CASE EmitFileStarted
    BY <1>33 DEF EmitFileStarted
<1>34. CASE ExecResult
    BY <1>34 DEF ExecResult
<1>35. CASE \E why \in {"cancelled", "timeout"} : ExecUnknown(why)
    BY <1>35 DEF ExecUnknown
<1>36. CASE \E s \in Statuses : FileReturns(s)
    BY <1>36 DEF FileReturns
<1>37. CASE \E s \in Statuses : BackendReturns(s)
    BY <1>37 DEF BackendReturns
<1>38. CASE FinishAborting
    BY <1>38 DEF FinishAborting, EndLoop, Aborts
<1>39. CASE FinishTool
  <2>1. /\ UNCHANGED <<dispatched, tool>> /\ pc' \in {"tool", "loop"}
        /\ \/ pc' = "loop" /\ cur' = cur
           \/ pc' = "tool" /\ cur' = cur + 1
      BY <1>39 DEF FinishTool
  <2>2. cur \in Nat /\ \A n \in dispatched : n \in Nat /\ n <= cur
      OBVIOUS
  <2> QED
      BY <2>1, <2>2
<1>40. CASE EmitTerminal
    BY <1>40 DEF EmitTerminal
<1>41. CASE SinkFailsInLoop
    BY <1>41 DEF SinkFailsInLoop
<1>42. CASE SinkFailsAtEdge
    BY <1>42 DEF SinkFailsAtEdge
<1>43. CASE Cleanup
    BY <1>43 DEF Cleanup
<1>44. CASE UNCHANGED vars
    BY <1>44 DEF vars
<1> QED
    BY <1>1, <1>2, <1>3, <1>4, <1>5, <1>6, <1>7, <1>8, <1>9, <1>10, <1>11, <1>12, <1>13,
       <1>14, <1>15, <1>16, <1>17, <1>18, <1>19, <1>20, <1>21, <1>22, <1>23, <1>24,
       <1>25, <1>26, <1>27, <1>28, <1>29, <1>30, <1>31, <1>32, <1>33, <1>34, <1>35,
       <1>36, <1>37, <1>38, <1>39, <1>40, <1>41, <1>42, <1>43, <1>44
       DEF Next, Starting, Client, Provider, Engine, Rounds, Tools, Ending, Over

\* Every step keeps the progress of the uses.
LEMMA ProgressStep == Core /\ [Next]_vars => Progress'
<1> SUFFICES ASSUME Core, [Next]_vars PROVE Progress'
    OBVIOUS
<1>0. RoundAdmitsTools => Admitted
    BY AdmittedUses DEF Core
<1> USE DEF ToolPCs, RoundPCs, runtimeVars, clientVars, outsideVars, roundVars, loopVars, useVars,
        toolVars, endVars
<1>1. CASE /\ UNCHANGED <<cur, stage, sinkFailed>>
           /\ \/ pc' = pc
              \/ {pc, pc'} \subseteq ToolPCs \ {"tool"}
              \/ {pc, pc'} \subseteq RoundPCs
              \/ pc \notin ToolPCs /\ pc' \notin ToolPCs \cup RoundPCs
    BY <1>1 DEF Core, Progress
<1>2. CASE RevokeWorkspace
    BY <1>1, <1>2 DEF RevokeWorkspace
<1>3. CASE \E o \in Owners : Cancel(o)
    BY <1>1, <1>3 DEF Cancel
<1>4. CASE \E o \in Owners, r \in Responses : Respond(o, r)
    BY <1>1, <1>4 DEF Respond
<1>5. CASE ProviderAnswers
    BY <1>1, <1>5 DEF ProviderAnswers
<1>6. CASE ProviderLacksTools \/ ProviderFails \/ ProviderPanics
    BY <1>1, <1>6 DEF ProviderLacksTools, ProviderFails, ProviderPanics, EndLoop
<1>7. CASE LoopCancelled \/ RoundCancelled \/ RoundWithoutTools \/ RoundViolatesSynthesis
    BY <1>1, <1>7 DEF LoopCancelled, RoundCancelled, RoundWithoutTools,
        RoundViolatesSynthesis, EndLoop
<1>8. CASE LoopRound
    BY <1>1, <1>8 DEF LoopRound
<1>9. CASE SkipMismatch
    BY <1>1, <1>9 DEF SkipMismatch
<1>10. CASE ApprovalDenied
    BY <1>1, <1>10 DEF ApprovalDenied
<1>11. CASE ApprovalCancelled \/ ApprovalTimesOut
    BY <1>1, <1>11 DEF ApprovalCancelled, ApprovalTimesOut
<1>12. CASE EmitExecutionRequested \/ EmitToolStarted \/ EmitFileStarted
    BY <1>1, <1>12 DEF EmitExecutionRequested, EmitToolStarted, EmitFileStarted
<1>13. CASE ExecResult
    BY <1>1, <1>13 DEF ExecResult
<1>14. CASE \E why \in {"cancelled", "timeout"} : ExecUnknown(why)
    BY <1>1, <1>14 DEF ExecUnknown
<1>15. CASE \E s \in Statuses : FileReturns(s)
    BY <1>1, <1>15 DEF FileReturns
<1>16. CASE \E s \in Statuses : BackendReturns(s)
    BY <1>1, <1>16 DEF BackendReturns
<1>17. CASE UNCHANGED vars
    BY <1>1, <1>17 DEF vars
<1> USE AgentTurnAssumption DEF Core, TypeOK, Position, Lifetime, Progress, Emitting,
        ToolPCs, RoundPCs, Uses
<1>18. CASE Starting
  <2>1. UNCHANGED <<cur, stage, sinkFailed>> /\ (pc' = pc \/ StartSpawn)
      BY <1>18 DEF Starting, StartRefused, StartInsert, StartSpawn, StartAttach
  <2>2. CASE StartSpawn
    <3>1. pc = "off" /\ pc' = "turnStarted"
        BY <2>2 DEF StartSpawn
    <3> QED
        BY <1>1, <2>1, <3>1
  <2> QED
      BY <1>1, <2>1, <2>2
<1>19. CASE EmitTurnStarted \/ EmitMessageStarted \/ EmitFallback
  <2>1. CASE EmitTurnStarted
    <3>1. cur = 0 /\ UNCHANGED <<cur, stage, sinkFailed>> /\ pc' = "loop"
        BY <2>1 DEF EmitTurnStarted
    <3> QED
        BY <3>1
  <2>2. CASE EmitMessageStarted \/ EmitFallback
      BY <1>1, <2>2 DEF EmitMessageStarted, EmitFallback
  <2> QED
      BY <1>19, <2>1, <2>2
<1>20. CASE RoundAdmitsTools
  <2>1. /\ cur' = last + 1 /\ cur = last /\ last \in Nat /\ pc' = "tool"
        /\ stage' = stage /\ cur' \in Uses
      BY <1>20, <1>0 DEF RoundAdmitsTools, Admitted
  <2>2. \A n \in Uses : n <= cur => stage[n] = "finished"
      BY <1>20 DEF RoundAdmitsTools
  <2>3. \A n \in Uses : (n < cur' <=> n <= cur) /\ (n >= cur' <=> n > cur)
      BY <2>1
  <2> QED
      BY <2>1, <2>2, <2>3
<1>21. CASE ProposeRefused
    BY <1>21 DEF ProposeRefused
<1>22. CASE ProposeBackend
    BY <1>22 DEF ProposeBackend
<1>23. CASE ProposeAllowed
    BY <1>23 DEF ProposeAllowed, GoAhead
<1>24. CASE ProposeForApproval
    BY <1>24 DEF ProposeForApproval
<1>25. CASE EmitApprovalRequested
    BY <1>25 DEF EmitApprovalRequested
<1>26. CASE ApprovalAllowed
    BY <1>26 DEF ApprovalAllowed, GoAhead
<1>27. CASE FinishAborting
    BY <1>27 DEF FinishAborting, EndLoop, Aborts
<1>28. CASE FinishTool
  <2>1. cur \in Uses /\ stage'[cur] = "finished"
      BY <1>28 DEF FinishTool
  <2>2. \A n \in Uses : n # cur => stage'[n] = stage[n]
      BY <1>28 DEF FinishTool
  <2>3. CASE cur < last
      BY <1>28, <2>1, <2>2, <2>3 DEF FinishTool
  <2>4. CASE ~(cur < last)
      BY <1>28, <2>1, <2>2, <2>4 DEF FinishTool
  <2> QED
      BY <2>3, <2>4
<1>29. CASE EmitTerminal
    BY <1>29 DEF EmitTerminal
<1>30. CASE SinkFailsInLoop
    BY <1>30 DEF SinkFailsInLoop
<1>31. CASE SinkFailsAtEdge
    BY <1>31 DEF SinkFailsAtEdge
<1>32. CASE Cleanup
    BY <1>32 DEF Cleanup
<1> QED
    BY <1>2, <1>3, <1>4, <1>5, <1>6, <1>7, <1>8, <1>9, <1>10, <1>11, <1>12, <1>13,
       <1>14, <1>15, <1>16, <1>17, <1>18, <1>19, <1>20, <1>21, <1>22, <1>23, <1>24,
       <1>25, <1>26, <1>27, <1>28, <1>29, <1>30, <1>31, <1>32
       DEF Next, Starting, Client, Provider, Engine, Rounds, Tools, Ending, Over

\* Every step keeps results that fit what happened to the use.
LEMMA ResultsStep == Core /\ [Next]_vars => Results'
<1> SUFFICES ASSUME Core, [Next]_vars PROVE Results'
    OBVIOUS
<1>0. cur \in Nat /\ \A n \in dispatched : n \in Uses /\ n \in Nat /\ n <= cur
    BY AgentTurnAssumption DEF Core, TypeOK, Dispatch, Uses
<1> USE DEF runtimeVars, clientVars, outsideVars, roundVars, loopVars, useVars,
        toolVars, endVars
<1>1. CASE /\ UNCHANGED <<stage, status, dispatched, tool, consumed, cur>>
           /\ pc' = pc \/ pc' # "finish"
  <2>1. \A n \in Uses : Fits(n) => Fits(n)'
      BY <1>1 DEF Fits
  <2>2. pc' = "finish" => Fits(cur)'
      BY <1>1 DEF Core, Results, Fits
  <2> QED
      BY <1>1, <2>1, <2>2 DEF Core, Results
<1>2. CASE Starting
    BY <1>1, <1>2 DEF Starting, StartRefused, StartInsert, StartSpawn, StartAttach
<1>3. CASE RevokeWorkspace
    BY <1>1, <1>3 DEF RevokeWorkspace
<1>4. CASE \E o \in Owners : Cancel(o)
    BY <1>1, <1>4 DEF Cancel
<1>5. CASE ProviderAnswers
    BY <1>1, <1>5 DEF ProviderAnswers
<1>6. CASE ProviderLacksTools \/ ProviderFails \/ ProviderPanics
    BY <1>1, <1>6 DEF ProviderLacksTools, ProviderFails, ProviderPanics, EndLoop
<1>7. CASE EmitTurnStarted \/ EmitMessageStarted \/ EmitFallback
    BY <1>1, <1>7 DEF EmitTurnStarted, EmitMessageStarted, EmitFallback
<1>8. CASE LoopCancelled \/ RoundCancelled \/ RoundWithoutTools \/ RoundViolatesSynthesis
    BY <1>1, <1>8 DEF LoopCancelled, RoundCancelled, RoundWithoutTools,
        RoundViolatesSynthesis, EndLoop
<1>9. CASE LoopRound
    BY <1>1, <1>9 DEF LoopRound
<1>10. CASE SkipMismatch
    BY <1>1, <1>10 DEF SkipMismatch
<1>11. CASE EmitTerminal \/ SinkFailsInLoop \/ SinkFailsAtEdge \/ Cleanup
    BY <1>1, <1>11 DEF EmitTerminal, SinkFailsInLoop, SinkFailsAtEdge, Cleanup
<1>12. CASE UNCHANGED vars
    BY <1>1, <1>12 DEF vars
<1> USE AgentTurnAssumption DEF Core, TypeOK, Position, Lifetime, Mail, Dispatch,
        Progress, Results, Fits, Emitting, ToolPCs, RoundPCs, Uses, Statuses
<1>13. CASE \E o \in Owners, r \in Responses : Respond(o, r)
    BY <1>13 DEF Respond
<1>14. CASE RoundAdmitsTools
    BY <1>14 DEF RoundAdmitsTools
<1>15. CASE ProposeRefused
  <2>1. cur \in Uses /\ cur \notin dispatched
      BY <1>15 DEF ProposeRefused
  <2>2. status'[cur] \in {"unsupported", "failed", "blocked"}
      BY <1>15, <2>1 DEF ProposeRefused, RefusalStatus
  <2> QED
      BY <1>15, <2>1, <2>2 DEF ProposeRefused
<1>16. CASE ProposeBackend
    BY <1>16 DEF ProposeBackend
<1>17. CASE ProposeAllowed
    BY <1>17 DEF ProposeAllowed, GoAhead
<1>18. CASE ProposeForApproval
    BY <1>18 DEF ProposeForApproval
<1>19. CASE EmitApprovalRequested
    BY <1>19 DEF EmitApprovalRequested
<1>20. CASE ApprovalAllowed
  <2>1. cur \in Uses /\ cur \notin dispatched /\ stage[cur] # "finished"
      BY <1>20 DEF ApprovalAllowed
  <2>2. UNCHANGED <<stage, dispatched, tool, consumed, cur>>
      BY <1>20 DEF ApprovalAllowed
  <2>3. \/ status' = status /\ pc' # "finish"
        \/ status' = [status EXCEPT ![cur] = "cancelled"]
      BY <1>20 DEF ApprovalAllowed, GoAhead
  <2>4. ASSUME NEW n \in Uses, n # cur, Fits(n) PROVE Fits(n)'
    <3>1. status'[n] = status[n]
        BY <2>3, <2>4
    <3> QED
        BY <2>2, <2>4, <3>1
  <2>5. pc' = "finish" => Fits(cur)'
      BY <2>1, <2>2, <2>3
  <2>6. \A n \in Uses : stage[n] = "finished" => Fits(n)
      OBVIOUS
  <2> HIDE DEF Fits
  <2> QED
      BY <2>1, <2>2, <2>4, <2>5, <2>6
<1>21. CASE ApprovalDenied
  <2>1. /\ cur \in Uses /\ cur \notin dispatched /\ stage[cur] # "finished"
        /\ status' = [status EXCEPT ![cur] = "denied"]
        /\ UNCHANGED <<stage, dispatched, tool, consumed, cur>>
      BY <1>21 DEF ApprovalDenied
  <2>2. Fits(cur)'
      BY <2>1
  <2>3. \A n \in Uses : n # cur /\ Fits(n) => Fits(n)'
      BY <2>1
  <2>4. \A n \in Uses : stage[n] = "finished" => Fits(n)
      OBVIOUS
  <2> HIDE DEF Fits
  <2> QED
      BY <2>1, <2>2, <2>3, <2>4
<1>22. CASE ApprovalCancelled
    BY <1>22 DEF ApprovalCancelled
<1>23. CASE ApprovalTimesOut
    BY <1>23 DEF ApprovalTimesOut
<1>24. CASE EmitExecutionRequested \/ EmitToolStarted \/ EmitFileStarted
  <2>1. /\ UNCHANGED <<stage, status, tool, consumed, cur>> /\ pc' # "finish"
        /\ dispatched' \subseteq dispatched \cup {cur}
        /\ dispatched \subseteq dispatched' /\ stage[cur] # "finished"
      BY <1>24 DEF EmitExecutionRequested, EmitToolStarted, EmitFileStarted
  <2>2. \A n \in Uses : n # cur /\ Fits(n) => Fits(n)'
      BY <2>1
  <2>3. \A n \in Uses : stage[n] = "finished" => Fits(n)
      OBVIOUS
  <2> HIDE DEF Fits
  <2> QED
      BY <2>1, <2>2, <2>3
<1>25. CASE ExecResult
  <2>1. cur \in Uses /\ cur \in dispatched /\ stage[cur] # "finished"
      BY <1>25 DEF ExecResult
  <2>2. /\ Head(queue) = queue[1] /\ 1 \in 1 .. Len(queue)
        /\ queue[1] \in [resp: Responses, at: 0 .. MaxUses, by: Owners]
      BY <1>25, QueueHead DEF ExecResult
  <2>a. /\ queue[1].resp.kind = "toolResult" /\ queue[1].resp.id = tool[cur].id
        /\ queue[1].resp \in Responses /\ queue[1].resp \in consumed
      BY <1>25, <2>2 DEF ExecResult, Matches, ToolResult
  <2>b. queue[1].resp \in [kind: {"toolResult"}, id: Uses, val: ClientStatuses]
      BY <2>a DEF Responses
  <2>3. /\ queue[1].resp \in consumed
        /\ queue[1].resp.val \in Statuses \ {"denied"}
        /\ queue[1].resp = [kind |-> "toolResult", id |-> tool[cur].id, val |-> queue[1].resp.val]
      BY <2>a, <2>b
  <2>4. status' = [status EXCEPT ![cur] = queue[1].resp.val]
      BY <1>25, <2>2 DEF ExecResult
  <2>5. Fits(cur)'
      BY <1>25, <2>1, <2>3, <2>4 DEF ExecResult
  <2>6. \A n \in Uses : n # cur /\ Fits(n) => Fits(n)'
      BY <1>25, <2>1, <2>4 DEF ExecResult
  <2> QED
      BY <1>25, <2>1, <2>5, <2>6 DEF ExecResult
<1>26. CASE \E why \in {"cancelled", "timeout"} : ExecUnknown(why)
  <2>1. /\ cur \in Uses /\ cur \in dispatched /\ stage[cur] # "finished"
        /\ status' = [status EXCEPT ![cur] = "outcomeUnknown"]
        /\ UNCHANGED <<stage, dispatched, tool, consumed, cur>>
      BY <1>26 DEF ExecUnknown
  <2>2. Fits(cur)'
      BY <2>1
  <2>3. \A n \in Uses : n # cur /\ Fits(n) => Fits(n)'
      BY <2>1
  <2>4. \A n \in Uses : stage[n] = "finished" => Fits(n)
      OBVIOUS
  <2> HIDE DEF Fits
  <2> QED
      BY <2>1, <2>2, <2>3, <2>4
<1>27. CASE \E s \in Statuses : FileReturns(s)
  <2>1. PICK s \in Statuses : FileReturns(s)
      BY <1>27
  <2>2. cur \in Uses /\ cur \in dispatched /\ stage[cur] # "finished" /\ tool[cur].name = "file"
      BY <2>1 DEF FileReturns
  <2>3. ASSUME NEW n \in dispatched, n # cur PROVE status[n] # "denied"
    <3>1. n \in Uses /\ n < cur
        BY <1>0, <2>3
    <3>2. stage[n] = "finished"
        BY <3>1
    <3> QED
        BY <3>1, <3>2
  <2>4. s # "denied"
      BY <2>1, <2>3 DEF FileReturns
  <2>5. Fits(cur)'
      BY <2>1, <2>2, <2>4 DEF FileReturns
  <2>6. \A n \in Uses : n # cur /\ Fits(n) => Fits(n)'
      BY <2>1, <2>2 DEF FileReturns
  <2> QED
      BY <2>1, <2>2, <2>5, <2>6 DEF FileReturns
<1>28. CASE \E s \in Statuses : BackendReturns(s)
    BY <1>28 DEF BackendReturns
<1>29. CASE FinishAborting
    BY <1>29 DEF FinishAborting, EndLoop, Aborts
<1>30. CASE FinishTool
    BY <1>30 DEF FinishTool
<1> QED
    BY <1>2, <1>3, <1>4, <1>5, <1>6, <1>7, <1>8, <1>9, <1>10, <1>11, <1>12, <1>13,
       <1>14, <1>15, <1>16, <1>17, <1>18, <1>19, <1>20, <1>21, <1>22, <1>23, <1>24,
       <1>25, <1>26, <1>27, <1>28, <1>29, <1>30
       DEF Next, Starting, Client, Provider, Engine, Rounds, Tools, Ending, Over

\* Every step keeps dispatched uses decided.
LEMMA ClearedStep == Core /\ [Next]_vars /\ ~ReuseIds => Cleared'
<1> SUFFICES ASSUME Core, [Next]_vars, ~ReuseIds PROVE Cleared'
    OBVIOUS
<1>0. RoundAdmitsTools => Admitted
    BY AdmittedUses DEF Core
<1> USE DEF runtimeVars, clientVars, outsideVars, roundVars, loopVars, useVars,
        toolVars, endVars
<1>1. CASE /\ UNCHANGED <<dispatched, tool, request, allowedBy>>
           /\ UNCHANGED <<pc, cur>> \/ pc' \notin {"request", "startFile"}
  <2>1. \A n : Decided(n) => Decided(n)'
      BY <1>1 DEF Decided, Decision
  <2> QED
      BY <1>1, <2>1 DEF Core, Cleared
<1>2. CASE Starting
    BY <1>1, <1>2 DEF Starting, StartRefused, StartInsert, StartSpawn, StartAttach
<1>3. CASE RevokeWorkspace
    BY <1>1, <1>3 DEF RevokeWorkspace
<1>4. CASE \E o \in Owners : Cancel(o)
    BY <1>1, <1>4 DEF Cancel
<1>5. CASE \E o \in Owners, r \in Responses : Respond(o, r)
    BY <1>1, <1>5 DEF Respond
<1>6. CASE ProviderAnswers
    BY <1>1, <1>6 DEF ProviderAnswers
<1>7. CASE ProviderLacksTools \/ ProviderFails \/ ProviderPanics
    BY <1>1, <1>7 DEF ProviderLacksTools, ProviderFails, ProviderPanics, EndLoop
<1>8. CASE EmitTurnStarted \/ EmitMessageStarted \/ EmitFallback
    BY <1>1, <1>8 DEF EmitTurnStarted, EmitMessageStarted, EmitFallback
<1>9. CASE LoopCancelled \/ RoundCancelled \/ RoundWithoutTools \/ RoundViolatesSynthesis
    BY <1>1, <1>9 DEF LoopCancelled, RoundCancelled, RoundWithoutTools,
        RoundViolatesSynthesis, EndLoop
<1>10. CASE LoopRound
    BY <1>1, <1>10 DEF LoopRound
<1>11. CASE ProposeRefused
    BY <1>1, <1>11 DEF ProposeRefused
<1>12. CASE EmitApprovalRequested
    BY <1>1, <1>12 DEF EmitApprovalRequested
<1>13. CASE SkipMismatch
    BY <1>1, <1>13 DEF SkipMismatch
<1>14. CASE ApprovalDenied
    BY <1>1, <1>14 DEF ApprovalDenied
<1>15. CASE ApprovalCancelled \/ ApprovalTimesOut
    BY <1>1, <1>15 DEF ApprovalCancelled, ApprovalTimesOut
<1>16. CASE ExecResult
    BY <1>1, <1>16 DEF ExecResult
<1>17. CASE \E why \in {"cancelled", "timeout"} : ExecUnknown(why)
    BY <1>1, <1>17 DEF ExecUnknown
<1>18. CASE \E s \in Statuses : FileReturns(s)
    BY <1>1, <1>18 DEF FileReturns
<1>19. CASE \E s \in Statuses : BackendReturns(s)
    BY <1>1, <1>19 DEF BackendReturns
<1>20. CASE FinishAborting
    BY <1>1, <1>20 DEF FinishAborting, EndLoop, Aborts
<1>21. CASE FinishTool
    BY <1>1, <1>21 DEF FinishTool
<1>22. CASE EmitTerminal \/ SinkFailsInLoop \/ SinkFailsAtEdge \/ Cleanup
    BY <1>1, <1>22 DEF EmitTerminal, SinkFailsInLoop, SinkFailsAtEdge, Cleanup
<1>23. CASE UNCHANGED vars
    BY <1>1, <1>23 DEF vars
<1> USE AgentTurnAssumption DEF Core, TypeOK, Position, Lifetime, Identity, Mail,
        Dispatch, Cleared, Decided, Decision, Emitting, ToolPCs, RoundPCs, Uses
<1>24. CASE RoundAdmitsTools
  <2>1. /\ UNCHANGED <<dispatched, allowedBy, request>> /\ pc' = "tool"
        /\ \A n \in dispatched : n \in Uses /\ n <= last
      BY <1>24 DEF RoundAdmitsTools
  <2>2. \A n \in dispatched : tool'[n] = tool[n]
      BY <1>24, <1>0, <2>1 DEF Admitted
  <2>3. ASSUME NEW n \in dispatched PROVE Decided(n)'
    <3>1. tool'[n] = tool[n] /\ request' = request /\ allowedBy'[n] = allowedBy[n]
        BY <2>1, <2>2
    <3>2. Decision(tool[n])' = Decision(tool[n])
        BY <3>1
    <3>3. Decided(n)
        OBVIOUS
    <3> QED
        BY <3>1, <3>2, <3>3
  <2> QED
      BY <2>1, <2>3
<1>25. CASE ProposeBackend
    BY <1>25 DEF ProposeBackend
<1>26. CASE ProposeAllowed
  <2>1. cur \in Uses /\ cur \notin dispatched
      BY <1>26 DEF ProposeAllowed
  <2>2. tool[cur].name \in {"terminal", "file"}
      BY <1>26 DEF ProposeAllowed, Route, Names
  <2>3. Decision(tool[cur]) # "approval"
      BY <1>26 DEF ProposeAllowed, Route
  <2> QED
      BY <1>26, <2>1, <2>2, <2>3 DEF ProposeAllowed, GoAhead
<1>27. CASE ProposeForApproval
  <2>1. cur \in Uses /\ cur \notin dispatched
      BY <1>27 DEF ProposeForApproval
  <2>2. tool[cur].name \in {"terminal", "file"}
      BY <1>27 DEF ProposeForApproval, Route, Names
  <2> QED
      BY <1>27, <2>1, <2>2 DEF ProposeForApproval
<1>28. CASE ApprovalAllowed
  <2>1. cur \in Uses /\ cur \notin dispatched /\ tool[cur].id = cur
      BY <1>28 DEF ApprovalAllowed
  <2>2. /\ Head(queue) = queue[1] /\ 1 \in 1 .. Len(queue)
        /\ queue[1] \in [resp: Responses, at: 0 .. MaxUses, by: Owners]
      BY <1>28, QueueHead DEF ApprovalAllowed
  <2>3. queue[1].resp.id = cur
      BY <1>28, <2>1, <2>2 DEF ApprovalAllowed, Matches, Approval
  <2>4. queue[1].at = cur /\ queue[1].by = Owner
      BY <2>1, <2>2, <2>3
  <2>5. allowedBy'[cur] = [at |-> cur, by |-> Owner]
      BY <1>28, <2>1, <2>2, <2>4 DEF ApprovalAllowed
  <2>6. tool[cur].name \in {"terminal", "file"}
      BY <1>28 DEF ApprovalAllowed
  <2> QED
      BY <1>28, <2>1, <2>5, <2>6 DEF ApprovalAllowed, GoAhead
<1>29. CASE EmitExecutionRequested \/ EmitToolStarted \/ EmitFileStarted
    BY <1>29 DEF EmitExecutionRequested, EmitToolStarted, EmitFileStarted
<1> QED
    BY <1>2, <1>3, <1>4, <1>5, <1>6, <1>7, <1>8, <1>9, <1>10, <1>11, <1>12, <1>13,
       <1>14, <1>15, <1>16, <1>17, <1>18, <1>19, <1>20, <1>21, <1>22, <1>23, <1>24,
       <1>25, <1>26, <1>27, <1>28, <1>29
       DEF Next, Starting, Client, Provider, Engine, Rounds, Tools, Ending, Over

\* Every step keeps the round budget and the end of tool calls.
LEMMA SynthesisStep == IndInv /\ [Next]_vars => Synthesis'
<1> SUFFICES ASSUME IndInv, [Next]_vars PROVE Synthesis'
    OBVIOUS
<1>00. TypeOK /\ Synthesis /\ pc \in PCs
    BY DEF IndInv, Core, TypeOK
<1> USE <1>00
<1> USE AgentTurnAssumption DEF TypeOK, Synthesis, RoundBudget, Emitting,
        ToolPCs, RoundPCs, runtimeVars, clientVars, outsideVars,
        roundVars, loopVars, useVars, toolVars, endVars
<1>1. CASE Starting
  <2>1. UNCHANGED <<usedRounds, finalSynthesis>>
      BY <1>1 DEF Starting, StartRefused, StartInsert, StartSpawn, StartAttach
  <2>2. pc' = pc \/ (pc = "off" /\ pc' = "turnStarted")
    <3>1. StartSpawn => pc = "off"
        BY DEF StartSpawn, IndInv, Core, Lifetime
    <3> QED
        BY <1>1, <3>1 DEF Starting, StartRefused, StartInsert, StartSpawn, StartAttach
  <2> QED
      BY <2>1, <2>2
<1>2. CASE RevokeWorkspace
    BY <1>2 DEF RevokeWorkspace
<1>3. CASE \E o \in Owners : Cancel(o)
    BY <1>3 DEF Cancel
<1>4. CASE \E o \in Owners, r \in Responses : Respond(o, r)
    BY <1>4 DEF Respond
<1>5. CASE ProviderAnswers
    BY <1>5 DEF ProviderAnswers
<1>6. CASE ProviderLacksTools \/ ProviderFails \/ ProviderPanics
    BY <1>6 DEF ProviderLacksTools, ProviderFails, ProviderPanics, EndLoop
<1>7. CASE EmitTurnStarted \/ EmitMessageStarted \/ EmitFallback
    BY <1>7 DEF EmitTurnStarted, EmitMessageStarted, EmitFallback
<1>8. CASE LoopCancelled \/ RoundCancelled \/ RoundWithoutTools \/ RoundViolatesSynthesis
    BY <1>8 DEF RoundWithoutTools, RoundViolatesSynthesis, RoundCancelled,
        LoopCancelled, EndLoop
<1>9. CASE LoopRound
  <2>1. /\ pc' = "messageStarted" /\ usedRounds' = usedRounds + 1
        /\ usedRounds >= RoundCap => finalSynthesis'
      BY <1>9 DEF LoopRound
  <2>2. usedRounds \in Nat /\ usedRounds <= RoundCap
      BY <1>9 DEF LoopRound
  <2> QED
      BY <2>1, <2>2
<1>10. CASE RoundAdmitsTools
    BY <1>10 DEF RoundAdmitsTools, SynthesisViolated
<1>11. CASE ProposeRefused
    BY <1>11 DEF ProposeRefused
<1>12. CASE ProposeBackend
    BY <1>12 DEF ProposeBackend
<1>13. CASE ProposeAllowed
    BY <1>13 DEF ProposeAllowed, GoAhead
<1>14. CASE ProposeForApproval
    BY <1>14 DEF ProposeForApproval
<1>15. CASE EmitApprovalRequested
    BY <1>15 DEF EmitApprovalRequested
<1>16. CASE SkipMismatch
    BY <1>16 DEF SkipMismatch
<1>17. CASE ApprovalAllowed
    BY <1>17 DEF ApprovalAllowed, GoAhead
<1>18. CASE ApprovalDenied
    BY <1>18 DEF ApprovalDenied
<1>19. CASE ApprovalCancelled \/ ApprovalTimesOut
    BY <1>19 DEF ApprovalCancelled, ApprovalTimesOut
<1>20. CASE EmitExecutionRequested \/ EmitToolStarted \/ EmitFileStarted
    BY <1>20 DEF EmitToolStarted, EmitFileStarted, EmitExecutionRequested
<1>21. CASE ExecResult
    BY <1>21 DEF ExecResult
<1>22. CASE \E why \in {"cancelled", "timeout"} : ExecUnknown(why)
    BY <1>22 DEF ExecUnknown
<1>23. CASE \E s \in Statuses : FileReturns(s)
    BY <1>23 DEF FileReturns
<1>24. CASE \E s \in Statuses : BackendReturns(s)
    BY <1>24 DEF BackendReturns
<1>25. CASE FinishAborting
    BY <1>25 DEF FinishAborting, EndLoop
<1>26. CASE FinishTool
    BY <1>26 DEF FinishTool
<1>27. CASE EmitTerminal \/ SinkFailsInLoop \/ SinkFailsAtEdge \/ Cleanup
    BY <1>27 DEF SinkFailsInLoop, EmitTerminal, Cleanup, SinkFailsAtEdge
<1>28. CASE UNCHANGED vars
    BY <1>28 DEF vars
<1> QED
    BY <1>1, <1>2, <1>3, <1>4, <1>5, <1>6, <1>7, <1>8, <1>9, <1>10, <1>11, <1>12,
       <1>13, <1>14, <1>15, <1>16, <1>17, <1>18, <1>19, <1>20, <1>21, <1>22, <1>23,
       <1>24, <1>25, <1>26, <1>27, <1>28
       DEF Next, Starting, Client, Provider, Engine, Rounds, Tools, Ending, Over

\* Every step keeps accepted responses unique.
LEMMA AcceptedStep == IndInv /\ [Next]_vars => AcceptedOnce'
<1> SUFFICES ASSUME IndInv, [Next]_vars PROVE AcceptedOnce'
    OBVIOUS
<1>1. AcceptedOnce /\ TypeOK
    BY DEF IndInv, Core
<1>2. queue \in Seq([resp: Responses, at: 0 .. MaxUses, by: Owners])
    BY <1>1 DEF TypeOK
<1>3. UNCHANGED <<queue, consumed>> => AcceptedOnce'
    BY <1>1 DEF AcceptedOnce
<1>4. CASE queue' = Tail(queue) /\ queue # <<>> /\ consumed' = consumed
  <2>1. \A i \in 1 .. Len(queue') : i + 1 \in 1 .. Len(queue) /\ queue'[i] = queue[i + 1]
      BY <1>1, <1>4, QueueHead
  <2>2. \A i \in 1 .. Len(queue') : queue'[i].resp \in consumed'
      BY <1>1, <1>4, <2>1 DEF AcceptedOnce
  <2>3. ASSUME NEW i \in 1 .. Len(queue'), NEW j \in 1 .. Len(queue'),
               ResponseKey(queue'[i].resp) = ResponseKey(queue'[j].resp)
        PROVE  i = j
    <3>1. i + 1 = j + 1
        BY <1>1, <2>1, <2>3 DEF AcceptedOnce
    <3> QED
        BY <3>1, <2>1
  <2> QED
      BY <1>1, <1>4, <2>2, <2>3 DEF AcceptedOnce
<1>5. CASE \E o \in Owners, r \in Responses : Respond(o, r)
  <2>1. PICK o \in Owners, r \in Responses : Respond(o, r)
      BY <1>5
  <2>2. /\ Len(queue) \in Nat /\ Len(queue') = Len(queue) + 1
        /\ \A i \in 1 .. Len(queue) : queue'[i] = queue[i]
        /\ queue'[Len(queue) + 1] = [resp |-> r, at |-> cur, by |-> o]
      BY <2>1, <1>2, AppendProperties, LenProperties DEF Respond
  <2>3. consumed' = consumed \cup {r} /\ \A c \in consumed : ResponseKey(c) # ResponseKey(r)
      BY <2>1 DEF Respond
  <2>4. \A c, d \in consumed' : ResponseKey(c) = ResponseKey(d) => c = d
      BY <1>1, <2>3 DEF AcceptedOnce
  <2>5. \A i \in 1 .. Len(queue') : i \in 1 .. Len(queue) \/ i = Len(queue) + 1
      BY <2>2
  <2>6. \A i \in 1 .. Len(queue) : queue'[i].resp \in consumed
      BY <1>1, <2>2 DEF AcceptedOnce
  <2>7. queue'[Len(queue) + 1].resp = r
      BY <2>2
  <2>8. ASSUME NEW i \in 1 .. Len(queue'), NEW j \in 1 .. Len(queue'),
               ResponseKey(queue'[i].resp) = ResponseKey(queue'[j].resp)
        PROVE  i = j
    <3>1. CASE i \in 1 .. Len(queue) /\ j \in 1 .. Len(queue)
        BY <1>1, <2>2, <2>8, <3>1 DEF AcceptedOnce
    <3>2. CASE i \in 1 .. Len(queue) /\ j = Len(queue) + 1
        BY <2>3, <2>6, <2>7, <2>8, <3>2
    <3>3. CASE i = Len(queue) + 1 /\ j \in 1 .. Len(queue)
        BY <2>3, <2>6, <2>7, <2>8, <3>3
    <3> QED
        BY <2>5, <3>1, <3>2, <3>3
  <2> QED
      BY <2>3, <2>4, <2>5, <2>6, <2>7, <2>8 DEF AcceptedOnce
<1> USE DEF runtimeVars, clientVars, outsideVars, roundVars, loopVars, useVars, toolVars
<1>6. CASE Starting
    BY <1>6, <1>3 DEF Starting, StartRefused, StartInsert, StartSpawn, StartAttach
<1>7. CASE RevokeWorkspace
    BY <1>7, <1>3 DEF RevokeWorkspace
<1>8. CASE \E o \in Owners : Cancel(o)
    BY <1>8, <1>3 DEF Cancel
<1>9. CASE ProviderAnswers
    BY <1>9, <1>3 DEF ProviderAnswers
<1>10. CASE ProviderLacksTools \/ ProviderFails \/ ProviderPanics
    BY <1>10, <1>3 DEF ProviderLacksTools, ProviderFails, ProviderPanics, EndLoop
<1>11. CASE EmitTurnStarted \/ EmitMessageStarted \/ EmitFallback
    BY <1>11, <1>3 DEF EmitTurnStarted, EmitMessageStarted, EmitFallback
<1>12. CASE LoopCancelled \/ RoundCancelled \/ RoundWithoutTools \/ RoundViolatesSynthesis
    BY <1>12, <1>3 DEF LoopCancelled, RoundCancelled, RoundWithoutTools,
        RoundViolatesSynthesis, EndLoop
<1>13. CASE LoopRound
    BY <1>13, <1>3 DEF LoopRound
<1>14. CASE RoundAdmitsTools
    BY <1>14, <1>3 DEF RoundAdmitsTools
<1>15. CASE ProposeRefused
    BY <1>15, <1>3 DEF ProposeRefused
<1>16. CASE ProposeBackend
    BY <1>16, <1>3 DEF ProposeBackend
<1>17. CASE ProposeAllowed
    BY <1>17, <1>3 DEF ProposeAllowed
<1>18. CASE ProposeForApproval
    BY <1>18, <1>3 DEF ProposeForApproval
<1>19. CASE EmitApprovalRequested
    BY <1>19, <1>3 DEF EmitApprovalRequested
<1>20. CASE SkipMismatch
    BY <1>20, <1>4 DEF SkipMismatch
<1>21. CASE ApprovalAllowed
    BY <1>21, <1>4 DEF ApprovalAllowed
<1>22. CASE ApprovalDenied
    BY <1>22, <1>4 DEF ApprovalDenied
<1>23. CASE ApprovalCancelled \/ ApprovalTimesOut
    BY <1>23, <1>3 DEF ApprovalCancelled, ApprovalTimesOut
<1>24. CASE EmitExecutionRequested \/ EmitToolStarted \/ EmitFileStarted
    BY <1>24, <1>3 DEF EmitExecutionRequested, EmitToolStarted, EmitFileStarted
<1>25. CASE ExecResult
    BY <1>25, <1>4 DEF ExecResult
<1>26. CASE \E why \in {"cancelled", "timeout"} : ExecUnknown(why)
    BY <1>26, <1>3 DEF ExecUnknown
<1>27. CASE \E s \in Statuses : FileReturns(s)
    BY <1>27, <1>3 DEF FileReturns
<1>28. CASE \E s \in Statuses : BackendReturns(s)
    BY <1>28, <1>3 DEF BackendReturns
<1>29. CASE FinishAborting
    BY <1>29, <1>3 DEF FinishAborting, EndLoop
<1>30. CASE FinishTool
    BY <1>30, <1>3 DEF FinishTool
<1>31. CASE EmitTerminal \/ SinkFailsInLoop \/ SinkFailsAtEdge \/ Cleanup
    BY <1>31, <1>3 DEF EmitTerminal, SinkFailsInLoop, SinkFailsAtEdge, Cleanup
<1>32. CASE UNCHANGED vars
    BY <1>32, <1>3 DEF vars
<1> QED
    BY <1>5, <1>6, <1>7, <1>8, <1>9, <1>10, <1>11, <1>12, <1>13, <1>14, <1>15,
       <1>16, <1>17, <1>18, <1>19, <1>20, <1>21, <1>22, <1>23, <1>24, <1>25, <1>26,
       <1>27, <1>28, <1>29, <1>30, <1>31, <1>32
       DEF Next, Starting, Client, Provider, Engine, Rounds, Tools, Ending, Over

\* Every step keeps manual mode from running anything that is not listed.
LEMMA ManualStep == IndInv /\ [Next]_vars => ManualCalls'
<1> SUFFICES ASSUME IndInv, [Next]_vars PROVE ManualCalls'
    OBVIOUS
<1>1. TypeOK /\ Position /\ Dispatch /\ ManualCalls
    BY DEF IndInv, Core
<1> DEFINE Between == RoundPCs \ {"loop"}
<1> USE DEF runtimeVars, clientVars, outsideVars, roundVars, loopVars, useVars, toolVars, endVars
<1>2. CASE /\ UNCHANGED <<request, answer, toolsDisabled, cur, last, tool, dispatched>>
           /\ \/ pc' = pc
              \/ pc' \notin ToolPCs \cup Between
              \/ {pc, pc'} \subseteq Between
              \/ {pc, pc'} \subseteq ToolPCs /\ pc' \notin {"request", "startFile", "ask", "approval"}
    BY <1>1, <1>2 DEF ManualCalls, ManualRunsNothing, Listed, ToolPCs, RoundPCs
<1> USE DEF ToolPCs, RoundPCs
<1>3. CASE Starting
  <2>1. UNCHANGED <<request, answer, toolsDisabled, cur, last, tool, dispatched>>
      BY <1>3 DEF Starting, StartRefused, StartInsert, StartSpawn, StartAttach
  <2>2. pc' = pc \/ pc' = "turnStarted"
      BY <1>3 DEF Starting, StartRefused, StartInsert, StartSpawn, StartAttach
  <2> QED
      BY <1>2, <2>1, <2>2
<1>4. CASE RevokeWorkspace \/ (\E o \in Owners : Cancel(o))
             \/ (\E o \in Owners, r \in Responses : Respond(o, r))
    BY <1>2, <1>4 DEF RevokeWorkspace, Cancel, Respond
<1>5. CASE ProviderAnswers
  <2>1. PICK a \in Answers : answer' = a
      BY <1>5 DEF ProviderAnswers
  <2>2. a.kind = "fence" => \A i \in 1 .. Len(a.calls) : a.calls[i].name = "terminal"
    <3>1. CASE \E s \in {s \in Shapes : s.name = "terminal" /\ s.input # "invalid"} :
                   a = [kind |-> "fence", calls |-> <<s>>]
        BY <3>1
    <3>2. CASE a.kind # "fence"
        BY <3>2
    <3> QED
        BY <2>1, <3>1, <3>2 DEF Answers
  <2>3. /\ UNCHANGED <<request, toolsDisabled, cur, last, tool, dispatched>>
        /\ pc \in {"provider", "retry"} /\ pc' = "messageFinished"
      BY <1>5 DEF ProviderAnswers
  <2> QED
      BY <1>1, <2>1, <2>2, <2>3 DEF ManualCalls, ManualRunsNothing
<1>6. CASE ProviderLacksTools \/ ProviderFails \/ ProviderPanics
    BY <1>2, <1>6 DEF ProviderLacksTools, ProviderFails, ProviderPanics, EndLoop
<1>7. CASE EmitTurnStarted \/ EmitMessageStarted \/ EmitFallback
    BY <1>2, <1>7 DEF EmitTurnStarted, EmitMessageStarted, EmitFallback
<1>8. CASE LoopCancelled \/ RoundCancelled \/ RoundWithoutTools \/ RoundViolatesSynthesis
    BY <1>2, <1>8 DEF LoopCancelled, RoundCancelled, RoundWithoutTools,
        RoundViolatesSynthesis, EndLoop
<1>9. CASE LoopRound
  <2>1. /\ UNCHANGED <<request, answer, cur, last, tool, dispatched>>
        /\ pc' = "messageStarted" /\ (request.mode = "manual" => toolsDisabled')
      BY <1>9 DEF LoopRound
  <2> QED
      BY <1>1, <2>1 DEF ManualCalls, ManualRunsNothing
<1>10. CASE RoundAdmitsTools
  <2>1. Admitted
      BY <1>1, <1>10, AdmittedUses
  <2>2. UNCHANGED <<request, dispatched>> /\ pc' = "tool" /\ answer'.kind = "none"
      BY <1>10 DEF RoundAdmitsTools, NoAnswer
  <2>3. \A n \in dispatched : n \in Uses /\ tool'[n] = tool[n]
      BY <1>1, <1>10, <2>1, AgentTurnAssumption
         DEF Admitted, TypeOK, Dispatch, Position, RoundAdmitsTools, Uses
  <2>4. ManualRunsNothing'
      BY <1>1, <2>2, <2>3 DEF ManualCalls, ManualRunsNothing
  <2>5. ASSUME request.mode = "manual", NEW n \in cur' .. last'
        PROVE  tool'[n].name = "terminal"
    <3>1. Synthetic /\ answer.kind = "fence"
        BY <1>1, <1>10, <2>5
           DEF RoundAdmitsTools, SynthesisViolated, Synthetic, ToolsRequested, ManualCalls
    <3>2. PICK ids \in IdChoices(Len(answer.calls)) :
             /\ tool' = [m \in Uses |->
                   IF m \in (last + 1) .. (last + Len(answer.calls))
                   THEN [id     |-> ids[m - last],
                         name   |-> answer.calls[m - last].name,
                         input  |-> answer.calls[m - last].input,
                         listed |-> answer.calls[m - last].listed]
                   ELSE tool[m]]
             /\ cur' = last + 1 /\ last' = last + Len(answer.calls)
        BY <1>10 DEF RoundAdmitsTools
    <3>3. /\ Len(answer.calls) \in Nat /\ last \in Nat /\ MaxUses \in Nat
          /\ last' <= MaxUses
        BY <1>1, <2>1, AgentTurnAssumption DEF TypeOK, Admitted
    <3>4. /\ n \in Uses /\ n \in (last + 1) .. (last + Len(answer.calls))
          /\ n - last \in 1 .. Len(answer.calls)
        BY <2>5, <3>2, <3>3 DEF Uses
    <3>5. tool'[n].name = answer.calls[n - last].name
        BY <3>2, <3>4
    <3> QED
        BY <1>1, <3>1, <3>4, <3>5 DEF ManualCalls
  <2> QED
      BY <2>2, <2>4, <2>5 DEF ManualCalls
\* A call of manual mode that the policy lets through is on the whitelist.
<1>11. ASSUME pc = "tool", request.mode = "manual"
       PROVE  /\ Route(tool[cur]) \in {"unsupported", "invalid", "hidden", "allowed"}
              /\ Route(tool[cur]) = "allowed" => Listed(cur)
  <2>1. tool[cur].name = "terminal"
    <3>1. cur \in cur .. last
        BY <1>1, <1>11, AgentTurnAssumption DEF Position, TypeOK
    <3> QED
        BY <1>1, <1>11, <3>1 DEF ManualCalls
  <2>2. Authorize(request.mode, tool[cur]) = "hidden"
      BY <1>11 DEF Authorize
  <2>3. /\ Decision(tool[cur]) \in {"allowed", "hidden"}
        /\ Decision(tool[cur]) = "allowed" => Listed(cur)
      BY <2>2 DEF Decision, ApplyUnattended, Listed
  <2> QED
      BY <2>1, <2>3 DEF Route
<1>12. CASE ProposeRefused
    BY <1>2, <1>12 DEF ProposeRefused
<1>13. CASE ProposeBackend
  <2>1. request.mode # "manual" /\ request' = request /\ answer' = answer
      BY <1>11, <1>13 DEF ProposeBackend
  <2> QED
      BY <1>1, <2>1 DEF ManualCalls, ManualRunsNothing
<1>14. CASE ProposeAllowed
  <2>1. /\ UNCHANGED <<request, answer, cur, last, tool, dispatched>>
        /\ pc = "tool" /\ pc' \in {"finish", "startFile", "request"}
      BY <1>14 DEF ProposeAllowed, GoAhead
  <2>2. request.mode = "manual" => Listed(cur)
      BY <1>11, <1>14 DEF ProposeAllowed
  <2> QED
      BY <1>1, <2>1, <2>2 DEF ManualCalls, ManualRunsNothing, Listed
<1>15. CASE ProposeForApproval \/ EmitApprovalRequested \/ ApprovalAllowed
  <2>1. request.mode # "manual"
    <3>1. CASE ProposeForApproval
        BY <1>11, <3>1 DEF ProposeForApproval
    <3>2. CASE EmitApprovalRequested \/ ApprovalAllowed
        BY <1>1, <3>2 DEF EmitApprovalRequested, ApprovalAllowed, ManualCalls
    <3> QED
        BY <1>15, <3>1, <3>2
  <2>2. request' = request /\ answer' = answer
      BY <1>15 DEF ProposeForApproval, EmitApprovalRequested, ApprovalAllowed
  <2> QED
      BY <1>1, <2>1, <2>2 DEF ManualCalls, ManualRunsNothing
<1>16. CASE SkipMismatch
    BY <1>2, <1>16 DEF SkipMismatch
<1>17. CASE ApprovalDenied
    BY <1>2, <1>17 DEF ApprovalDenied
<1>18. CASE ApprovalCancelled \/ ApprovalTimesOut
    BY <1>2, <1>18 DEF ApprovalCancelled, ApprovalTimesOut
<1>19. CASE EmitExecutionRequested \/ EmitFileStarted
  <2>1. /\ UNCHANGED <<request, answer, cur, last, tool>>
        /\ dispatched' = dispatched \cup {cur}
        /\ pc \in {"request", "startFile"} /\ pc' \in {"start", "fileExec"}
      BY <1>19 DEF EmitExecutionRequested, EmitFileStarted
  <2>2. request.mode = "manual" => Listed(cur)
      BY <1>1, <2>1 DEF ManualCalls
  <2> QED
      BY <1>1, <2>1, <2>2 DEF ManualCalls, ManualRunsNothing, Listed
<1>20. CASE EmitToolStarted
    BY <1>2, <1>20 DEF EmitToolStarted
<1>21. CASE ExecResult
    BY <1>2, <1>21 DEF ExecResult
<1>22. CASE \E why \in {"cancelled", "timeout"} : ExecUnknown(why)
    BY <1>2, <1>22 DEF ExecUnknown
<1>23. CASE \E s \in Statuses : FileReturns(s)
    BY <1>2, <1>23 DEF FileReturns
<1>24. CASE \E s \in Statuses : BackendReturns(s)
    BY <1>2, <1>24 DEF BackendReturns
<1>25. CASE FinishAborting
    BY <1>2, <1>25 DEF FinishAborting, EndLoop
<1>26. CASE FinishTool
  <2>1. /\ UNCHANGED <<request, answer, toolsDisabled, last, tool, dispatched>>
        /\ pc = "finish"
        /\ \/ pc' = "loop" /\ cur' = cur
           \/ pc' = "tool" /\ cur' = cur + 1
      BY <1>26 DEF FinishTool
  <2>2. \A n \in cur + 1 .. last : n \in cur .. last
      BY <1>1, AgentTurnAssumption DEF TypeOK
  <2> QED
      BY <1>1, <2>1, <2>2 DEF ManualCalls, ManualRunsNothing
<1>27. CASE EmitTerminal \/ SinkFailsInLoop \/ SinkFailsAtEdge \/ Cleanup
    BY <1>2, <1>27 DEF EmitTerminal, SinkFailsInLoop, SinkFailsAtEdge, Cleanup
<1>28. CASE UNCHANGED vars
    BY <1>2, <1>28 DEF vars
<1> QED
    BY <1>3, <1>4, <1>5, <1>6, <1>7, <1>8, <1>9, <1>10, <1>12, <1>13, <1>14, <1>15,
       <1>16, <1>17, <1>18, <1>19, <1>20, <1>21, <1>22, <1>23, <1>24, <1>25, <1>26,
       <1>27, <1>28
       DEF Next, Starting, Client, Provider, Engine, Rounds, Tools, Ending, Over

\* Every step keeps the terminal event the last one.
LEMMA TerminalStep == IndInv /\ [Next]_vars => TerminalLast'
<1> SUFFICES ASSUME IndInv, [Next]_vars PROVE TerminalLast'
    OBVIOUS
<1>1. TerminalLast /\ Lifetime
    BY DEF IndInv, Core
<1> USE DEF runtimeVars, clientVars, outsideVars, roundVars, loopVars, useVars, toolVars, endVars
<1>2. CASE terminal' = terminal /\ (pc' = pc \/ pc \notin {"cleanup", "done"})
    BY <1>1, <1>2 DEF TerminalLast
<1>3. CASE Starting
  <2>1. StartSpawn => pc = "off"
      BY <1>1 DEF StartSpawn, Lifetime
  <2> QED
      BY <1>2, <1>3, <2>1 DEF Starting, StartRefused, StartInsert, StartSpawn, StartAttach
<1>4. CASE RevokeWorkspace \/ (\E o \in Owners : Cancel(o))
             \/ (\E o \in Owners, r \in Responses : Respond(o, r))
    BY <1>2, <1>4 DEF RevokeWorkspace, Cancel, Respond
<1>5. CASE Provider
    BY <1>2, <1>5 DEF Provider, ProviderAnswers, ProviderLacksTools, ProviderFails,
                      ProviderPanics, EndLoop
<1>6. CASE Rounds
    BY <1>2, <1>6 DEF Rounds, EmitTurnStarted, LoopCancelled, LoopRound,
                  EmitMessageStarted, EmitFallback, RoundCancelled, RoundWithoutTools,
                  RoundViolatesSynthesis, RoundAdmitsTools, EndLoop
<1>7. CASE Tools
    BY <1>2, <1>7 DEF Tools, ProposeRefused, ProposeBackend, ProposeAllowed,
           ProposeForApproval, GoAhead, EmitApprovalRequested, SkipMismatch,
           ApprovalAllowed, ApprovalDenied, ApprovalCancelled, ApprovalTimesOut,
           EmitExecutionRequested, EmitToolStarted, ExecResult, ExecUnknown,
           EmitFileStarted, FileReturns, BackendReturns, FinishAborting, FinishTool,
           EndLoop
<1>8. CASE Ending
    BY <1>1, <1>8 DEF Ending, EmitTerminal, SinkFailsInLoop, SinkFailsAtEdge, Cleanup,
                      TerminalLast, Emitting
<1>9. CASE UNCHANGED vars
    BY <1>2, <1>9 DEF vars
<1> QED
    BY <1>3, <1>4, <1>5, <1>6, <1>7, <1>8, <1>9 DEF Next, Client, Engine, Over

-----------------------------------------------------------------------------
(* The inductive invariant and what follows from it.                       *)

\* The invariant holds before start_turn.
LEMMA InitInd == Init => IndInv
<1> SUFFICES ASSUME Init PROVE IndInv
    OBVIOUS
<1> USE AgentTurnAssumption DEF Init, Uses
<1>1. TypeOK
    BY InitTyped
<1>2. Lifetime /\ Position /\ Identity
    BY DEF Lifetime, NoLeftoverEntry, Position, Identity, RoundPCs, ToolPCs
<1>3. Mail /\ AcceptedOnce
    BY DEF Mail, AcceptedOnce, NoneExpected
<1>4. Dispatch /\ Progress /\ Results
    BY DEF Dispatch, Progress, Results, RoundPCs, ToolPCs
<1>5. Synthesis /\ Cleared
    BY DEF Synthesis, RoundBudget, Cleared, ToolPCs
<1>6. ManualCalls /\ TerminalLast
    BY DEF ManualCalls, ManualRunsNothing, NoAnswer, RoundPCs, ToolPCs, TerminalLast
<1> QED
    BY <1>1, <1>2, <1>3, <1>4, <1>5, <1>6 DEF IndInv, Core

\* Every step of start_turn, the client, the provider and the engine keeps it.
LEMMA StepInd == IndInv /\ [Next]_vars => IndInv'
<1>1. Core /\ [Next]_vars => Core'
    BY TypeOKStep, LifetimeStep, PositionStep, IdentityStep, MailStep, DispatchStep,
       ProgressStep, ResultsStep, ClearedStep DEF Core
<1> QED
    BY <1>1, SynthesisStep, AcceptedStep, ManualStep, TerminalStep DEF IndInv

\* Every reachable state of a turn satisfies the inductive invariant.
THEOREM Invariance == Spec => []IndInv
    BY InitInd, StepInd, PTL DEF Spec

\* Every variable keeps the shape of the data structure of AgentRuntime,
\* TurnEngine and RuntimeBridge that it stands for.
THEOREM TypeCorrect == Spec => []TypeOK
<1>1. IndInv => TypeOK
    BY DEF IndInv, Core
<1> QED
    BY Invariance, <1>1, PTL

\* With a provider that gives every tool use an id of its own, no call that
\* the policy puts before a human is dispatched without an Allow that the
\* turn's owner gave to respond while that call was being processed.
THEOREM ConsentHolds == ASSUME ~ReuseIds PROVE Spec => []Consent
<1>1. IndInv => Consent
    BY ~ReuseIds DEF IndInv, Core, Cleared, Decided, Consent
<1> QED
    BY Invariance, <1>1, PTL

\* Even with repeated ids, a terminal call's reported result fits what
\* process_tool did with it: nothing undispatched is called run or unknown,
\* and a dispatched call carries the client's result for its id or
\* OutcomeUnknown.
THEOREM HonestResultHolds == Spec => []HonestResult
<1>1. IndInv => HonestResult
    BY DEF IndInv, Core, Results, Fits, HonestResult
<1> QED
    BY Invariance, <1>1, PTL

\* When the task is gone every proposed call has been finished.
THEOREM PairedHolds == Spec => []Paired
<1>1. ASSUME IndInv PROVE Paired
  <2> SUFFICES ASSUME pc = "done", ~sinkFailed, NEW n \in Uses
               PROVE  /\ stage[n] \in {"none", "finished"}
                      /\ n \in dispatched => stage[n] = "finished"
      BY DEF Paired
  <2>1. cur \in Nat /\ n \in Nat /\ n > 0
      BY <1>1, AgentTurnAssumption DEF IndInv, Core, TypeOK, Uses
  <2>2. n < cur \/ n = cur => stage[n] = "finished"
      BY <1>1, <2>1 DEF IndInv, Core, Progress, ToolPCs
  <2>3. n > cur => stage[n] = "none" /\ n \notin dispatched
      BY <1>1, <2>1 DEF IndInv, Core, Progress, Dispatch
  <2> QED
      BY <2>1, <2>2, <2>3
<1> QED
    BY Invariance, <1>1, PTL

\* respond accepts one response per kind and id, and the engine sees it once.
THEOREM AcceptedOnceHolds == Spec => []AcceptedOnce
<1>1. IndInv => AcceptedOnce
    BY DEF IndInv, Core
<1> QED
    BY Invariance, <1>1, PTL

\* The provider is asked at most round_cap + 1 times, the last time for the
\* final synthesis.
THEOREM RoundBudgetHolds == Spec => []RoundBudget
<1>1. IndInv => RoundBudget
    BY DEF IndInv, Core, Synthesis
<1> QED
    BY Invariance, <1>1, PTL

\* Manual mode, whatever the provider answers and through the legacy fence
\* too, dispatches nothing but commands that an unattended task lists.
THEOREM ManualRunsNothingHolds == Spec => []ManualRunsNothing
<1>1. IndInv => ManualRunsNothing
    BY DEF IndInv, ManualCalls
<1> QED
    BY Invariance, <1>1, PTL

\* CleanupGuard leaves no entry behind, whichever of start_turn's last step
\* and the task's end comes first.
THEOREM NoLeftoverEntryHolds == Spec => []NoLeftoverEntry
<1>1. IndInv => NoLeftoverEntry
    BY DEF IndInv, Core, Lifetime
<1> QED
    BY Invariance, <1>1, PTL

\* Nothing is proposed, asked for or dispatched once the final synthesis was
\* forced.
THEOREM FinalSynthesisHolds == Spec => FinalSynthesisRunsNothing
<1>1. ASSUME IndInv, [Next]_vars
      PROVE  [finalSynthesis => UNCHANGED <<stage, dispatched, tool>>]_vars
  <2> SUFFICES ASSUME finalSynthesis, Next PROVE UNCHANGED <<stage, dispatched, tool>>
      BY <1>1
  <2>1. pc \notin ToolPCs
      BY <1>1 DEF IndInv, Core, Synthesis
  <2> USE <2>1 DEF ToolPCs, outsideVars, toolVars, useVars
  <2>2. CASE Starting
      BY <2>2 DEF Starting, StartRefused, StartInsert, StartSpawn, StartAttach
  <2>3. CASE Client
      BY <2>3 DEF Client, Respond, Cancel, RevokeWorkspace
  <2>4. CASE Provider
      BY <2>4 DEF Provider, ProviderAnswers, ProviderLacksTools, ProviderFails,
                  ProviderPanics, EndLoop
  <2>5. CASE Rounds
      BY <2>5 DEF Rounds, EmitTurnStarted, LoopCancelled, LoopRound, EmitMessageStarted,
                  EmitFallback, RoundCancelled, RoundWithoutTools,
                  RoundViolatesSynthesis, RoundAdmitsTools, SynthesisViolated, EndLoop
  <2>6. ~Tools
      BY DEF Tools, ProposeRefused, ProposeBackend, ProposeAllowed, ProposeForApproval,
             EmitApprovalRequested, SkipMismatch, ApprovalAllowed, ApprovalDenied,
             ApprovalCancelled, ApprovalTimesOut, EmitExecutionRequested,
             EmitToolStarted, ExecResult, ExecUnknown, EmitFileStarted, FileReturns,
             BackendReturns, FinishAborting, FinishTool
  <2>7. CASE Ending
      BY <2>7 DEF Ending, EmitTerminal, SinkFailsInLoop, SinkFailsAtEdge, Cleanup
  <2>8. CASE Over
      BY <2>8 DEF Over, vars
  <2> QED
      BY <2>2, <2>3, <2>4, <2>5, <2>6, <2>7, <2>8 DEF Next, Engine
<1> QED
    BY Invariance, <1>1, PTL DEF Spec, FinalSynthesisRunsNothing

=============================================================================
