------------------------ MODULE QuerySessionsProofs ------------------------
(***************************************************************************)
(* Proofs about QuerySessions, for every value of its constants.           *)
(***************************************************************************)
EXTENDS QuerySessions, FiniteSetTheorems, TLAPS

-----------------------------------------------------------------------------
(* Keys, scopes and what the registry operations change.                   *)

SessionScope(s) == [kind |-> "session", of |-> s]
Flight          == <<exec, keyOf, lock, active>>
SessionMap      == <<conn, swept, parentOf, entry, ticket, child>>

\* A key names a scope; a session scope is determined by its session.
LEMMA KeyScope ==
    ASSUME NEW k \in Keys
    PROVE  /\ k[1] \in Scopes
           /\ k[1].kind \in {"main", "meta", "session"}
           /\ k[1].kind = "session" => k[1].of \in Sessions /\ k[1] = SessionScope(k[1].of)
           /\ k[1].kind # "session" => k[1].of \in Conns
<1>1. k[1] \in Scopes
    BY DEF Keys
<1>2. CASE k[1] \in [kind: {"main", "meta"}, of: Conns]
    BY <1>1, <1>2
<1>3. CASE k[1] \in [kind: {"session"}, of: Sessions]
    BY <1>1, <1>3 DEF SessionScope
<1> QED
    BY <1>1, <1>2, <1>3 DEF Scopes

\* The executions that a scope's cancellation reaches.
LEMMA ReachedByScope ==
    ASSUME TypeOK, NEW scs
    PROVE  /\ ActiveOf(scs) \subseteq Execs
           /\ \A k \in Keys : k[1] \in scs /\ active[k] # NoExec => active[k] \in ActiveOf(scs)
    BY DEF TypeOK, ActiveOf

\* What the steps of connections, sessions and cancel calls leave alone.
LEMMA FlightFrame ==
    ASSUME ConnStep \/ SessionStep \/ CancelStep \/ UNCHANGED vars
    PROVE  UNCHANGED Flight
<1>1. CASE ConnStep
    BY <1>1 DEF ConnStep, Connect, RemoveConn, SweepSessions, CloseMain, AbandonRemove,
                registry, execVars, Flight
<1>2. CASE SessionStep
  <2>1. ASSUME NEW s \in Sessions, NEW c \in Conns, Reserve(s, c)
        PROVE  UNCHANGED Flight
      BY <2>1 DEF Reserve, registry, execVars, Flight
  <2>2. ASSUME NEW s \in Sessions,
               \/ ForkSession(s) \/ OpenFails(s) \/ Activate(s)
               \/ Touch(s) \/ CloseSession(s) \/ Retire(s) \/ CloseChild(s)
        PROVE  UNCHANGED Flight
      BY <2>2 DEF ForkSession, OpenFails, Activate, Touch, CloseSession, Retire, CloseChild,
                  registry, execVars, Flight
  <2>3. CASE Tick \/ ReapExpired
      BY <2>3 DEF Tick, ReapExpired, registry, execVars, Flight
  <2> QED
      BY <1>2, <2>1, <2>2, <2>3 DEF SessionStep
<1>3. CASE CancelStep
    BY <1>3 DEF CancelStep, CancelEnd, CancelBegin, EarlyExpires, registry, execVars, Flight
<1>4. CASE UNCHANGED vars
    BY <1>4 DEF vars, registry, execVars, Flight
<1> QED
    BY <1>1, <1>2, <1>3, <1>4

\* What executions and cancel calls leave alone.
LEMMA SessionFrame ==
    ASSUME ExecStep \/ CancelStep \/ UNCHANGED vars
    PROVE  UNCHANGED SessionMap
<1>1. CASE ExecStep
    BY <1>1 DEF ExecStep, Acquire, RunOnConnection, LockOperation, StopWaiting, Deadline,
                DriverReturns, Abandon, DropGuard, connVars, sessionVars, SessionMap
<1>2. CASE CancelStep
    BY <1>2 DEF CancelStep, CancelEnd, CancelBegin, EarlyExpires, connVars, sessionVars,
                SessionMap
<1>3. CASE UNCHANGED vars
    BY <1>3 DEF vars, connVars, sessionVars, SessionMap
<1> QED
    BY <1>1, <1>2, <1>3

\* What connections leave alone of the sessions.
LEMMA ConnFrame ==
    ASSUME ConnStep
    PROVE  UNCHANGED <<parentOf, age, ticket, child, canceling>>
    BY DEF ConnStep, Connect, RemoveConn, SweepSessions, CloseMain, AbandonRemove, sessionVars

\* What sessions leave alone of the connections.
LEMMA ConnsKept ==
    ASSUME SessionStep
    PROVE  UNCHANGED <<conn, swept, canceling>>
<1>1. ASSUME NEW s \in Sessions, NEW c \in Conns, Reserve(s, c)
      PROVE  UNCHANGED <<conn, swept, canceling>>
    BY <1>1 DEF Reserve, connVars
<1>2. ASSUME NEW s \in Sessions,
             \/ ForkSession(s) \/ OpenFails(s) \/ Activate(s)
             \/ Touch(s) \/ CloseSession(s) \/ Retire(s) \/ CloseChild(s)
      PROVE  UNCHANGED <<conn, swept, canceling>>
    BY <1>2 DEF ForkSession, OpenFails, Activate, Touch, CloseSession, Retire, CloseChild,
                connVars
<1>3. CASE Tick \/ ReapExpired
    BY <1>3 DEF Tick, ReapExpired, connVars
<1> QED
    BY <1>1, <1>2, <1>3 DEF SessionStep

-----------------------------------------------------------------------------
(* Type correctness.                                                       *)

\* The maps start empty and of their types.
LEMMA InitTyped == Init => TypeOK
    BY QuerySessionsAssumption DEF Init, TypeOK

\* Renewing a lease keeps ages within it.
LEMMA TouchedTyped ==
    ASSUME TypeOK, NEW k \in Keys
    PROVE  Touched(k[1]) \in [Sessions -> 0 .. Lease]
<1>1. CASE k[1].kind = "session"
  <2>1. k[1].of \in Sessions
      BY <1>1, KeyScope
  <2>2. PICK s \in Sessions : s = k[1].of
      BY <2>1
  <2>3. Touched(k[1]) = [age EXCEPT ![s] = 0]
      BY <1>1, <2>2 DEF Touched
  <2> QED
      BY <2>3, QuerySessionsAssumption DEF TypeOK
<1>2. CASE k[1].kind # "session"
    BY <1>2 DEF Touched, TypeOK
<1> QED
    BY <1>1, <1>2

\* connect and remove keep the types.
LEMMA ConnTyped ==
    ASSUME TypeOK, ConnStep
    PROVE  TypeOK'
<1> USE QuerySessionsAssumption
<1>1. ASSUME NEW c \in Conns, Connect(c) \/ CloseMain(c) \/ AbandonRemove(c)
      PROVE  TypeOK'
    BY <1>1 DEF TypeOK, Connect, CloseMain, AbandonRemove, sessionVars, registry, execVars
<1>2. ASSUME NEW c \in Conns, RemoveConn(c)
      PROVE  TypeOK'
    BY <1>2, ReachedByScope DEF TypeOK, RemoveConn, CancelScopes, sessionVars, execVars
<1>3. ASSUME NEW c \in Conns, SweepSessions(c)
      PROVE  TypeOK'
    BY <1>3 DEF TypeOK, SweepSessions, registry, execVars
<1> QED
    BY <1>1, <1>2, <1>3 DEF ConnStep

\* Opening, renewing, closing and reaping sessions keep the types.
LEMMA SessionTyped ==
    ASSUME TypeOK, SessionStep
    PROVE  TypeOK'
<1> USE QuerySessionsAssumption
<1>1. ASSUME NEW s \in Sessions, NEW c \in Conns, Reserve(s, c)
      PROVE  TypeOK'
    BY <1>1 DEF TypeOK, Reserve, connVars, registry, execVars
<1>2. ASSUME NEW s \in Sessions, ForkSession(s) \/ OpenFails(s) \/ CloseSession(s) \/ CloseChild(s)
      PROVE  TypeOK'
    BY <1>2 DEF TypeOK, ForkSession, OpenFails, CloseSession, CloseChild, connVars, registry,
                execVars
<1>3. ASSUME NEW s \in Sessions, Activate(s)
      PROVE  TypeOK'
    BY <1>3 DEF TypeOK, Activate, connVars, registry, execVars
<1>4. ASSUME NEW s \in Sessions, Touch(s)
      PROVE  TypeOK'
    BY <1>4 DEF TypeOK, Touch, connVars, registry, execVars
<1>5. ASSUME NEW s \in Sessions, Retire(s)
      PROVE  TypeOK'
    BY <1>5, ReachedByScope DEF TypeOK, Retire, CancelScopes, connVars, execVars
<1>6. CASE Tick
  <2>1. \A s \in Sessions : age[s] < Lease => age[s] + 1 \in 0 .. Lease
      BY DEF TypeOK
  <2> QED
      BY <1>6, <2>1 DEF TypeOK, Tick, connVars, registry, execVars
<1>7. CASE ReapExpired
    BY <1>7 DEF TypeOK, ReapExpired, connVars, registry, execVars
<1> QED
    BY <1>1, <1>2, <1>3, <1>4, <1>5, <1>6, <1>7 DEF SessionStep

\* acquire, the statement's life and the drop of its guard keep the types.
LEMMA ExecTyped ==
    ASSUME TypeOK, Held, ExecStep
    PROVE  TypeOK'
<1> USE QuerySessionsAssumption
<1>1. ASSUME NEW e \in Execs, NEW k \in Keys, Acquire(e, k)
      PROVE  TypeOK'
  <2>1. age' \in [Sessions -> 0 .. Lease]
      BY <1>1, TouchedTyped DEF Acquire
  <2>2. /\ active' \in [Keys -> Execs \cup {NoExec}]
        /\ early' \subseteq Keys /\ stopped' \subseteq Execs
      BY <1>1 DEF TypeOK, Acquire, Register
  <2> QED
      BY <1>1, <2>1, <2>2 DEF TypeOK, Acquire, connVars
<1>2. ASSUME NEW e \in Execs,
             \/ RunOnConnection(e) \/ LockOperation(e) \/ StopWaiting(e) \/ Deadline(e)
             \/ DriverReturns(e) \/ Abandon(e) \/ DropGuard(e)
      PROVE  TypeOK'
    BY <1>2 DEF TypeOK, RunOnConnection, LockOperation, StopWaiting, Deadline, DriverReturns,
                Abandon, DropGuard, Unlocked, Held, connVars, sessionVars, registry, execVars
<1> QED
    BY <1>1, <1>2 DEF ExecStep

\* Cancel calls keep the types.
LEMMA CancelTyped ==
    ASSUME TypeOK, CancelStep
    PROVE  TypeOK'
<1> USE QuerySessionsAssumption
<1>1. ASSUME NEW k \in Keys, CancelBegin(k)
      PROVE  TypeOK'
    BY <1>1, TouchedTyped DEF TypeOK, CancelBegin, connVars, registry, execVars
<1>2. ASSUME NEW k \in Keys, EarlyExpires(k)
      PROVE  TypeOK'
    BY <1>2 DEF TypeOK, EarlyExpires, connVars, sessionVars, execVars
<1>3. CASE CancelEnd
    BY <1>3 DEF TypeOK, CancelEnd, connVars, sessionVars, execVars
<1> QED
    BY <1>1, <1>2, <1>3 DEF CancelStep

\* Every step keeps the types.
LEMMA StepTyped ==
    ASSUME TypeOK, Held, [Next]_vars
    PROVE  TypeOK'
<1>1. CASE UNCHANGED vars
    BY <1>1 DEF TypeOK, vars, connVars, sessionVars, registry, execVars
<1> QED
    BY <1>1, ConnTyped, SessionTyped, ExecTyped, CancelTyped DEF Next

-----------------------------------------------------------------------------
(* Guards and locks.                                                       *)

\* An execution's guard and key come and go together.
LEMMA HeldStep ==
    ASSUME TypeOK, Held, [Next]_vars
    PROVE  Held'
<1>1. CASE UNCHANGED Flight
    BY <1>1 DEF Held, Flight
<1>2. ASSUME NEW e \in Execs, NEW k \in Keys, Acquire(e, k)
      PROVE  Held'
    BY <1>2, QuerySessionsAssumption DEF TypeOK, Held, Acquire
<1>3. ASSUME NEW e \in Execs,
             \/ RunOnConnection(e) \/ LockOperation(e) \/ StopWaiting(e) \/ Deadline(e)
             \/ DriverReturns(e) \/ Abandon(e) \/ DropGuard(e)
      PROVE  Held'
    BY <1>3 DEF TypeOK, Held, RunOnConnection, LockOperation, StopWaiting, Deadline,
                DriverReturns, Abandon, DropGuard, execVars
<1> QED
    BY <1>1, <1>2, <1>3, FlightFrame DEF Next, ExecStep

\* The registry lists exactly the executions in flight: register refuses a
\* key in use, and the drop of a guard removes its own entry only.
LEMMA GuardsExactStep ==
    ASSUME TypeOK, Held, GuardsExact, [Next]_vars
    PROVE  GuardsExact'
<1>1. CASE UNCHANGED Flight
    BY <1>1 DEF GuardsExact, Flight
<1>2. ASSUME NEW e \in Execs, NEW k \in Keys, Acquire(e, k)
      PROVE  GuardsExact'
    BY <1>2, QuerySessionsAssumption DEF TypeOK, GuardsExact, Acquire, Register
<1>3. ASSUME NEW e \in Execs,
             \/ RunOnConnection(e) \/ LockOperation(e) \/ StopWaiting(e) \/ Deadline(e)
             \/ DriverReturns(e) \/ Abandon(e)
      PROVE  GuardsExact'
    BY <1>3 DEF TypeOK, GuardsExact, RunOnConnection, LockOperation, StopWaiting, Deadline,
                DriverReturns, Abandon, registry, execVars
<1>4. ASSUME NEW e \in Execs, DropGuard(e)
      PROVE  GuardsExact'
  <2>1. keyOf[e] \in Keys /\ active[keyOf[e]] = e
      BY <1>4 DEF TypeOK, Held, GuardsExact, DropGuard
  <2> QED
      BY <1>4, <2>1, QuerySessionsAssumption DEF TypeOK, GuardsExact, DropGuard
<1> QED
    BY <1>1, <1>2, <1>3, <1>4, FlightFrame DEF Next, ExecStep

\* The operation lock is with the running statement of its session.
LEMMA LockExactStep ==
    ASSUME TypeOK, Held, LockExact, [Next]_vars
    PROVE  LockExact'
<1> SUFFICES \A f \in Execs : \A s \in Sessions :
                 lock'[s] = f <=> exec'[f] = "running" /\ keyOf'[f][1] = SessionScope(s)
    BY DEF LockExact, SessionScope
<1> USE QuerySessionsAssumption
<1>0. \A f \in Execs : \A s \in Sessions :
          lock[s] = f <=> exec[f] = "running" /\ keyOf[f][1] = SessionScope(s)
    BY DEF LockExact, SessionScope
<1>1. CASE UNCHANGED Flight
    BY <1>0, <1>1 DEF Flight
<1>2. ASSUME NEW e \in Execs, NEW k \in Keys, Acquire(e, k)
      PROVE  \A f \in Execs : \A s \in Sessions :
                 lock'[s] = f <=> exec'[f] = "running" /\ keyOf'[f][1] = SessionScope(s)
    BY <1>0, <1>2 DEF TypeOK, Acquire
<1>3. ASSUME NEW e \in Execs, RunOnConnection(e)
      PROVE  \A f \in Execs : \A s \in Sessions :
                 lock'[s] = f <=> exec'[f] = "running" /\ keyOf'[f][1] = SessionScope(s)
  <2>1. \A s \in Sessions : keyOf[e][1] # SessionScope(s)
      BY <1>3 DEF RunOnConnection, SessionScope
  <2> QED
      BY <1>0, <1>3, <2>1 DEF TypeOK, RunOnConnection
<1>4. ASSUME NEW e \in Execs, LockOperation(e)
      PROVE  \A f \in Execs : \A s \in Sessions :
                 lock'[s] = f <=> exec'[f] = "running" /\ keyOf'[f][1] = SessionScope(s)
  <2>1. keyOf[e] \in Keys
      BY <1>4 DEF TypeOK, Held, LockOperation
  <2>2. /\ keyOf[e][1].of \in Sessions
        /\ keyOf[e][1] = SessionScope(keyOf[e][1].of)
      BY <1>4, <2>1, KeyScope DEF LockOperation
  <2>3. \A s, t : SessionScope(s) = SessionScope(t) => s = t
      BY DEF SessionScope
  <2> QED
      BY <1>0, <1>4, <2>2, <2>3 DEF TypeOK, LockOperation
<1>5. ASSUME NEW e \in Execs, DriverReturns(e) \/ Abandon(e)
      PROVE  \A f \in Execs : \A s \in Sessions :
                 lock'[s] = f <=> exec'[f] = "running" /\ keyOf'[f][1] = SessionScope(s)
    BY <1>0, <1>5 DEF TypeOK, DriverReturns, Abandon, Unlocked
<1>6. ASSUME NEW e \in Execs, StopWaiting(e) \/ Deadline(e) \/ DropGuard(e)
      PROVE  \A f \in Execs : \A s \in Sessions :
                 lock'[s] = f <=> exec'[f] = "running" /\ keyOf'[f][1] = SessionScope(s)
    BY <1>0, <1>6 DEF TypeOK, StopWaiting, Deadline, DropGuard, execVars
<1> QED
    BY <1>1, <1>2, <1>3, <1>4, <1>5, <1>6, FlightFrame DEF Next, ExecStep

-----------------------------------------------------------------------------
(* Tickets, and the sessions that executions run in.                       *)

\* A ready session's ticket is used up: only activate makes it ready.
LEMMA TicketsStep ==
    ASSUME TypeOK, Tickets, [Next]_vars
    PROVE  Tickets'
<1>1. CASE UNCHANGED SessionMap
    BY <1>1 DEF Tickets, SessionMap
<1>2. CASE ConnStep
    BY <1>2 DEF TypeOK, Tickets, InMap, ConnStep, Connect, RemoveConn, SweepSessions, CloseMain,
                AbandonRemove, sessionVars
<1>3. ASSUME NEW s \in Sessions, NEW c \in Conns, Reserve(s, c)
      PROVE  Tickets'
    BY <1>3 DEF TypeOK, Tickets, Reserve
<1>4. ASSUME NEW s \in Sessions,
             \/ ForkSession(s) \/ OpenFails(s) \/ Activate(s)
             \/ Touch(s) \/ CloseSession(s) \/ Retire(s) \/ CloseChild(s)
      PROVE  Tickets'
    BY <1>4 DEF TypeOK, Tickets, InMap, ForkSession, OpenFails, Activate, Touch, CloseSession,
                Retire, CloseChild
<1>5. CASE Tick \/ ReapExpired
    BY <1>5 DEF TypeOK, Tickets, InMap, Tick, ReapExpired
<1> QED
    BY <1>1, <1>2, <1>3, <1>4, <1>5, SessionFrame DEF Next, SessionStep

\* A ticket that is used up stays so: session ids are not used again.
LEMMA DoneStays ==
    ASSUME TypeOK, Tickets, [Next]_vars, NEW t \in Sessions, ticket[t] = "done"
    PROVE  ticket'[t] = "done"
<1>1. CASE UNCHANGED ticket
    BY <1>1
<1>2. ASSUME NEW s \in Sessions, NEW c \in Conns, Reserve(s, c)
      PROVE  ticket'[t] = "done"
    BY <1>2 DEF TypeOK, Tickets, Reserve
<1>3. ASSUME NEW s \in Sessions, ForkSession(s) \/ OpenFails(s) \/ Activate(s)
      PROVE  ticket'[t] = "done"
    BY <1>3 DEF TypeOK, ForkSession, OpenFails, Activate
<1>4. ASSUME NEW s \in Sessions, Touch(s) \/ CloseSession(s) \/ Retire(s) \/ CloseChild(s)
      PROVE  ticket'[t] = "done"
    BY <1>4 DEF Touch, CloseSession, Retire, CloseChild
<1>5. CASE Tick \/ ReapExpired
    BY <1>5 DEF Tick, ReapExpired
<1> QED
    BY <1>1, <1>2, <1>3, <1>4, <1>5, ConnFrame, SessionFrame
       DEF Next, SessionStep, SessionMap

\* acquire finds only sessions that are ready, hence opened.
LEMMA OpenedStep ==
    ASSUME TypeOK, Held, Opened, Tickets, [Next]_vars
    PROVE  Opened'
<1> USE QuerySessionsAssumption
<1>1. ASSUME NEW f \in Execs, exec[f] # "idle", keyOf[f][1].kind = "session"
      PROVE  ticket'[keyOf[f][1].of] = "done"
  <2>1. keyOf[f] \in Keys
      BY <1>1 DEF TypeOK, Held
  <2>2. keyOf[f][1].of \in Sessions
      BY <1>1, <2>1, KeyScope
  <2> QED
      BY <1>1, <2>2, DoneStays DEF Opened
<1>2. CASE UNCHANGED Flight
    BY <1>1, <1>2 DEF Opened, Flight
<1>3. ASSUME NEW e \in Execs, NEW k \in Keys, Acquire(e, k)
      PROVE  Opened'
  <2>1. k[1].kind = "session" => ticket'[k[1].of] = "done"
      BY <1>3, KeyScope DEF Tickets, Acquire, Reachable, Usable
  <2>2. \A f \in Execs : IF f = e THEN keyOf'[f] = k
                                  ELSE keyOf'[f] = keyOf[f] /\ exec'[f] = exec[f]
      BY <1>3 DEF TypeOK, Acquire
  <2> QED
      BY <1>1, <2>1, <2>2 DEF Opened
<1>4. ASSUME NEW e \in Execs,
             \/ RunOnConnection(e) \/ LockOperation(e) \/ StopWaiting(e) \/ Deadline(e)
             \/ DriverReturns(e) \/ Abandon(e)
      PROVE  Opened'
  <2>1. \A f \in Execs : keyOf'[f] = keyOf[f] /\ (exec'[f] # "idle" => exec[f] # "idle")
      BY <1>4 DEF TypeOK, RunOnConnection, LockOperation, StopWaiting, Deadline, DriverReturns,
                  Abandon, execVars
  <2> QED
      BY <1>1, <2>1 DEF Opened
<1>5. ASSUME NEW e \in Execs, DropGuard(e)
      PROVE  Opened'
  <2>1. \A f \in Execs : exec'[f] # "idle" => exec[f] # "idle" /\ keyOf'[f] = keyOf[f]
      BY <1>5 DEF TypeOK, DropGuard
  <2> QED
      BY <1>1, <2>1 DEF Opened
<1> QED
    BY <1>2, <1>3, <1>4, <1>5, FlightFrame DEF Next, ExecStep

\* A cancellation stays pending only until its execution arrives.
LEMMA PendingStep ==
    ASSUME TypeOK, Held, Pending, [Next]_vars
    PROVE  Pending'
<1>1. CASE UNCHANGED active /\ early' \subseteq early
    BY <1>1 DEF Pending
<1>2. CASE ConnStep
    BY <1>1, <1>2 DEF ConnStep, Connect, RemoveConn, SweepSessions, CloseMain, AbandonRemove,
                      CancelScopes, registry
<1>3. ASSUME NEW s \in Sessions, NEW c \in Conns, Reserve(s, c)
      PROVE  Pending'
    BY <1>1, <1>3 DEF Reserve, registry
<1>4. ASSUME NEW s \in Sessions,
             \/ ForkSession(s) \/ OpenFails(s) \/ Activate(s)
             \/ Touch(s) \/ CloseSession(s) \/ Retire(s) \/ CloseChild(s)
      PROVE  Pending'
    BY <1>1, <1>4 DEF ForkSession, OpenFails, Activate, Touch, CloseSession, Retire, CloseChild,
                      CancelScopes, registry
<1>5. CASE Tick \/ ReapExpired \/ UNCHANGED vars
    BY <1>1, <1>5 DEF Tick, ReapExpired, vars, registry
<1>6. ASSUME NEW e \in Execs, NEW k \in Keys, Acquire(e, k)
      PROVE  Pending'
    BY <1>6 DEF TypeOK, Pending, Acquire, Register
<1>7. ASSUME NEW e \in Execs,
             \/ RunOnConnection(e) \/ LockOperation(e) \/ StopWaiting(e) \/ Deadline(e)
             \/ DriverReturns(e) \/ Abandon(e)
      PROVE  Pending'
    BY <1>1, <1>7 DEF RunOnConnection, LockOperation, StopWaiting, Deadline, DriverReturns,
                      Abandon, registry
<1>8. ASSUME NEW e \in Execs, DropGuard(e)
      PROVE  Pending'
    BY <1>8 DEF TypeOK, Pending, DropGuard
<1>9. CASE CancelStep
    BY <1>9 DEF TypeOK, Pending, CancelStep, CancelEnd, CancelBegin, EarlyExpires, registry
<1> QED
    BY <1>2, <1>3, <1>4, <1>5, <1>6, <1>7, <1>8, <1>9 DEF Next, SessionStep, ExecStep

-----------------------------------------------------------------------------
(* Nothing outlives what it runs on.                                       *)

\* Only the drop of its own guard takes a cancelled token away.
LEMMA StoppedKept ==
    ASSUME [Next]_vars, NEW f \in Execs, f \in stopped
    PROVE  f \in stopped' \/ DropGuard(f)
<1>1. CASE ConnStep
    BY <1>1 DEF ConnStep, Connect, RemoveConn, SweepSessions, CloseMain, AbandonRemove,
                CancelScopes
<1>2. ASSUME NEW s \in Sessions, NEW c \in Conns, Reserve(s, c)
      PROVE  f \in stopped'
    BY <1>2 DEF Reserve
<1>3. ASSUME NEW s \in Sessions,
             \/ ForkSession(s) \/ OpenFails(s) \/ Activate(s)
             \/ Touch(s) \/ CloseSession(s) \/ Retire(s) \/ CloseChild(s)
      PROVE  f \in stopped'
    BY <1>3 DEF ForkSession, OpenFails, Activate, Touch, CloseSession, Retire, CloseChild,
                CancelScopes
<1>4. CASE Tick \/ ReapExpired \/ UNCHANGED vars
    BY <1>4 DEF Tick, ReapExpired, vars
<1>5. ASSUME NEW e \in Execs, NEW k \in Keys, Acquire(e, k)
      PROVE  f \in stopped'
    BY <1>5 DEF Acquire, Register
<1>6. ASSUME NEW e \in Execs,
             \/ RunOnConnection(e) \/ LockOperation(e) \/ StopWaiting(e) \/ Deadline(e)
             \/ DriverReturns(e) \/ Abandon(e)
      PROVE  f \in stopped'
    BY <1>6 DEF RunOnConnection, LockOperation, StopWaiting, Deadline, DriverReturns, Abandon
<1>7. ASSUME NEW e \in Execs, DropGuard(e), f # e
      PROVE  f \in stopped'
    BY <1>7 DEF DropGuard
<1>8. CASE CancelStep
    BY <1>8 DEF CancelStep, CancelEnd, CancelBegin, EarlyExpires
<1> QED
    BY <1>1, <1>2, <1>3, <1>4, <1>5, <1>6, <1>7, <1>8 DEF Next, SessionStep, ExecStep

\* An execution in flight was so before the step, in the same key, unless the
\* step acquires it.
LEMMA InFlight ==
    ASSUME TypeOK, [Next]_vars, NEW f \in Execs, exec'[f] # "idle"
    PROVE  \/ exec[f] # "idle" /\ keyOf'[f] = keyOf[f]
           \/ keyOf'[f] \in Keys /\ Acquire(f, keyOf'[f])
<1>1. CASE UNCHANGED Flight
    BY <1>1 DEF Flight
<1>2. ASSUME NEW e \in Execs, NEW k \in Keys, Acquire(e, k)
      PROVE  IF f = e THEN keyOf'[f] = k ELSE exec'[f] = exec[f] /\ keyOf'[f] = keyOf[f]
    BY <1>2 DEF TypeOK, Acquire
<1>3. ASSUME NEW e \in Execs,
             \/ RunOnConnection(e) \/ LockOperation(e) \/ StopWaiting(e) \/ Deadline(e)
             \/ DriverReturns(e) \/ Abandon(e) \/ DropGuard(e)
      PROVE  exec[f] # "idle" /\ keyOf'[f] = keyOf[f]
    BY <1>3 DEF TypeOK, RunOnConnection, LockOperation, StopWaiting, Deadline, DriverReturns,
                Abandon, DropGuard, execVars
<1> QED
    BY <1>1, <1>2, <1>3, FlightFrame DEF Next, ExecStep

\* What an execution under key k runs on has been taken away.
Lost(k) == \/ k[1].kind # "session" /\ conn[k[1].of] # "open"
           \/ k[1].kind = "session" /\ entry[k[1].of] = "gone"

\* remove and retire cancel every execution of what they take away, and no
\* other step takes it away: an open that fails has no execution yet.
LEMMA LossCancels ==
    ASSUME TypeOK, GuardsExact, Opened, [Next]_vars,
           NEW f \in Execs, NEW k \in Keys, exec[f] # "idle", keyOf[f] = k,
           ~Lost(k), Lost(k)'
    PROVE  f \in stopped'
<1>1. active[k] = f
    BY DEF GuardsExact
<1>2. ~UNCHANGED SessionMap
    BY DEF Lost, SessionMap
<1>3. CASE ConnStep
  <2>1. PICK c \in Conns : \/ Connect(c) \/ RemoveConn(c) \/ SweepSessions(c)
                           \/ CloseMain(c) \/ AbandonRemove(c)
      BY <1>3 DEF ConnStep
  <2>2. k[1].kind = "session" => entry[k[1].of] # "gone" /\ k[1].of \in Sessions
      BY KeyScope DEF Lost
  <2>3. k[1].kind # "session"
      BY <2>1, <2>2 DEF Lost, TypeOK, Connect, RemoveConn, SweepSessions, CloseMain,
                        AbandonRemove, InMap, sessionVars
  <2>4. k[1].kind \in {"main", "meta"} /\ k[1].of \in Conns /\ k[1] \in Scopes
      BY <2>3, KeyScope
  <2>5. conn[k[1].of] = "open" /\ conn'[k[1].of] # "open"
      BY <2>3 DEF Lost
  <2>6. RemoveConn(c) /\ k[1].of = c
      BY <2>1, <2>4, <2>5 DEF TypeOK, Connect, RemoveConn, SweepSessions, CloseMain,
                              AbandonRemove
  <2>7. k[1] \in [kind: {"main", "meta"}, of: {c}]
    <3>1. k[1] \in [kind: {"main", "meta"}, of: Conns]
        BY <2>3, <2>4 DEF Scopes
    <3> QED
        BY <2>6, <3>1
  <2> QED
      BY <1>1, <2>6, <2>7, QuerySessionsAssumption DEF RemoveConn, CancelScopes, ActiveOf
<1>4. CASE SessionStep
  <2>1. UNCHANGED conn
      BY <1>4, ConnsKept
  <2>2. /\ k[1].kind = "session" /\ k[1].of \in Sessions
        /\ entry[k[1].of] # "gone" /\ entry'[k[1].of] = "gone"
        /\ k[1] = SessionScope(k[1].of)
      BY <2>1, KeyScope DEF Lost
  <2>3. ticket[k[1].of] = "done"
      BY <2>2 DEF Opened
  <2>4. Retire(k[1].of)
    <3>1. ASSUME NEW s \in Sessions, NEW c \in Conns, Reserve(s, c)
          PROVE  FALSE
        BY <2>2, <3>1 DEF TypeOK, Reserve
    <3>2. ASSUME NEW s \in Sessions,
                 \/ ForkSession(s) \/ OpenFails(s) \/ Activate(s)
                 \/ Touch(s) \/ CloseSession(s) \/ CloseChild(s)
          PROVE  FALSE
        BY <2>2, <2>3, <3>2 DEF TypeOK, ForkSession, OpenFails, Activate, Touch, CloseSession,
                                CloseChild
    <3>3. ASSUME NEW s \in Sessions, Retire(s), s # k[1].of
          PROVE  FALSE
        BY <2>2, <3>3 DEF TypeOK, Retire
    <3>4. CASE Tick \/ ReapExpired
        BY <2>2, <3>4 DEF TypeOK, Tick, ReapExpired
    <3> QED
        BY <1>4, <2>2, <3>1, <3>2, <3>3, <3>4 DEF SessionStep
  <2> QED
      BY <1>1, <2>2, <2>4, QuerySessionsAssumption
         DEF Retire, CancelScopes, ActiveOf, SessionScope
<1> QED
    BY <1>2, <1>3, <1>4, SessionFrame DEF Next

\* An execution is acquired only on what is there, and what is taken away
\* later cancels it: no execution is left over without a cancelled token.
LEMMA NoOrphanStep ==
    ASSUME TypeOK, Held, GuardsExact, Opened, NoOrphan, [Next]_vars
    PROVE  NoOrphan'
<1>1. TypeOK' /\ Held'
    BY StepTyped, HeldStep
<1>2. ASSUME NEW f \in Execs, NEW k \in Keys, exec'[f] # "idle", keyOf'[f] = k, Lost(k)'
      PROVE  f \in stopped'
  <2>1. CASE exec[f] # "idle" /\ keyOf[f] = k
    <3>1. CASE Lost(k)
      <4>1. f \in stopped
          BY <2>1, <3>1 DEF NoOrphan, Lost
      <4>2. ~DropGuard(f)
          BY <1>2 DEF TypeOK, DropGuard
      <4> QED
          BY <4>1, <4>2, StoppedKept
    <3> QED
        BY <1>2, <2>1, <3>1, LossCancels
  <2>2. ~Acquire(f, k)
    <3>1. ASSUME Acquire(f, k)
          PROVE  UNCHANGED <<conn, entry>> /\ ~Lost(k)
        BY <3>1 DEF Lost, Acquire, Reachable, Parent, Usable, connVars
    <3> QED
        BY <1>2, <3>1 DEF Lost
  <2> QED
      BY <1>2, <2>1, <2>2, InFlight
<1> QED
    BY <1>1, <1>2 DEF NoOrphan, Held, TypeOK, Lost

\* close_parent empties the map of the connection's sessions, and reserve
\* needs a connection that is open.
LEMMA NoSessionAfterSweepStep ==
    ASSUME TypeOK, NoSessionAfterSweep, [Next]_vars
    PROVE  NoSessionAfterSweep'
<1>1. CASE UNCHANGED SessionMap
    BY <1>1 DEF NoSessionAfterSweep, InMap, SessionMap
<1>2. CASE ConnStep
  <2>1. PICK c \in Conns : \/ Connect(c) \/ RemoveConn(c) \/ SweepSessions(c)
                           \/ CloseMain(c) \/ AbandonRemove(c)
      BY <1>2 DEF ConnStep
  <2>2. CASE SweepSessions(c)
      BY <2>2 DEF TypeOK, NoSessionAfterSweep, InMap, SweepSessions
  <2> QED
      BY <2>1, <2>2 DEF TypeOK, NoSessionAfterSweep, InMap, Connect, RemoveConn, CloseMain,
                        AbandonRemove, sessionVars
<1>3. ASSUME NEW s \in Sessions, NEW c \in Conns, Reserve(s, c)
      PROVE  NoSessionAfterSweep'
    BY <1>3 DEF TypeOK, NoSessionAfterSweep, InMap, Reserve, connVars
<1>4. ASSUME NEW s \in Sessions,
             \/ ForkSession(s) \/ OpenFails(s) \/ Activate(s)
             \/ Touch(s) \/ CloseSession(s) \/ Retire(s) \/ CloseChild(s)
      PROVE  NoSessionAfterSweep'
    BY <1>4 DEF TypeOK, NoSessionAfterSweep, InMap, ForkSession, OpenFails, Activate, Touch,
                CloseSession, Retire, CloseChild, connVars
<1>5. CASE Tick \/ ReapExpired
    BY <1>5 DEF TypeOK, NoSessionAfterSweep, InMap, Tick, ReapExpired, connVars
<1> QED
    BY <1>1, <1>2, <1>3, <1>4, <1>5, SessionFrame DEF Next, SessionStep

-----------------------------------------------------------------------------
(* The theorems.                                                           *)

\* The invariant holds in the empty maps a process starts with.
LEMMA InitQueryInv == Init => QueryInv
    BY QuerySessionsAssumption, InitTyped
       DEF Init, QueryInv, Held, Opened, Tickets, Pending, GuardsExact, LockExact, NoOrphan,
           NoSessionAfterSweep, InMap

\* The invariant is inductive: no step of a connection, session, execution or
\* cancel call breaks it.
LEMMA StepQueryInv ==
    ASSUME QueryInv, [Next]_vars
    PROVE  QueryInv'
<1> USE DEF QueryInv
<1>1. TypeOK' /\ Held'
    BY StepTyped, HeldStep
<1>2. Opened' /\ Tickets' /\ Pending'
    BY OpenedStep, TicketsStep, PendingStep
<1>3. GuardsExact' /\ LockExact'
    BY GuardsExactStep, LockExactStep
<1>4. NoOrphan' /\ NoSessionAfterSweep'
    BY NoOrphanStep, NoSessionAfterSweepStep
<1> QED
    BY <1>1, <1>2, <1>3, <1>4

\* QueryInv holds in every reachable state: ConnManager, the session map and
\* the registry agree for any number of connections, sessions and executions.
THEOREM QueryInvariance == Spec => []QueryInv
    BY InitQueryInv, StepQueryInv, PTL DEF Spec

\* The registry lists exactly the executions whose guard is alive.
THEOREM GuardsExactHolds == Spec => []GuardsExact
<1>1. QueryInv => GuardsExact
    BY DEF QueryInv
<1> QED
    BY <1>1, QueryInvariance, PTL

\* Every execution whose connection or session was taken away is cancelled.
THEOREM NoOrphanHolds == Spec => []NoOrphan
<1>1. QueryInv => NoOrphan
    BY DEF QueryInv
<1> QED
    BY <1>1, QueryInvariance, PTL

\* An operation lock is held by the running statement of its session.
THEOREM LockExactHolds == Spec => []LockExact
<1>1. QueryInv => LockExact
    BY DEF QueryInv
<1> QED
    BY <1>1, QueryInvariance, PTL

\* No session of a connection is in the map after close_parent.
THEOREM NoSessionAfterSweepHolds == Spec => []NoSessionAfterSweep
<1>1. QueryInv => NoSessionAfterSweep
    BY DEF QueryInv
<1> QED
    BY <1>1, QueryInvariance, PTL

\* An accepted cancellation is not lost: register heeds a pending one, and
\* only the drop of its own guard ends a cancelled execution.
THEOREM CancelKeptHolds == Spec => CancelKept
<1>1. ASSUME QueryInv, QueryInv', [Next]_vars, NEW k \in Keys, active'[k] # NoExec
      PROVE  /\ k \in early => active'[k] \in stopped' /\ k \notin early'
             /\ active[k] = active'[k] /\ active[k] \in stopped => active[k] \in stopped'
  <2>1. PICK e \in Execs : active'[k] = e
      BY <1>1 DEF QueryInv, TypeOK
  <2>2. exec'[e] # "idle" /\ keyOf'[e] = k
      BY <1>1, <2>1 DEF QueryInv, GuardsExact
  <2>3. ASSUME k \in early
        PROVE  e \in stopped' /\ k \notin early'
    <3>1. active[k] # e
        BY <1>1, <2>3, QuerySessionsAssumption DEF QueryInv, Pending
    <3>2. Acquire(e, k)
        BY <1>1, <2>2, <3>1, InFlight DEF QueryInv, GuardsExact
    <3> QED
        BY <2>3, <3>2 DEF Acquire, Register
  <2>4. ASSUME e \in stopped
        PROVE  e \in stopped'
    <3>1. ~DropGuard(e)
        BY <1>1, <2>2 DEF QueryInv, TypeOK, DropGuard
    <3> QED
        BY <1>1, <2>4, <3>1, StoppedKept
  <2> QED
      BY <2>1, <2>3, <2>4
<1>2. QueryInv /\ QueryInv' /\ [Next]_vars =>
          [\A k \in Keys : active'[k] # NoExec =>
              /\ k \in early => active'[k] \in stopped' /\ k \notin early'
              /\ active[k] = active'[k] /\ active[k] \in stopped
                     => active[k] \in stopped']_vars
    BY <1>1
<1> QED
    BY <1>2, QueryInvariance, PTL DEF Spec, CancelKept

-----------------------------------------------------------------------------
(* The limits.                                                             *)

Running(sc)   == {k \in Keys : k[1] = sc /\ active[k] # NoExec}
SessionsOf(c) == {s \in Sessions : InMap(s) /\ parentOf[s] = c}
InMapAll      == {s \in Sessions : InMap(s)}

\* A set that is below its limit, and gains one element, keeps the limit.
LEMMA WithinLimit ==
    ASSUME NEW S, IsFiniteSet(S), NEW T, NEW limit \in Nat,
           \/ T \subseteq S /\ Cardinality(S) <= limit
           \/ \E x : T \subseteq S \cup {x} /\ Cardinality(S) < limit
    PROVE  Cardinality(T) <= limit
<1>1. CASE T \subseteq S /\ Cardinality(S) <= limit
    BY <1>1, FS_Subset, FS_CardinalityType
<1>2. ASSUME NEW x, T \subseteq S \cup {x}, Cardinality(S) < limit
      PROVE  Cardinality(T) <= limit
  <2>1. IsFiniteSet(S \cup {x}) /\ Cardinality(S \cup {x}) <= limit
    <3>1. Cardinality(S) \in Nat
        BY FS_CardinalityType
    <3>2. /\ IsFiniteSet(S \cup {x})
          /\ Cardinality(S \cup {x}) = IF x \in S THEN Cardinality(S) ELSE Cardinality(S) + 1
        BY FS_AddElement
    <3> QED
        BY <1>2, <3>1, <3>2
  <2>2. Cardinality(T) <= Cardinality(S \cup {x}) /\ IsFiniteSet(T)
      BY <1>2, <2>1, FS_Subset
  <2> QED
      BY <2>1, <2>2, FS_CardinalityType
<1> QED
    BY <1>1, <1>2

\* The sets that are limited are finite.
LEMMA Finite ==
    ASSUME TypeOK
    PROVE  /\ \A sc : IsFiniteSet(Running(sc))
           /\ \A c : IsFiniteSet(SessionsOf(c))
           /\ IsFiniteSet(InMapAll) /\ IsFiniteSet(early)
    BY QuerySessionsAssumption, FS_Subset DEF TypeOK, Running, SessionsOf, InMapAll

\* Only acquire adds to the registry.
LEMMA RegistryGrows ==
    ASSUME TypeOK, Held, [Next]_vars
    PROVE  \/ \A k \in Keys : active'[k] # NoExec => active[k] # NoExec
           \/ \E e \in Execs : \E k \in Keys : Acquire(e, k)
<1>1. CASE UNCHANGED active
    BY <1>1
<1>2. ASSUME NEW e \in Execs, DropGuard(e)
      PROVE  \A k \in Keys : active'[k] # NoExec => active[k] # NoExec
    BY <1>2 DEF TypeOK, DropGuard
<1>3. ASSUME NEW e \in Execs,
             \/ RunOnConnection(e) \/ LockOperation(e) \/ StopWaiting(e) \/ Deadline(e)
             \/ DriverReturns(e) \/ Abandon(e)
      PROVE  UNCHANGED active
    BY <1>3 DEF RunOnConnection, LockOperation, StopWaiting, Deadline, DriverReturns, Abandon,
                registry
<1> QED
    BY <1>1, <1>2, <1>3, FlightFrame DEF Next, ExecStep, Flight

\* Only reserve adds to the session map.
LEMMA MapGrows ==
    ASSUME TypeOK, Tickets, [Next]_vars
    PROVE  \/ \A s \in Sessions : InMap(s)' => InMap(s) /\ parentOf'[s] = parentOf[s]
           \/ \E s \in Sessions : \E c \in Conns : Reserve(s, c)
<1>1. CASE UNCHANGED SessionMap
    BY <1>1 DEF InMap, SessionMap
<1>2. CASE ConnStep
    BY <1>2 DEF TypeOK, InMap, ConnStep, Connect, RemoveConn, SweepSessions, CloseMain,
                AbandonRemove, sessionVars
<1>3. ASSUME NEW s \in Sessions,
             \/ ForkSession(s) \/ OpenFails(s) \/ Activate(s)
             \/ Touch(s) \/ CloseSession(s) \/ Retire(s) \/ CloseChild(s)
      PROVE  \A t \in Sessions : InMap(t)' => InMap(t) /\ parentOf'[t] = parentOf[t]
    BY <1>3 DEF TypeOK, InMap, ForkSession, OpenFails, Activate, Touch, CloseSession, Retire,
                CloseChild
<1>4. CASE Tick \/ ReapExpired
    BY <1>4 DEF TypeOK, InMap, Tick, ReapExpired
<1> QED
    BY <1>1, <1>2, <1>3, <1>4, SessionFrame DEF Next, SessionStep

\* Only a cancel call adds to the pending cancellations.
LEMMA EarlyGrows ==
    ASSUME [Next]_vars
    PROVE  early' \subseteq early \/ CancelEnd
<1>1. CASE ConnStep
    BY <1>1 DEF ConnStep, Connect, RemoveConn, SweepSessions, CloseMain, AbandonRemove,
                CancelScopes, registry
<1>2. ASSUME NEW s \in Sessions, NEW c \in Conns, Reserve(s, c)
      PROVE  early' \subseteq early
    BY <1>2 DEF Reserve, registry
<1>3. ASSUME NEW s \in Sessions,
             \/ ForkSession(s) \/ OpenFails(s) \/ Activate(s)
             \/ Touch(s) \/ CloseSession(s) \/ Retire(s) \/ CloseChild(s)
      PROVE  early' \subseteq early
    BY <1>3 DEF ForkSession, OpenFails, Activate, Touch, CloseSession, Retire, CloseChild,
                CancelScopes, registry
<1>4. CASE Tick \/ ReapExpired \/ UNCHANGED vars
    BY <1>4 DEF Tick, ReapExpired, vars, registry
<1>5. CASE ExecStep
    BY <1>5 DEF ExecStep, Acquire, Register, RunOnConnection, LockOperation, StopWaiting,
                Deadline, DriverReturns, Abandon, DropGuard, registry
<1>6. CASE CancelStep
    BY <1>6 DEF CancelStep, CancelBegin, EarlyExpires, registry
<1> QED
    BY <1>1, <1>2, <1>3, <1>4, <1>5, <1>6 DEF Next, SessionStep

\* Each step keeps the limits: what adds an element checked the limit first.
LEMMA QuotasStep ==
    ASSUME QueryInv, Quotas, [Next]_vars
    PROVE  Quotas'
<1> USE QuerySessionsAssumption
<1>1. TypeOK /\ Held /\ Tickets
    BY DEF QueryInv
<1>2. ASSUME NEW sc \in Scopes
      PROVE  Cardinality(Running(sc)') <= MaxActive
  <2>1. IsFiniteSet(Running(sc)) /\ Cardinality(Running(sc)) <= MaxActive
      BY <1>1, Finite DEF Quotas, Running
  <2>2. CASE Running(sc)' \subseteq Running(sc)
      BY <2>1, <2>2, WithinLimit
  <2>3. CASE \A k \in Keys : active'[k] # NoExec => active[k] # NoExec
      BY <2>2, <2>3 DEF Running
  <2>4. ASSUME NEW e \in Execs, NEW k \in Keys, Acquire(e, k)
        PROVE  Cardinality(Running(sc)') <= MaxActive
    <3>1. active' = [active EXCEPT ![k] = e] /\ Cardinality(Running(k[1])) < MaxActive
        BY <2>4 DEF Acquire, Register, Running
    <3>2. CASE k[1] = sc
      <4>1. Running(sc)' \subseteq Running(sc) \cup {k}
          BY <1>1, <3>1 DEF TypeOK, Running
      <4> QED
          BY <2>1, <3>1, <3>2, <4>1, WithinLimit
    <3>3. CASE k[1] # sc
      <4>1. Running(sc)' \subseteq Running(sc)
          BY <1>1, <3>1, <3>3 DEF TypeOK, Running
      <4> QED
          BY <2>2, <4>1
    <3> QED
        BY <3>2, <3>3
  <2> QED
      BY <1>1, <2>3, <2>4, RegistryGrows
<1>3. IsFiniteSet(InMapAll) /\ \A c \in Conns : IsFiniteSet(SessionsOf(c))
    BY <1>1, Finite
<1>4. ASSUME \A s \in Sessions : InMap(s)' => InMap(s) /\ parentOf'[s] = parentOf[s]
      PROVE  /\ Cardinality(InMapAll') <= MaxTotal
             /\ \A c \in Conns : Cardinality(SessionsOf(c)') <= MaxPerConn
  <2>1. InMapAll' \subseteq InMapAll /\ \A c \in Conns : SessionsOf(c)' \subseteq SessionsOf(c)
      BY <1>4 DEF InMapAll, SessionsOf
  <2>2. /\ Cardinality(InMapAll) <= MaxTotal
        /\ \A c \in Conns : Cardinality(SessionsOf(c)) <= MaxPerConn
      BY DEF Quotas, InMapAll, SessionsOf
  <2>3. Cardinality(InMapAll') <= MaxTotal
      BY <1>3, <2>1, <2>2, WithinLimit
  <2>4. \A c \in Conns : Cardinality(SessionsOf(c)') <= MaxPerConn
      BY <1>3, <2>1, <2>2, WithinLimit
  <2> QED
      BY <2>3, <2>4
<1>5. ASSUME NEW s \in Sessions, NEW d \in Conns, Reserve(s, d)
      PROVE  /\ Cardinality(InMapAll') <= MaxTotal
             /\ \A c \in Conns : Cardinality(SessionsOf(c)') <= MaxPerConn
  <2>1. /\ Cardinality(InMapAll) < MaxTotal
        /\ Cardinality(SessionsOf(d)) < MaxPerConn
        /\ \A c \in Conns : Cardinality(SessionsOf(c)) <= MaxPerConn
      BY <1>5 DEF Quotas, Reserve, InMapAll, SessionsOf
  <2>2. InMapAll' \subseteq InMapAll \cup {s}
      BY <1>1, <1>5 DEF TypeOK, Reserve, InMapAll, InMap
  <2>3. SessionsOf(d)' \subseteq SessionsOf(d) \cup {s}
      BY <1>1, <1>5 DEF TypeOK, Reserve, SessionsOf, InMap
  <2>4. \A c \in Conns : c # d => SessionsOf(c)' \subseteq SessionsOf(c)
      BY <1>1, <1>5 DEF TypeOK, Reserve, SessionsOf, InMap
  <2>5. Cardinality(InMapAll') <= MaxTotal
      BY <1>3, <2>1, <2>2, WithinLimit
  <2>6. Cardinality(SessionsOf(d)') <= MaxPerConn
      BY <1>3, <2>1, <2>3, WithinLimit
  <2>7. \A c \in Conns : c # d => Cardinality(SessionsOf(c)') <= MaxPerConn
      BY <1>3, <2>1, <2>4, WithinLimit
  <2> QED
      BY <2>5, <2>6, <2>7
<1>6. /\ Cardinality(InMapAll') <= MaxTotal
      /\ \A c \in Conns : Cardinality(SessionsOf(c)') <= MaxPerConn
    BY <1>1, <1>4, <1>5, MapGrows
<1>7. Cardinality(early') <= MaxEarly
  <2>1. IsFiniteSet(early) /\ Cardinality(early) <= MaxEarly
      BY <1>1, Finite DEF Quotas
  <2>2. CASE early' \subseteq early
      BY <2>1, <2>2, WithinLimit
  <2>3. CASE CancelEnd /\ Cardinality(early) < MaxEarly
    <3>1. early' \subseteq early \cup {canceling}
        BY <2>3 DEF CancelEnd
    <3> QED
        BY <2>1, <2>3, <3>1, WithinLimit
  <2>4. CancelEnd /\ ~(Cardinality(early) < MaxEarly) => early' \subseteq early
      BY DEF CancelEnd
  <2> QED
      BY <2>2, <2>3, <2>4, EarlyGrows
<1> QED
    BY <1>2, <1>6, <1>7 DEF Quotas, Running, SessionsOf, InMapAll

\* The limits hold in the empty maps.
LEMMA InitQuotas == Init => Quotas
<1> SUFFICES ASSUME Init
             PROVE  Quotas
    OBVIOUS
<1>1. \A sc \in Scopes : {k \in Keys : k[1] = sc /\ active[k] # NoExec} = {}
    BY DEF Init
<1>2. /\ {s \in Sessions : InMap(s)} = {}
      /\ \A c \in Conns : {s \in Sessions : InMap(s) /\ parentOf[s] = c} = {}
      /\ early = {}
    BY DEF Init, InMap
<1>3. Cardinality({}) = 0
    BY FS_EmptySet
<1>4. \A sc \in Scopes :
          Cardinality({k \in Keys : k[1] = sc /\ active[k] # NoExec}) <= MaxActive
    BY <1>1, <1>3, QuerySessionsAssumption
<1>5. /\ Cardinality({s \in Sessions : InMap(s)}) <= MaxTotal
      /\ Cardinality(early) <= MaxEarly
    BY <1>2, <1>3, QuerySessionsAssumption
<1>6. \A c \in Conns : Cardinality({s \in Sessions : InMap(s) /\ parentOf[s] = c}) <= MaxPerConn
    BY <1>2, <1>3, QuerySessionsAssumption
<1> QED
    BY <1>4, <1>5, <1>6 DEF Quotas

\* The limits of executions, sessions and pending cancellations are never
\* exceeded, whatever they are.
THEOREM QuotasHold == Spec => []Quotas
    BY InitQuotas, QuotasStep, QueryInvariance, PTL DEF Spec

=====================================
