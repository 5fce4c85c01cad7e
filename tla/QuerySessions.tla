---------------------------- MODULE QuerySessions ----------------------------
(***************************************************************************)
(* Database connections of Catio: ConnManager, the leased SQL sessions it  *)
(* opens on a connection (QuerySessions) and the registry of running       *)
(* executions through which they are cancelled (RunningQueries).           *)
(*                                                                         *)
(* Three locks protect the state: the connection map, the session map and  *)
(* the execution registry.  An action is one critical section; where the   *)
(* code leaves the session map's lock before it takes the registry's, the  *)
(* two are separate actions (Retire, CancelBegin and CancelEnd).           *)
(*                                                                         *)
(* An execution is a call of query_in_session, query_page_in_session,      *)
(* query_session_transaction or search_metadata: they share acquire, the   *)
(* operation lock and the guard.  What a statement does to the database    *)
(* and the text of its result are left out.                                *)
(***************************************************************************)
EXTENDS Naturals, FiniteSets

CONSTANTS
    Conns,        \* connection ids, each used once: CONN_IDS is monotonic
    Sessions,     \* session ids, each used once: 128 random bits
    Execs,        \* calls in flight, each able to run again
    Ids,          \* execution ids chosen by the clients
    NoConn, NoExec, NoKey,
    MaxActive,    \* executions per connection or session, 32 in the code
    MaxEarly,     \* pending cancellations, 256 in the code
    MaxPerConn,   \* sessions of one connection, 16 in the code
    MaxTotal,     \* sessions of the process, 128 in the code
    Lease         \* age at which a session expires, 30 minutes in the code

\* What the first part of a registry key names: a connection, its metadata
\* search or a session.
Scopes == [kind: {"main", "meta"}, of: Conns] \cup [kind: {"session"}, of: Sessions]
Keys   == Scopes \X Ids

ASSUME QuerySessionsAssumption ==
    /\ NoConn \notin Conns /\ NoExec \notin Execs /\ NoKey \notin Keys
    /\ IsFiniteSet(Sessions) /\ IsFiniteSet(Keys)
    /\ MaxActive \in Nat /\ MaxEarly \in Nat
    /\ MaxPerConn \in Nat /\ MaxTotal \in Nat
    /\ Lease \in Nat \ {0}

VARIABLES
    conn,         \* life of a connection and of ConnManager::remove
    swept,        \* the sessions that remove waits for
    parentOf, entry, age,   \* the session map: parent, presence, idle time
    ticket,       \* progress of open_query_session
    child,        \* the forked physical session
    active, early,          \* the execution registry
    exec, keyOf,  \* progress of an execution and its guard's key
    stopped,      \* executions whose token is cancelled
    lock,         \* the holder of a session's operation lock
    canceling     \* the key a cancel call looks up, with the map locked

connVars    == <<conn, swept>>
sessionVars == <<parentOf, entry, age, ticket, child>>
registry    == <<active, early>>
execVars    == <<exec, keyOf, lock>>
vars        == <<connVars, sessionVars, registry, execVars, stopped, canceling>>

InMap(s)  == entry[s] \in {"opening", "ready"}
Usable(s) == entry[s] = "ready" /\ age[s] < Lease
Parent(sc) == IF sc.kind = "session" THEN parentOf[sc.of] ELSE sc.of

\* The connection map is free: a cancel call holds it from its lookup on.
ConnsFree == canceling = NoKey

\* The connection exists and, for a session, the session is usable.
Reachable(sc) ==
    /\ \E c \in Conns : c = Parent(sc) /\ conn[c] = "open"
    /\ sc.kind = "session" => Usable(sc.of)

\* Looking a session up renews its lease.
Touched(sc) ==
    IF sc.kind = "session" THEN [age EXCEPT ![sc.of] = 0] ELSE age

-----------------------------------------------------------------------------
Init ==
    /\ conn = [c \in Conns |-> "new"]
    /\ swept = [c \in Conns |-> {}]
    /\ parentOf = [s \in Sessions |-> NoConn]
    /\ entry = [s \in Sessions |-> "none"]
    /\ age = [s \in Sessions |-> 0]
    /\ ticket = [s \in Sessions |-> "none"]
    /\ child = [s \in Sessions |-> "none"]
    /\ active = [k \in Keys |-> NoExec]
    /\ early = {}
    /\ exec = [e \in Execs |-> "idle"]
    /\ keyOf = [e \in Execs |-> NoKey]
    /\ stopped = {}
    /\ lock = [s \in Sessions |-> NoExec]
    /\ canceling = NoKey

-----------------------------------------------------------------------------
(* The execution registry.                                                 *)

ActiveOf(scs) == {active[k] : k \in {k \in Keys : k[1] \in scs}} \ {NoExec}

\* cancel_connection, for the scopes scs.
CancelScopes(scs) ==
    /\ stopped' = stopped \cup ActiveOf(scs)
    /\ early' = {k \in early : k[1] \notin scs}

\* Mutant: a pending cancellation is left to the next execution.
RegisterUnheeded(e, k) ==
    /\ active[k] = NoExec
    /\ Cardinality({j \in Keys : j[1] = k[1] /\ active[j] # NoExec}) < MaxActive
    /\ active' = [active EXCEPT ![k] = e]
    /\ UNCHANGED <<early, stopped>>

\* register, where it succeeds.
Register(e, k) ==
    /\ active[k] = NoExec
    /\ Cardinality({j \in Keys : j[1] = k[1] /\ active[j] # NoExec}) < MaxActive
    /\ active' = [active EXCEPT ![k] = e]
    /\ early' = early \ {k}
    /\ stopped' = IF k \in early THEN stopped \cup {e} ELSE stopped

\* A pending cancellation is forgotten after a minute.
EarlyExpires(k) ==
    /\ k \in early
    /\ early' = early \ {k}
    /\ UNCHANGED <<connVars, sessionVars, active, execVars, stopped, canceling>>

-----------------------------------------------------------------------------
(* Connections.                                                            *)

Connect(c) ==
    /\ conn[c] = "new"
    /\ ConnsFree
    /\ conn' = [conn EXCEPT ![c] = "open"]
    /\ UNCHANGED <<swept, sessionVars, registry, execVars, stopped, canceling>>

\* remove, its part under the map's lock.
RemoveConn(c) ==
    /\ conn[c] = "open"
    /\ ConnsFree
    /\ conn' = [conn EXCEPT ![c] = "sweeping"]
    /\ CancelScopes([kind: {"main", "meta"}, of: {c}])
    /\ UNCHANGED <<swept, sessionVars, active, execVars, canceling>>

\* close_parent takes the connection's sessions out of the map.
SweepSessions(c) ==
    /\ conn[c] = "sweeping"
    /\ conn' = [conn EXCEPT ![c] = "awaiting"]
    /\ LET mine == {s \in Sessions : InMap(s) /\ parentOf[s] = c} IN
          /\ swept' = [swept EXCEPT ![c] = mine]
          /\ entry' = [s \in Sessions |-> IF s \in mine THEN "removed" ELSE entry[s]]
    /\ UNCHANGED <<parentOf, age, ticket, child, registry, execVars, stopped, canceling>>

\* The cleanup of every swept session has ended: remove closes the driver.
CloseMain(c) ==
    /\ conn[c] = "awaiting"
    /\ \A s \in swept[c] : entry[s] = "gone" /\ child[s] # "closing"
    /\ conn' = [conn EXCEPT ![c] = "closed"]
    /\ UNCHANGED <<swept, sessionVars, registry, execVars, stopped, canceling>>

\* The caller of remove goes away while it waits: its cleanup tasks go on,
\* but the driver is dropped without close.
AbandonRemove(c) ==
    /\ conn[c] = "awaiting"
    /\ \A s \in swept[c] : entry[s] = "gone"
    /\ \E s \in swept[c] : child[s] = "closing"
    /\ conn' = [conn EXCEPT ![c] = "dropped"]
    /\ UNCHANGED <<swept, sessionVars, registry, execVars, stopped, canceling>>

-----------------------------------------------------------------------------
(* Sessions: open_query_session.                                           *)

\* Mutant: the connection is looked up, but its map is not kept locked.
ReserveUnlocked(s, c) ==
    /\ conn[c] # "new"
    /\ entry[s] = "none"
    /\ Cardinality({t \in Sessions : InMap(t)}) < MaxTotal
    /\ Cardinality({t \in Sessions : InMap(t) /\ parentOf[t] = c}) < MaxPerConn
    /\ parentOf' = [parentOf EXCEPT ![s] = c]
    /\ entry' = [entry EXCEPT ![s] = "opening"]
    /\ ticket' = [ticket EXCEPT ![s] = "forking"]
    /\ UNCHANGED <<connVars, age, child, registry, execVars, stopped, canceling>>

\* Mutant: the quota of a connection is off by one.
ReserveOneMore(s, c) ==
    /\ conn[c] = "open"
    /\ ConnsFree
    /\ entry[s] = "none"
    /\ Cardinality({t \in Sessions : InMap(t)}) < MaxTotal
    /\ Cardinality({t \in Sessions : InMap(t) /\ parentOf[t] = c}) <= MaxPerConn
    /\ parentOf' = [parentOf EXCEPT ![s] = c]
    /\ entry' = [entry EXCEPT ![s] = "opening"]
    /\ ticket' = [ticket EXCEPT ![s] = "forking"]
    /\ UNCHANGED <<connVars, age, child, registry, execVars, stopped, canceling>>

\* reserve, with the connection map locked by the caller.
Reserve(s, c) ==
    /\ conn[c] = "open"
    /\ ConnsFree
    /\ entry[s] = "none"
    /\ Cardinality({t \in Sessions : InMap(t)}) < MaxTotal
    /\ Cardinality({t \in Sessions : InMap(t) /\ parentOf[t] = c}) < MaxPerConn
    /\ parentOf' = [parentOf EXCEPT ![s] = c]
    /\ entry' = [entry EXCEPT ![s] = "opening"]
    /\ ticket' = [ticket EXCEPT ![s] = "forking"]
    /\ UNCHANGED <<connVars, age, child, registry, execVars, stopped, canceling>>

ForkSession(s) ==
    /\ ticket[s] = "forking"
    /\ ticket' = [ticket EXCEPT ![s] = "forked"]
    /\ child' = [child EXCEPT ![s] = "open"]
    /\ UNCHANGED <<connVars, parentOf, entry, age, registry, execVars, stopped, canceling>>

\* The fork fails or takes 30 seconds, the ticket is cancelled, or the caller
\* goes away: dropping the ticket gives the slot back.
OpenFails(s) ==
    /\ ticket[s] = "forking"
    /\ ticket' = [ticket EXCEPT ![s] = "failed"]
    /\ entry' = [entry EXCEPT ![s] = IF InMap(s) THEN "gone" ELSE entry[s]]
    /\ UNCHANGED <<connVars, parentOf, age, child, registry, execVars, stopped, canceling>>

\* Mutant: a fork that comes too late is dropped without closing it.
ActivateLeaks(s) ==
    /\ ticket[s] = "forked"
    /\ IF InMap(s)
       THEN /\ entry' = [entry EXCEPT ![s] = "ready"]
            /\ ticket' = [ticket EXCEPT ![s] = "done"]
            /\ age' = [age EXCEPT ![s] = 0]
       ELSE /\ ticket' = [ticket EXCEPT ![s] = "failed"]
            /\ UNCHANGED <<entry, age>>
    /\ UNCHANGED <<connVars, parentOf, child, registry, execVars, stopped, canceling>>

\* activate: a ticket whose entry is gone closes what was forked for it.
Activate(s) ==
    /\ ticket[s] = "forked"
    /\ IF InMap(s)
       THEN /\ entry' = [entry EXCEPT ![s] = "ready"]
            /\ ticket' = [ticket EXCEPT ![s] = "done"]
            /\ age' = [age EXCEPT ![s] = 0]
            /\ UNCHANGED child
       ELSE /\ ticket' = [ticket EXCEPT ![s] = "failed"]
            /\ child' = [child EXCEPT ![s] = "closed"]
            /\ UNCHANGED <<entry, age>>
    /\ UNCHANGED <<connVars, parentOf, registry, execVars, stopped, canceling>>

-----------------------------------------------------------------------------
(* Sessions: lease, close, cleanup.                                        *)

\* Time passes for every session in the map.
Tick ==
    /\ \E s \in Sessions : InMap(s) /\ age[s] < Lease
    /\ age' = [s \in Sessions |-> IF InMap(s) /\ age[s] < Lease THEN age[s] + 1 ELSE age[s]]
    /\ UNCHANGED <<connVars, parentOf, entry, ticket, child, registry, execVars, stopped,
                   canceling>>

\* touch_query_session and query_session_status.
Touch(s) ==
    /\ ConnsFree
    /\ Reachable([kind |-> "session", of |-> s])
    /\ age[s] > 0
    /\ age' = [age EXCEPT ![s] = 0]
    /\ UNCHANGED <<connVars, parentOf, entry, ticket, child, registry, execVars, stopped,
                   canceling>>

\* close_query_session: the connection was seen earlier, without its lock.
CloseSession(s) ==
    /\ InMap(s)
    /\ entry' = [entry EXCEPT ![s] = "removed"]
    /\ UNCHANGED <<connVars, parentOf, age, ticket, child, registry, execVars, stopped,
                   canceling>>

\* Mutant: the reaper skips sessions that have an execution.
ReapIdle ==
    LET expired == {s \in Sessions : /\ InMap(s) /\ age[s] >= Lease
                                     /\ ActiveOf({[kind |-> "session", of |-> s]}) = {}}
    IN  /\ expired # {}
        /\ entry' = [s \in Sessions |-> IF s \in expired THEN "removed" ELSE entry[s]]
        /\ UNCHANGED <<connVars, parentOf, age, ticket, child, registry, execVars, stopped,
                       canceling>>

ReapExpired ==
    LET expired == {s \in Sessions : InMap(s) /\ age[s] >= Lease}
    IN  /\ expired # {}
        /\ entry' = [s \in Sessions |-> IF s \in expired THEN "removed" ELSE entry[s]]
        /\ UNCHANGED <<connVars, parentOf, age, ticket, child, registry, execVars, stopped,
                       canceling>>

\* Mutant: a session is closed without cancelling what runs in it.
RetireSilently(s) ==
    /\ entry[s] = "removed"
    /\ entry' = [entry EXCEPT ![s] = "gone"]
    /\ child' = [child EXCEPT ![s] = IF ticket[s] = "done" THEN "closing" ELSE child[s]]
    /\ UNCHANGED <<connVars, parentOf, age, ticket, registry, execVars, stopped, canceling>>

\* retire: cancel what runs in the session, then let a task close it.
Retire(s) ==
    /\ entry[s] = "removed"
    /\ entry' = [entry EXCEPT ![s] = "gone"]
    /\ CancelScopes({[kind |-> "session", of |-> s]})
    /\ child' = [child EXCEPT ![s] = IF ticket[s] = "done" THEN "closing" ELSE child[s]]
    /\ UNCHANGED <<connVars, parentOf, age, ticket, active, execVars, canceling>>

\* The task: close_query_session within 6 seconds, and close in any case.
CloseChild(s) ==
    /\ child[s] = "closing"
    /\ child' = [child EXCEPT ![s] = "closed"]
    /\ UNCHANGED <<connVars, parentOf, entry, age, ticket, registry, execVars, stopped,
                   canceling>>

-----------------------------------------------------------------------------
(* Executions.                                                             *)

\* Mutant: the session is looked up before its map is locked for the
\* registration.
AcquireLate(e, k) ==
    /\ exec[e] = "idle"
    /\ ConnsFree
    /\ \E c \in Conns : c = Parent(k[1]) /\ conn[c] = "open"
    /\ k[1].kind = "session" => ticket[k[1].of] = "done"
    /\ Register(e, k)
    /\ age' = Touched(k[1])
    /\ exec' = [exec EXCEPT ![e] = "start"]
    /\ keyOf' = [keyOf EXCEPT ![e] = k]
    /\ UNCHANGED <<connVars, parentOf, entry, ticket, child, lock, canceling>>

\* acquire, with the connection map and the session map locked.
Acquire(e, k) ==
    /\ exec[e] = "idle"
    /\ ConnsFree
    /\ Reachable(k[1])
    /\ Register(e, k)
    /\ age' = Touched(k[1])
    /\ exec' = [exec EXCEPT ![e] = "start"]
    /\ keyOf' = [keyOf EXCEPT ![e] = k]
    /\ UNCHANGED <<connVars, parentOf, entry, ticket, child, lock, canceling>>

\* On a connection a statement starts at once.
RunOnConnection(e) ==
    /\ exec[e] = "start"
    /\ keyOf[e][1].kind # "session"
    /\ exec' = [exec EXCEPT ![e] = "running"]
    /\ UNCHANGED <<connVars, sessionVars, registry, keyOf, lock, stopped, canceling>>

\* In a session it waits for the operation lock, or for its own token.
\* When both are ready select! takes either.
LockOperation(e) ==
    /\ exec[e] = "start"
    /\ keyOf[e][1].kind = "session"
    /\ lock[keyOf[e][1].of] = NoExec
    /\ lock' = [lock EXCEPT ![keyOf[e][1].of] = e]
    /\ exec' = [exec EXCEPT ![e] = "running"]
    /\ UNCHANGED <<connVars, sessionVars, registry, keyOf, stopped, canceling>>

StopWaiting(e) ==
    /\ exec[e] = "start"
    /\ keyOf[e][1].kind = "session"
    /\ e \in stopped
    /\ exec' = [exec EXCEPT ![e] = "dropping"]
    /\ UNCHANGED <<connVars, sessionVars, registry, keyOf, lock, stopped, canceling>>

\* The deadline of a query with a timeout cancels its token.
Deadline(e) ==
    /\ exec[e] \in {"start", "running"}
    /\ keyOf[e][1].kind # "meta"
    /\ stopped' = stopped \cup {e}
    /\ UNCHANGED <<connVars, sessionVars, registry, execVars, canceling>>

Unlocked(e) == [s \in Sessions |-> IF lock[s] = e THEN NoExec ELSE lock[s]]

\* Mutant: the operation lock stays with a finished statement.
DriverReturnsLocked(e) ==
    /\ exec[e] = "running"
    /\ exec' = [exec EXCEPT ![e] = "dropping"]
    /\ UNCHANGED <<connVars, sessionVars, registry, keyOf, lock, stopped, canceling>>

\* The driver returns a result, an error or Cancelled; the lock goes first,
\* the guard later.
DriverReturns(e) ==
    /\ exec[e] = "running"
    /\ exec' = [exec EXCEPT ![e] = "dropping"]
    /\ lock' = Unlocked(e)
    /\ UNCHANGED <<connVars, sessionVars, registry, keyOf, stopped, canceling>>

\* A timeout that is refused, or a caller that goes away.
Abandon(e) ==
    /\ exec[e] \in {"start", "running"}
    /\ exec' = [exec EXCEPT ![e] = "dropping"]
    /\ lock' = Unlocked(e)
    /\ UNCHANGED <<connVars, sessionVars, registry, keyOf, stopped, canceling>>

\* QueryGuard::drop.
DropGuard(e) ==
    /\ exec[e] = "dropping"
    /\ exec' = [exec EXCEPT ![e] = "idle"]
    /\ keyOf' = [keyOf EXCEPT ![e] = NoKey]
    /\ active' = [active EXCEPT ![keyOf[e]] = NoExec]
    /\ stopped' = stopped \ {e}
    /\ UNCHANGED <<connVars, sessionVars, early, lock, canceling>>

\* cancel_query_in_session and cancel_metadata look the target up with the
\* connection map locked...
CancelBegin(k) ==
    /\ ConnsFree
    /\ Reachable(k[1])
    /\ age' = Touched(k[1])
    /\ canceling' = k
    /\ UNCHANGED <<connVars, parentOf, entry, ticket, child, registry, execVars, stopped>>

\* ...and then cancel the execution, or remember the request for it if there
\* is room.
CancelEnd ==
    /\ canceling # NoKey
    /\ IF active[canceling] # NoExec
       THEN /\ stopped' = stopped \cup {active[canceling]}
            /\ UNCHANGED early
       ELSE /\ early' = IF Cardinality(early) < MaxEarly THEN early \cup {canceling}
                                                         ELSE early
            /\ UNCHANGED stopped
    /\ canceling' = NoKey
    /\ UNCHANGED <<connVars, sessionVars, active, execVars>>

-----------------------------------------------------------------------------
ConnStep ==
    \E c \in Conns : \/ Connect(c) \/ RemoveConn(c) \/ SweepSessions(c)
                     \/ CloseMain(c) \/ AbandonRemove(c)

SessionStep ==
    \/ \E s \in Sessions :
          \/ \E c \in Conns : Reserve(s, c)
          \/ ForkSession(s) \/ OpenFails(s) \/ Activate(s)
          \/ Touch(s) \/ CloseSession(s) \/ Retire(s) \/ CloseChild(s)
    \/ Tick \/ ReapExpired

ExecStep ==
    \E e \in Execs :
        \/ \E k \in Keys : Acquire(e, k)
        \/ RunOnConnection(e) \/ LockOperation(e) \/ StopWaiting(e)
        \/ Deadline(e) \/ DriverReturns(e) \/ Abandon(e) \/ DropGuard(e)

CancelStep == CancelEnd \/ \E k \in Keys : CancelBegin(k) \/ EarlyExpires(k)

Next == ConnStep \/ SessionStep \/ ExecStep \/ CancelStep

Spec == Init /\ [][Next]_vars

-----------------------------------------------------------------------------
(* Fairness: tasks that are ready are polled, and the reaper's and the     *)
(* open's timers fire.  No driver call has to return: the default of       *)
(* query_cancellable looks at the token only before it starts.             *)

Fairness ==
    /\ \A c \in Conns : WF_vars(SweepSessions(c)) /\ WF_vars(CloseMain(c))
    /\ \A s \in Sessions :
          /\ WF_vars(ForkSession(s) \/ OpenFails(s)) /\ WF_vars(Activate(s))
          /\ WF_vars(Retire(s)) /\ WF_vars(CloseChild(s))
    /\ \A e \in Execs :
          /\ WF_vars(RunOnConnection(e)) /\ WF_vars(LockOperation(e) \/ StopWaiting(e))
          /\ WF_vars(DropGuard(e))
    /\ WF_vars(ReapExpired)

\* A driver whose call is cancelled ends it.
DriversHeed == \A e \in Execs : WF_vars(e \in stopped /\ DriverReturns(e))

FairSpec == Spec /\ Fairness

-----------------------------------------------------------------------------
(* Properties.                                                             *)

\* Every variable keeps the shape of the map, token or lock it stands for.
TypeOK ==
    /\ conn \in [Conns -> {"new", "open", "sweeping", "awaiting", "closed", "dropped"}]
    /\ swept \in [Conns -> SUBSET Sessions]
    /\ parentOf \in [Sessions -> Conns \cup {NoConn}]
    /\ entry \in [Sessions -> {"none", "opening", "ready", "removed", "gone"}]
    /\ age \in [Sessions -> 0 .. Lease]
    /\ ticket \in [Sessions -> {"none", "forking", "forked", "done", "failed"}]
    /\ child \in [Sessions -> {"none", "open", "closing", "closed"}]
    /\ active \in [Keys -> Execs \cup {NoExec}]
    /\ early \subseteq Keys
    /\ exec \in [Execs -> {"idle", "start", "running", "dropping"}]
    /\ keyOf \in [Execs -> Keys \cup {NoKey}]
    /\ stopped \subseteq Execs
    /\ lock \in [Sessions -> Execs \cup {NoExec}]
    /\ canceling \in Keys \cup {NoKey}

\* The registry lists exactly the executions whose guard is alive, each under
\* its own key: no guard's drop removes another execution's entry.
GuardsExact ==
    \A e \in Execs : \A k \in Keys :
        active[k] = e <=> exec[e] # "idle" /\ keyOf[e] = k

\* Nothing outlives what it runs on: once remove or retire has passed, every
\* execution of that connection or session, whenever it was acquired, has a
\* cancelled token.  (query_session_registry.rs, acquire: "close cannot miss
\* an execution".)
NoOrphan ==
    \A e \in Execs : exec[e] # "idle" =>
        LET sc == keyOf[e][1] IN
            /\ sc.kind # "session" /\ conn[sc.of] # "open" => e \in stopped
            /\ sc.kind = "session" /\ entry[sc.of] = "gone" => e \in stopped

\* After close_parent no session of that connection is in the map or comes
\* into it, however far an open had got.
NoSessionAfterSweep ==
    \A s \in Sessions : \A c \in Conns :
        parentOf[s] = c /\ InMap(s) => conn[c] \in {"open", "sweeping"}

\* An operation lock is held by a statement that is running in that session,
\* and by no other: every way out of the statement gives it back.
LockExact ==
    \A e \in Execs : \A s \in Sessions :
        lock[s] = e <=> /\ exec[e] = "running"
                        /\ keyOf[e][1] = [kind |-> "session", of |-> s]

\* A guard is held as long as its execution is in flight.
Held == \A e \in Execs : exec[e] # "idle" <=> keyOf[e] # NoKey

\* An execution runs in a session only after the session was opened.
Opened ==
    \A e \in Execs :
        exec[e] # "idle" /\ keyOf[e][1].kind = "session" => ticket[keyOf[e][1].of] = "done"

\* A session is ready only with its ticket used up, a ticket has an entry, and
\* an entry that is opening has a ticket that may still fill it: an open that
\* ended has given its place back.
Tickets ==
    \A s \in Sessions : /\ entry[s] = "ready" => ticket[s] = "done"
                        /\ entry[s] = "none" => ticket[s] = "none"
                        /\ entry[s] = "opening" => ticket[s] \in {"forking", "forked"}

\* A cancellation is pending only for an execution that has not arrived.
Pending == \A k \in early : active[k] = NoExec

\* The invariant that every step preserves: the properties above with what
\* they rest on.
QueryInv ==
    /\ TypeOK /\ Held /\ Opened /\ Tickets /\ Pending
    /\ GuardsExact /\ LockExact /\ NoOrphan /\ NoSessionAfterSweep

\* The limits on executions, sessions and pending cancellations hold.
Quotas ==
    /\ \A sc \in Scopes :
          Cardinality({k \in Keys : k[1] = sc /\ active[k] # NoExec}) <= MaxActive
    /\ \A c \in Conns :
          Cardinality({s \in Sessions : InMap(s) /\ parentOf[s] = c}) <= MaxPerConn
    /\ Cardinality({s \in Sessions : InMap(s)}) <= MaxTotal
    /\ Cardinality(early) <= MaxEarly

\* A cancellation that was accepted is not lost: an execution that arrives
\* while its cancellation is pending starts cancelled and uses it up, and one
\* that is cancelled stays so as long as it is registered.
CancelKept ==
    [][\A k \in Keys : active'[k] # NoExec =>
          /\ k \in early => active'[k] \in stopped' /\ k \notin early'
          /\ active[k] = active'[k] /\ active[k] \in stopped => active[k] \in stopped']_vars

\* Disconnecting comes to rest for good, also when the caller of remove went
\* away: every session that was forked for the connection is closed, nothing
\* waits for an operation lock any more, and an execution still in flight is
\* one whose cancelled driver call has not returned, or whose guard is going.
\* Where the drivers heed their tokens every execution ends.
Using(c) == {e \in Execs : exec[e] # "idle" /\ Parent(keyOf[e][1]) = c}

Rest(c) ==
    /\ conn[c] \in {"closed", "dropped"}
    /\ \A s \in Sessions : parentOf[s] = c => child[s] \in {"none", "closed"}
    /\ \A e \in Using(c) : e \in stopped /\ exec[e] \in {"running", "dropping"}

DisconnectQuiesces ==
    \A c \in Conns :
        /\ (conn[c] = "sweeping") ~> []Rest(c)
        /\ DriversHeed => ((conn[c] = "sweeping") ~> (Using(c) = {}))

\* A lease that runs out is reclaimed, also under a running statement.
LeaseReclaimed ==
    \A s \in Sessions : (entry[s] = "ready" /\ age[s] = Lease) ~> (child[s] = "closed")

=============================================================================
