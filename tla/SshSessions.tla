---------------------------- MODULE SshSessions ----------------------------
(***************************************************************************)
(* One logical SSH session of Catio: the tables of ssh/manager.rs, the     *)
(* reconnection supervisor and the connect and disconnect commands of      *)
(* ssh/conn.rs, and the commands that work on a session: terminals         *)
(* (ssh/term.rs), the monitor (ssh/monitor.rs), file transfers             *)
(* (ssh/sftp.rs) and remote forwards (ssh/tunnel.rs).                      *)
(*                                                                         *)
(* The logical session outlives its physical connections: when one is lost *)
(* the supervisor puts the next in its place, while the commands wait in   *)
(* get_cancellable.  Only ssh_disconnect ends it.  Every task runs on a    *)
(* thread of its own, and a step here is what a task does between two      *)
(* points at which another can come between.  `lock` is the session's      *)
(* asynchronous mutex; whoever opens a channel holds it while the server   *)
(* has not answered, everybody else for a step.                            *)
(*                                                                         *)
(* Left out: what travels over a channel, authentication and host keys,    *)
(* the local and dynamic forwards, the writes to and resizes of a terminal *)
(* (they look the terminal up as term_close does and change no state).     *)
(***************************************************************************)
EXTENDS Integers, FiniteSets

CONSTANTS
    Ops,             \* the commands issued on the session
    Kind,            \* what each of them is
    Disconnectors,   \* the calls of ssh_disconnect
    NoOne,           \* no command
    Mixes,           \* bound: the sets of commands issued in one behaviour
    Heads,           \* "desktop" supervises its sessions, "web" does not
    MaxConns         \* bound: physical connections made

Kinds == {"terminal", "close", "monitor", "transfer", "forward"}

ASSUME SshAssumption ==
    /\ Kind \in [Ops -> Kinds]
    /\ NoOne \notin Ops
    /\ Mixes \subseteq SUBSET Ops
    /\ Heads \subseteq {"desktop", "web"}
    /\ MaxConns \in Nat \ {0}

Conns == 1 .. MaxConns

\* Inside get_cancellable; holding the session it returned; afterwards.
Getting   == {"table", "entry", "phase", "probe", "probed", "wait"}
OpStates  == Getting \union
             {"idle", "got", "opening", "opened", "running", "draining", "spawned",
              "channel", "moving", "lost", "failed", "backoff", "asking", "listening",
              "closed", "ended", "refused"}
SupStates == {"none", "sleep", "probe", "closed", "top", "connect", "backoff", "made",
              "install", "mark", "gone"}
DiscStates == {"idle", "entry", "table", "lock", "done", "missing"}

VARIABLES
    session,    \* the session is in the manager's table
    entry,      \* its reconnect entry is in the other table
    phase,      \* ReconnectControl::phase
    handle,     \* the physical connection the Session holds
    conn,       \* the physical connections
    used,       \* how many of them have been made
    lock,       \* who holds the Session's mutex across an await
    sup, made,  \* the supervisor and the connection it has just made
    abort,      \* its task has been aborted
    disc,       \* the disconnect calls
    op, chan,   \* the commands, and the connection a command's channel is on
    cancelled,  \* transfers whose flag has been raised
    fallback,   \* transfers whose attempt goes by exec, SFTP having failed
    terms,      \* Session::terms: terminals that can be written to
    closing,    \* terminals whose owner has a Close to read
    sampler,    \* the sampling tasks that run
    monitor,    \* the one registered in the manager
    route       \* ForwardedRoutes: whose sender the forwarded port leads to

tables    == <<session, entry, phase>>
physical  == <<handle, conn, used>>
supvars   == <<sup, made, abort>>
termvars  == <<terms, closing>>
monvars   == <<sampler, monitor>>
xfervars  == <<cancelled, fallback>>
vars == <<session, entry, phase, handle, conn, used, lock, sup, made, abort, disc, op,
          chan, cancelled, fallback, terms, closing, sampler, monitor, route>>

TypeOK ==
    /\ session \in BOOLEAN /\ entry \in BOOLEAN
    /\ phase \in {"connected", "reconnecting", "stopped"}
    /\ handle \in 0 .. MaxConns
    /\ conn \in [Conns -> {"none", "open", "closed"}]
    /\ used \in 0 .. MaxConns
    /\ lock \in Ops \union {NoOne}
    /\ sup \in SupStates /\ made \in 0 .. MaxConns /\ abort \in BOOLEAN
    /\ disc \in [Disconnectors -> DiscStates]
    /\ op \in [Ops -> OpStates]
    /\ chan \in [Ops -> 0 .. MaxConns]
    /\ cancelled \subseteq Ops /\ fallback \subseteq Ops
    /\ terms \subseteq Ops /\ closing \subseteq Ops
    /\ sampler \subseteq Ops /\ monitor \in Ops \union {NoOne}
    /\ route \in Ops \union {NoOne}

Init ==
    /\ session = FALSE /\ entry = FALSE /\ phase = "connected"
    /\ handle = 0 /\ conn = [c \in Conns |-> "none"] /\ used = 0
    /\ lock = NoOne
    /\ sup = "none" /\ made = 0 /\ abort = FALSE
    /\ disc = [d \in Disconnectors |-> "idle"]
    /\ op = [o \in Ops |-> "idle"] /\ chan = [o \in Ops |-> 0]
    /\ cancelled = {} /\ fallback = {} /\ terms = {} /\ closing = {}
    /\ sampler = {} /\ monitor = NoOne /\ route = NoOne

Open(c) == c \in Conns /\ conn[c] = "open"
Close(c) == conn' = [x \in Conns |-> IF x = c THEN "closed" ELSE conn[x]]

\* The Session is dropped, and its handle with it, when nobody holds its Arc.
Held ==
    \/ session
    \/ sup \notin {"none", "gone"}
    \/ sampler # {}
    \/ \E o \in Ops : op[o] \in {"entry", "phase", "probe", "probed", "wait", "got", "opening",
                                 "opened", "running", "draining", "channel", "moving",
                                 "asking"}
    \/ \E d \in Disconnectors : disc[d] = "lock"

-----------------------------------------------------------------------------
(* Connecting, and the network.                                            *)

\* ssh_connect.  Nobody knows the session's id before it returns, so that
\* inserting the session, spawning the supervisor and registering its entry
\* are one step.  The web head only inserts.
Connect(head) ==
    /\ used = 0
    /\ session' = TRUE /\ entry' = (head = "desktop")
    /\ handle' = 1 /\ used' = 1
    /\ conn' = [conn EXCEPT ![1] = "open"]
    /\ sup' = IF head = "desktop" THEN "sleep" ELSE "none"
    /\ UNCHANGED <<phase, lock, made, abort, disc, op, chan, xfervars, termvars, monvars, route>>

\* A connection is lost, as long as the bound leaves one to make after it.
Lose(c) ==
    /\ Open(c)
    /\ used < MaxConns
    /\ Close(c)
    /\ UNCHANGED <<tables, handle, used, lock, supvars, disc, op, chan, xfervars, termvars,
                   monvars, route>>

HandleDropped ==
    /\ ~Held
    /\ Open(handle)
    /\ Close(handle)
    /\ UNCHANGED <<tables, handle, used, lock, supvars, disc, op, chan, xfervars, termvars,
                   monvars, route>>

-----------------------------------------------------------------------------
(* The supervisor.  An aborted task ends at its next await.                *)

SupFrame == UNCHANGED <<session, entry, lock, disc, op, chan, xfervars, termvars, monvars, route>>

SupSleep ==
    /\ sup = "sleep" /\ ~abort
    /\ sup' = IF phase = "stopped" THEN "gone" ELSE "probe"
    /\ UNCHANGED <<phase, physical, made, abort>> /\ SupFrame

\* Mutant: whatever happened, the connection counts as closed.
SupProbeBlind ==
    /\ sup = "probe" /\ lock = NoOne
    /\ sup' = "closed"
    /\ UNCHANGED <<phase, physical, made, abort>> /\ SupFrame

SupProbe ==
    /\ sup = "probe" /\ lock = NoOne
    /\ sup' = IF Open(handle) THEN "sleep" ELSE "closed"
    /\ UNCHANGED <<phase, physical, made, abort>> /\ SupFrame

\* mark_reconnecting stores whatever was there.
SupClosed ==
    /\ sup = "closed"
    /\ phase' = "reconnecting"
    /\ sup' = "top"
    /\ UNCHANGED <<physical, made, abort>> /\ SupFrame

\* The head of the inner loop: stop, or take the routes and dial.
SupTop ==
    /\ sup = "top"
    /\ \/ phase = "stopped" /\ sup' = "gone"
       \/ phase # "stopped" /\ lock = NoOne /\ sup' = "connect"
    /\ UNCHANGED <<phase, physical, made, abort>> /\ SupFrame

SupConnects ==
    /\ sup = "connect" /\ ~abort
    /\ used < MaxConns
    /\ used' = used + 1 /\ made' = used + 1
    /\ conn' = [conn EXCEPT ![used + 1] = "open"]
    /\ sup' = "made"
    /\ UNCHANGED <<phase, handle, abort>> /\ SupFrame

\* An error or 30 seconds without an answer.
SupFails ==
    /\ sup = "connect" /\ ~abort
    /\ sup' = "backoff"
    /\ UNCHANGED <<phase, physical, made, abort>> /\ SupFrame

SupRetries ==
    /\ sup = "backoff" /\ ~abort
    /\ sup' = "top"
    /\ UNCHANGED <<phase, physical, made, abort>> /\ SupFrame

SupMade ==
    /\ sup = "made"
    /\ \/ phase = "stopped" /\ sup' = "gone" /\ Close(made) /\ made' = 0
       \/ phase # "stopped" /\ sup' = "install" /\ UNCHANGED <<conn, made>>
    /\ UNCHANGED <<phase, handle, used, abort>> /\ SupFrame

\* Replacing the handle drops the one that was there.
SupInstall ==
    /\ sup = "install" /\ lock = NoOne
    /\ Close(handle)
    /\ handle' = made /\ made' = 0
    /\ sup' = "mark"
    /\ UNCHANGED <<phase, used, abort>> /\ SupFrame

\* Mutant: a new connection is installed without a word to the waiting commands.
SupMarkSilently ==
    /\ sup = "mark"
    /\ sup' = "sleep"
    /\ UNCHANGED <<phase, physical, made, abort>> /\ SupFrame

SupMark ==
    /\ sup = "mark"
    /\ phase' = "connected"
    /\ sup' = "sleep"
    /\ UNCHANGED <<physical, made, abort>> /\ SupFrame

\* The abort takes the task at an await, and a connection it had made with it.
SupDropped ==
    /\ abort
    /\ sup \in {"sleep", "probe", "top", "connect", "backoff", "install"}
    /\ sup' = "gone"
    /\ Close(made) /\ made' = 0
    /\ UNCHANGED <<phase, handle, used, abort>> /\ SupFrame

Supervisor ==
    \/ SupSleep \/ SupProbe \/ SupClosed \/ SupTop \/ SupConnects \/ SupFails
    \/ SupRetries \/ SupMade \/ SupInstall \/ SupMark \/ SupDropped

-----------------------------------------------------------------------------
(* ssh_disconnect.                                                         *)

DiscFrame == UNCHANGED <<handle, used, sup, made, op, chan, xfervars, termvars, route>>

\* Aborting the registered sampler gives back the mutex it may hold.
LockFreed == lock' = IF lock = monitor THEN NoOne ELSE lock

\* remove_monitor: the registered sampler is aborted.
Disconnect(d) ==
    /\ disc[d] = "idle" /\ used > 0
    /\ disc' = [disc EXCEPT ![d] = "entry"]
    /\ sampler' = sampler \ {monitor} /\ monitor' = NoOne /\ LockFreed
    /\ UNCHANGED <<tables, conn, abort>> /\ DiscFrame

\* Mutant: the supervisor is told to stop and not aborted.
DiscEntryNoAbort(d) ==
    /\ disc[d] = "entry"
    /\ disc' = [disc EXCEPT ![d] = "table"]
    /\ entry' = FALSE
    /\ phase' = IF entry THEN "stopped" ELSE phase
    /\ UNCHANGED <<session, conn, lock, abort, monvars>> /\ DiscFrame

\* The first half of SessionManager::remove: entry, stop and abort under the
\* lock of the reconnect table.
DiscEntry(d) ==
    /\ disc[d] = "entry"
    /\ disc' = [disc EXCEPT ![d] = "table"]
    /\ entry' = FALSE
    /\ phase' = IF entry THEN "stopped" ELSE phase
    /\ abort' = (abort \/ entry)
    /\ UNCHANGED <<session, conn, lock, monvars>> /\ DiscFrame

\* The second half, under the lock of the session table.
DiscTable(d) ==
    /\ disc[d] = "table"
    /\ disc' = [disc EXCEPT ![d] = IF session THEN "lock" ELSE "missing"]
    /\ session' = FALSE
    /\ UNCHANGED <<entry, phase, conn, lock, abort, monvars>> /\ DiscFrame

\* Mutant: the connection is left to close by itself.
DiscCloseNothing(d) ==
    /\ disc[d] = "lock" /\ lock = NoOne
    /\ disc' = [disc EXCEPT ![d] = "done"]
    /\ UNCHANGED <<tables, conn, lock, abort, monvars>> /\ DiscFrame

DiscClose(d) ==
    /\ disc[d] = "lock" /\ lock = NoOne
    /\ disc' = [disc EXCEPT ![d] = "done"]
    /\ Close(handle)
    /\ UNCHANGED <<tables, lock, abort, monvars>> /\ DiscFrame

DiscStep(d) == DiscEntry(d) \/ DiscTable(d) \/ DiscClose(d)

-----------------------------------------------------------------------------
(* get_cancellable.                                                        *)

OpFrame == UNCHANGED <<tables, physical, supvars, disc>>
Goes(o, pc) == op' = [op EXCEPT ![o] = pc]
NoChange == UNCHANGED <<lock, chan, xfervars, termvars, monvars, route>>

Start(o) ==
    /\ op[o] = "idle" /\ used > 0
    /\ \E m \in Mixes : {p \in Ops : p = o \/ op[p] # "idle"} \subseteq m
    /\ Goes(o, "table")
    /\ OpFrame /\ NoChange

\* What a caller does with None: an attempt of a transfer that was to go by
\* SFTP tries exec, one that goes by exec has failed, any other command gives up.
Refused(o) ==
    IF Kind[o] # "transfer" THEN Goes(o, "refused") /\ UNCHANGED fallback
    ELSE IF o \in fallback THEN Goes(o, "failed") /\ UNCHANGED fallback
    ELSE Goes(o, "table") /\ fallback' = fallback \union {o}

\* A raised flag and a missing session both end the loop with None.
GetTable(o) ==
    /\ op[o] = "table"
    /\ IF o \in cancelled \/ ~session THEN Refused(o)
                                      ELSE Goes(o, "entry") /\ UNCHANGED fallback
    /\ OpFrame /\ UNCHANGED <<lock, chan, cancelled, termvars, monvars, route>>

\* Without an entry the session is returned as it is.
GetEntry(o) ==
    /\ op[o] = "entry"
    /\ Goes(o, IF entry THEN "phase" ELSE "got")
    /\ OpFrame /\ NoChange

GetPhase(o) ==
    /\ op[o] = "phase"
    /\ IF phase = "stopped" THEN Refused(o) ELSE Goes(o, "probe") /\ UNCHANGED fallback
    /\ OpFrame /\ UNCHANGED <<lock, chan, cancelled, termvars, monvars, route>>

GetProbe(o) ==
    /\ op[o] = "probe" /\ lock = NoOne
    /\ Goes(o, IF Open(handle) THEN "probed" ELSE "wait")
    /\ OpFrame /\ NoChange

GetProbed(o) ==
    /\ op[o] = "probed"
    /\ Goes(o, IF phase = "connected" THEN "got" ELSE "wait")
    /\ OpFrame /\ NoChange

\* Mutant: the session and its control are looked up once, before the loop.
GetOnce(o) ==
    /\ op[o] = "wait"
    /\ Goes(o, "phase")
    /\ OpFrame /\ NoChange

\* Woken by the supervisor or by the 200 ms of the poll.
GetAgain(o) ==
    /\ op[o] = "wait"
    /\ Goes(o, "table")
    /\ OpFrame /\ NoChange

Get(o) == GetTable(o) \/ GetEntry(o) \/ GetPhase(o) \/ GetProbe(o) \/ GetProbed(o) \/ GetAgain(o)

-----------------------------------------------------------------------------
(* Terminals: term_open_core, the owner task, term_close_core.             *)

\* Holds the Session while the server opens the channel.
TermOpen(o) ==
    /\ op[o] = "got" /\ Kind[o] = "terminal" /\ lock = NoOne
    /\ Goes(o, "opening") /\ lock' = o
    /\ OpFrame /\ UNCHANGED <<chan, xfervars, termvars, monvars, route>>

\* The server may refuse.
TermOpened(o) ==
    /\ op[o] = "opening"
    /\ lock' = NoOne
    /\ \/ Open(handle) /\ Goes(o, "opened") /\ chan' = [chan EXCEPT ![o] = handle]
       \/ Goes(o, "refused") /\ UNCHANGED chan
    /\ OpFrame /\ UNCHANGED <<xfervars, termvars, monvars, route>>

\* Pty and shell are asked for outside the mutex; then the terminal is
\* listed and its owner spawned.
TermListed(o) ==
    /\ op[o] = "opened"
    /\ \/ lock = NoOne /\ Goes(o, "running") /\ terms' = terms \union {o}
       \/ ~Open(chan[o]) /\ Goes(o, "refused") /\ UNCHANGED terms
    /\ OpFrame /\ UNCHANGED <<lock, chan, xfervars, closing, monvars, route>>

\* The owner leaves its loop: it reads a Close, or the channel has ended.
TermEnds(o) ==
    /\ op[o] = "running"
    /\ o \in closing \/ ~Open(chan[o])
    /\ Goes(o, "draining")
    /\ OpFrame /\ NoChange

\* The shell may exit by itself, or never.
TermExits(o) ==
    /\ op[o] = "running"
    /\ Goes(o, "draining")
    /\ OpFrame /\ NoChange

TermRemoved(o) ==
    /\ op[o] = "draining" /\ lock = NoOne
    /\ Goes(o, "ended") /\ terms' = terms \ {o}
    /\ OpFrame /\ UNCHANGED <<lock, chan, xfervars, closing, monvars, route>>

\* term_close_core of a listed terminal, or of one that is not.
TermClose(o) ==
    /\ op[o] = "got" /\ Kind[o] = "close" /\ lock = NoOne
    /\ Goes(o, "ended")
    /\ \/ \E t \in terms : terms' = terms \ {t} /\ closing' = closing \union {t}
       \/ UNCHANGED termvars
    /\ OpFrame /\ UNCHANGED <<lock, chan, xfervars, monvars, route>>

Terminal(o) == TermOpen(o) \/ TermOpened(o) \/ TermListed(o) \/ TermEnds(o) \/ TermRemoved(o)
                 \/ TermClose(o)

-----------------------------------------------------------------------------
(* The monitor.                                                            *)

\* monitor_start reads the host under the mutex and spawns the sampler ...
MonitorSpawns(o) ==
    /\ op[o] = "got" /\ Kind[o] = "monitor" /\ lock = NoOne
    /\ Goes(o, "spawned") /\ sampler' = sampler \union {o}
    /\ OpFrame /\ UNCHANGED <<lock, chan, xfervars, termvars, monitor, route>>

\* ... and registers it afterwards, aborting the one registered before.
MonitorListed(o) ==
    /\ op[o] = "spawned"
    /\ Goes(o, "ended")
    /\ sampler' = sampler \ {monitor} /\ monitor' = o /\ LockFreed
    /\ OpFrame /\ UNCHANGED <<chan, xfervars, termvars, route>>

\* A sample opens a channel with the Session held ...
SampleOpens(o) ==
    /\ o \in sampler /\ lock = NoOne
    /\ lock' = o
    /\ OpFrame /\ UNCHANGED <<op, chan, xfervars, termvars, monvars, route>>

\* ... and one that fails ends the sampler, which stays registered.
SampleOpened(o) ==
    /\ o \in sampler /\ lock = o
    /\ lock' = NoOne
    /\ \/ Open(handle) /\ UNCHANGED sampler
       \/ sampler' = sampler \ {o}
    /\ OpFrame /\ UNCHANGED <<op, chan, xfervars, termvars, monitor, route>>

MonitorStop ==
    /\ monitor # NoOne
    /\ sampler' = sampler \ {monitor} /\ monitor' = NoOne /\ LockFreed
    /\ OpFrame /\ UNCHANGED <<op, chan, xfervars, termvars, route>>

Monitor(o) == MonitorSpawns(o) \/ MonitorListed(o) \/ SampleOpens(o) \/ SampleOpened(o)

-----------------------------------------------------------------------------
(* Transfers: upload_dispatch_or_fallback and its download counterpart.    *)

\* An attempt opens its channel with the Session held.
TransferOpen(o) ==
    /\ op[o] = "got" /\ Kind[o] = "transfer" /\ lock = NoOne
    /\ Goes(o, "channel") /\ lock' = o
    /\ OpFrame /\ UNCHANGED <<chan, xfervars, termvars, monvars, route>>

\* Where there is no channel, or no SFTP on it, the attempt is made again by
\* exec; where there is none for that either it has failed, with an error
\* that looks like the transport's or with another.
TransferOpened(o) ==
    /\ op[o] = "channel"
    /\ lock' = NoOne
    /\ \/ Open(handle) /\ Goes(o, "moving") /\ chan' = [chan EXCEPT ![o] = handle]
          /\ UNCHANGED fallback
       \/ o \notin fallback /\ Goes(o, "table") /\ fallback' = fallback \union {o}
          /\ UNCHANGED chan
       \/ o \in fallback /\ (Goes(o, "lost") \/ Goes(o, "failed"))
          /\ UNCHANGED <<chan, fallback>>
    /\ OpFrame /\ UNCHANGED <<cancelled, termvars, monvars, route>>

\* It completes.  By exec the end of the channel counts as the end of the
\* data, or of the remote command, also when the connection was lost.
TransferDone(o) ==
    /\ op[o] = "moving"
    /\ Open(chan[o]) \/ o \in fallback
    /\ Goes(o, "ended")
    /\ OpFrame /\ NoChange

\* It sees the flag, or ends in any way once the flag is up.
TransferStops(o) ==
    /\ op[o] = "moving" /\ o \in cancelled
    /\ Goes(o, "ended")
    /\ OpFrame /\ NoChange

\* An error that looks like the transport's: the connection is lost, or a
\* request has not been answered for five minutes.
TransferLoses(o) ==
    /\ op[o] = "moving"
    /\ Goes(o, "lost")
    /\ OpFrame /\ NoChange

\* Any other error, of the remote side or of the local file.
TransferFails(o) ==
    /\ op[o] = "moving"
    /\ Goes(o, "failed")
    /\ OpFrame /\ NoChange

\* A transport error is always retried, unless the flag is up.
TransferLost(o) ==
    /\ op[o] = "lost"
    /\ Goes(o, IF o \in cancelled THEN "ended" ELSE "backoff")
    /\ OpFrame /\ NoChange

\* Mutant: a session that is gone counts as closed.
ReconnectingOrGone ==
    \/ ~session
    \/ entry /\ phase = "reconnecting"
    \/ ~Open(handle)

\* Any other error is retried when is_reconnecting_or_closed says so.
ReconnectingOrClosed ==
    session /\ ((entry /\ phase = "reconnecting") \/ ~Open(handle))

TransferJudged(o) ==
    /\ op[o] = "failed" /\ lock = NoOne
    /\ Goes(o, IF o \in cancelled THEN "ended"
               ELSE IF ReconnectingOrClosed THEN "backoff" ELSE "refused")
    /\ OpFrame /\ NoChange

\* After a delay of its own the next attempt starts with SFTP again; nothing
\* limits their number.
TransferRetries(o) ==
    /\ op[o] = "backoff"
    /\ Goes(o, IF o \in cancelled THEN "ended" ELSE "table")
    /\ fallback' = fallback \ {o}
    /\ OpFrame /\ UNCHANGED <<lock, chan, cancelled, termvars, monvars, route>>

Cancel(o) ==
    /\ Kind[o] = "transfer"
    /\ op[o] \notin {"idle", "ended", "refused"} /\ o \notin cancelled
    /\ cancelled' = cancelled \union {o}
    /\ OpFrame /\ UNCHANGED <<lock, op, chan, fallback, termvars, monvars, route>>

Transfer(o) == \/ TransferOpen(o) \/ TransferOpened(o) \/ TransferDone(o) \/ TransferStops(o)
               \/ TransferLoses(o) \/ TransferFails(o)
               \/ TransferLost(o) \/ TransferJudged(o) \/ TransferRetries(o)

-----------------------------------------------------------------------------
(* Remote forwards, all of the same remote port.                           *)

\* open_remote_forward enters its route before it asks the server, with the
\* Session held.
ForwardAsks(o) ==
    /\ op[o] = "got" /\ Kind[o] = "forward" /\ lock = NoOne
    /\ Goes(o, "asking") /\ lock' = o /\ route' = o
    /\ OpFrame /\ UNCHANGED <<chan, xfervars, termvars, monvars>>

\* The server listens on a port once, and goes on after tunnel_close.
Bound == \E p \in Ops : /\ Kind[p] = "forward" /\ op[p] \in {"listening", "closed"}
                         /\ chan[p] = handle

\* The rollback removes the route of the port.
ForwardAnswered(o) ==
    /\ op[o] = "asking"
    /\ lock' = NoOne
    /\ \/ /\ Open(handle) /\ ~Bound
          /\ Goes(o, "listening") /\ chan' = [chan EXCEPT ![o] = handle]
          /\ UNCHANGED route
       \/ Goes(o, "refused") /\ route' = NoOne /\ UNCHANGED chan
    /\ OpFrame /\ UNCHANGED <<xfervars, termvars, monvars>>

\* tunnel_close aborts the accepting task and leaves the route.
ForwardClose(o) ==
    /\ op[o] = "listening"
    /\ Goes(o, "closed")
    /\ OpFrame /\ NoChange

Forward(o) == ForwardAsks(o) \/ ForwardAnswered(o)

-----------------------------------------------------------------------------
OpStep(o) == Get(o) \/ Terminal(o) \/ Monitor(o) \/ Transfer(o) \/ Forward(o)

Next ==
    \/ \E head \in Heads : Connect(head)
    \/ HandleDropped
    \/ Supervisor
    \/ MonitorStop
    \/ \E c \in Conns : Lose(c)
    \/ \E d \in Disconnectors : Disconnect(d) \/ DiscStep(d)
    \/ \E o \in Ops : \/ Start(o) \/ OpStep(o)
                      \/ TermExits(o) \/ Cancel(o) \/ ForwardClose(o)

Spec == Init /\ [][Next]_vars

\* By exec a transfer waits for the remote command without a limit, and an
\* upload does not look at its flag there.
Stuck(o) == op[o] = "moving" /\ o \in fallback /\ Open(chan[o])

\* Every task that can run is run, the mutex is granted in turn, a server
\* answers the opening of a channel or its connection is found dead, and the
\* dropped handle ends its connection.  What users, servers and the network
\* may do otherwise is not fair.
TasksRun ==
    /\ WF_vars(SupSleep \/ SupProbe \/ SupClosed \/ SupTop \/ SupFails \/ SupRetries
                \/ SupMade \/ SupInstall \/ SupMark \/ SupDropped)
    /\ WF_vars(HandleDropped)
    /\ \A d \in Disconnectors : WF_vars(DiscStep(d))
    /\ \A o \in Ops : WF_vars(~Stuck(o) /\ OpStep(o)) /\ SF_vars(GetProbe(o))

\* The network: dialled often enough, the server answers.
ServerAnswers == SF_vars(SupConnects)

TaskSpec == Spec /\ TasksRun

-----------------------------------------------------------------------------
(* Properties.                                                             *)

Disconnected == \E d \in Disconnectors : disc[d] = "done"

\* The supervisor dials only once the connection it replaces is closed, so a
\* session never has two physical connections open, the new one still in the
\* supervisor's hands included (conn.rs:525-566).
OneConnection == \A c, d \in Conns : Open(c) /\ Open(d) => c = d

\* A terminal that can be looked up in Session::terms has an owner that has
\* not left: no write is swallowed by an entry nobody serves, whichever of
\* term_close, the shell, a reconnection and a disconnection ends the owner
\* (term.rs:182-306).
TermsAreServed == \A t \in terms : op[t] \in {"running", "draining"}

\* Of the samplers monitor_start spawns before it registers them, every one
\* that still runs is the registered one or about to be: two clients that
\* start and stop the monitor at once leave no sampler beyond the reach of
\* monitor_stop (monitor.rs:368-429, manager.rs:276-288).
SamplersAreListed == \A o \in sampler : o = monitor \/ op[o] = "spawned"

\* What the supervisor knows where it stands: the connections are numbered as
\* they are made, and from `closed` to `install` the Session's own is closed.
Dialling == {"closed", "top", "connect", "backoff", "made", "install"}

ConnectionsAreNumbered ==
    /\ handle <= used /\ made <= used
    /\ \A c \in Conns : c > used => conn[c] = "none"
    /\ \A c \in Conns : Open(c) => c \in {handle, made}
    /\ sup \in Dialling => ~Open(handle)
    /\ sup \notin {"made", "install"} => made = 0

\* As long as the session has its entry, its supervisor runs and the phase is
\* what the supervisor last stored: no stop comes before the entry is gone.
PhaseIsTrue ==
    /\ used = 0 => phase = "connected" /\ ~entry /\ ~abort /\ sup = "none"
    /\ entry => /\ ~abort /\ sup \notin {"none", "gone"}
                /\ phase = IF sup \in {"sleep", "probe", "closed"} THEN "connected"
                           ELSE "reconnecting"

\* The invariant by which the safety properties are proved: what the
\* reconnection race of conn.rs:514-576 with manager.rs:228-234 preserves.
SshInv ==
    /\ TypeOK
    /\ ConnectionsAreNumbered
    /\ PhaseIsTrue
    /\ TermsAreServed
    /\ SamplersAreListed

\* The supervisor of a disconnected session ends, even when its marks
\* overwrite the stop it was sent: the abort reaches it at its next await
\* (manager.rs:228-234).
SupervisorEnds == Disconnected ~> (sup \in {"none", "gone"})

\* Every command waiting for its session is woken: with a connection if the
\* server can be reached again (manager.rs:150-191) ...
GetsReturn ==
    ServerAnswers => \A o \in Ops : (op[o] \in Getting) ~> (op[o] \notin Getting)

\* ... and at any rate once the session has been disconnected, even if the
\* network never comes back and the supervisor has overwritten the stop.
WaitersFreed == \A o \in Ops : (Disconnected /\ op[o] \in Getting) ~> (op[o] \notin Getting)

\* The web head's session: there never was a supervisor.
Unsupervised == used > 0 /\ sup = "none"

\* A transfer that was cancelled ends, and so does one whose session has been
\* disconnected, however often it failed and was retried before and wherever
\* it waits (sftp.rs:613-674); only a transfer by exec may hang on a channel
\* that stays open.
Running(o) == Kind[o] = "transfer" /\ op[o] \notin {"idle", "ended", "refused"}
TransfersEnd ==
    \A o \in Ops :
        Running(o) /\ (o \in cancelled \/ Disconnected) ~> (~Running(o) \/ []Stuck(o))

\* A disconnected session of the web head leaves no physical connection open
\* (conn.rs:697-700).  On the desktop the supervisor may still install one.
ConnectionsClose == (Unsupervised /\ Disconnected) ~> (\A c \in Conns : ~Open(c))

\* "Ok(false) completes, Ok(true) is cancelled, Err is an error" (sftp.rs:466):
\* a transfer that nobody cancelled completes on a connection that is there.
CompleteOnConnection ==
    [][\A o \in Ops : op[o] = "moving" /\ op'[o] = "ended" /\ o \notin cancelled
          => Open(chan[o])]_vars

\* "each terminal's owner task ends by itself when the channel closes"
\* (conn.rs:677-678).
TerminalsEnd == Disconnected ~> (\A o \in Ops : op[o] \notin {"opening", "opened", "running"})

\* get_cancellable "obtains a currently usable physical connection"
\* (manager.rs:148): a session is handed out after its connection was seen open.
SeenOpen == [][\A o \in Ops : op[o] # "got" /\ op'[o] = "got" => op[o] = "probed"]_vars

\* "when the user disconnects, the manager stops and aborts this task; only
\* then has the logical session really ended" (conn.rs:655-656): no
\* connection is put in place after that.
NoneInstalledAfter == [][Disconnected => handle' = handle]_vars

\* "abort the monitor first, so that it does not go on executing on a dead
\* handle" (conn.rs:687): no sampler is left when the disconnection is done.
NoSamplerAfter == Disconnected => sampler = {}

\* "reuse the R forwarding table, so that after a reconnection the handler is
\* not out of step with the tunnels" (conn.rs:540): on an installed
\* connection the server listens for the forwards that are up.
ForwardsListen ==
    sup = "sleep" /\ Open(handle) =>
        \A o \in Ops : op[o] = "listening" => chan[o] = handle

\* "registers remote port -> Sender, so that the channels the server opens
\* can be routed to this task" (tunnel.rs:292-293).
ForwardsRouted ==
    lock = NoOne /\ Open(handle) =>
        \A o \in Ops : op[o] = "listening" /\ chan[o] = handle => route = o
=============================================================================
