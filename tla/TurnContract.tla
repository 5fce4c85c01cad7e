---------------------------- MODULE TurnContract ----------------------------
(***************************************************************************)
(* What a Turn promises whoever follows its events, whatever the provider, *)
(* the policy and the client do: tool uses are opened one at a time, in    *)
(* order; a use may be handed to an executor at most once and only while   *)
(* it is open; it is closed by one result that fits what happened to it;   *)
(* and one terminal event, if it can be delivered, comes last.  The        *)
(* structures are those of the event stream (AgentEvent), not of the       *)
(* engine.                                                                 *)
(***************************************************************************)
EXTENDS Naturals

CONSTANTS
    MaxUses,     \* bound: tool uses in a turn
    Statuses     \* the results a tool use may have

VARIABLES
    phase,       \* "new", "running" or "closed"
    use,         \* per tool use: "none", "open" or "finished"
    ran,         \* tool uses handed to an executor
    result,      \* per finished tool use: its result
    lost,        \* some event could not be delivered
    terminal     \* the terminal event, "none" until it is delivered

vars == <<phase, use, ran, result, lost, terminal>>

Uses == 1 .. MaxUses

\* Results that may be given to a use that was never handed over, and to one
\* that was.
NotRun == {"unsupported", "failed", "blocked", "denied", "cancelled"}
Run    == Statuses \ {"denied"}

NoneOpen == \A n \in Uses : use[n] # "open"

Init ==
    /\ phase = "new"
    /\ use = [n \in Uses |-> "none"]
    /\ ran = {}
    /\ result = [n \in Uses |-> "none"]
    /\ lost = FALSE
    /\ terminal = "none"

Begin ==
    /\ phase = "new"
    /\ phase' = "running"
    /\ UNCHANGED <<use, ran, result, lost, terminal>>

Propose(n) ==
    /\ phase = "running"
    /\ NoneOpen
    /\ \A m \in Uses : m >= n => use[m] = "none"
    /\ use' = [use EXCEPT ![n] = "open"]
    /\ ran' \in {ran, ran \cup {n}}
    /\ UNCHANGED <<phase, result, lost, terminal>>

HandOver(n) ==
    /\ phase = "running"
    /\ use[n] = "open"
    /\ n \notin ran
    /\ ran' = ran \cup {n}
    /\ UNCHANGED <<phase, use, result, lost, terminal>>

Finish(n, s) ==
    /\ phase = "running"
    /\ use[n] = "open"
    /\ s \in (IF n \in ran THEN Run ELSE NotRun)
    /\ use' = [use EXCEPT ![n] = "finished"]
    /\ result' = [result EXCEPT ![n] = s]
    /\ UNCHANGED <<phase, ran, lost, terminal>>

Lose ==
    /\ phase = "running"
    /\ lost' = TRUE
    /\ phase' \in {"running", "closed"}
    /\ UNCHANGED <<use, ran, result, terminal>>

\* The terminal event: with every use closed, unless an event was lost.
Close(t) ==
    /\ phase = "running"
    /\ lost \/ NoneOpen
    /\ phase' = "closed"
    /\ terminal' = t
    /\ UNCHANGED <<use, ran, result, lost>>

Next ==
    \/ Begin
    \/ \E n \in Uses :
          \/ Propose(n) \/ HandOver(n)
          \/ \E s \in Statuses : Finish(n, s)
    \/ Lose
    \/ \E t \in {"none", "ok", "cancelled", "failed"} : Close(t)

Spec == Init /\ [][Next]_vars

=============================================================================
