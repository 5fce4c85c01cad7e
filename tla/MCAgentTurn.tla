---------------------------- MODULE MCAgentTurn ----------------------------
(* Small instances of AgentTurn.                                           *)
EXTENDS AgentTurnInv

Call(name, input, listed) == [name |-> name, input |-> input, listed |-> listed]

TerminalShapes == {Call("terminal", i, FALSE) : i \in {"plain", "sensitive"}}
RoutingShapes  == {Call("file", "plain", FALSE), Call("file", "sensitive", FALSE),
                   Call("backend", "plain", FALSE), Call("unknown", "plain", FALSE),
                   Call("terminal", "invalid", FALSE),
                   Call("terminal", "sensitive", TRUE)}

AskRequests == {[mode |-> "ask", unattended |-> "none", router |-> FALSE]}
AllRequests == Request
=============================================================================
