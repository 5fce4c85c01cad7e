--------------------------- MODULE MCSshSessions ---------------------------
(* Small instances of SshSessions: which commands may come together, two    *)
(* calls of disconnect and two or three physical connections.               *)
EXTENDS SshSessions, TLC

CONSTANTS t1, t2, close, m1, m2, up, f1, f2

AllKinds == [o \in Ops |-> CASE o \in {t1, t2} -> "terminal" [] o = close -> "close"
                             [] o \in {m1, m2} -> "monitor"  [] o = up -> "transfer"
                             [] o \in {f1, f2} -> "forward"]

TerminalsOrMonitors == {{t1, t2, close}, {m1, m2, f1}}
TransferAndTerminal == {{up, t1}}
OneTerminal         == {{t1}}
=============================================================================
