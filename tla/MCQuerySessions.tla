--------------------------- MODULE MCQuerySessions ---------------------------
(* Small instances of QuerySessions.                                       *)
EXTENDS QuerySessions, TLC

Symmetry == Permutations(Execs) \cup Permutations(Sessions)
=============================================================================
