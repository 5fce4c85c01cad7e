--------------------------- MODULE MCFountainSink ---------------------------
(* Small instances of FountainSink: two transfers that share a slot and      *)
(* differ in size.                                                           *)
EXTENDS FountainSink, TLC

CONSTANTS small, large

Encodes == [f \in Transfers |-> CASE f = small -> 1 [] f = large -> 9]
Sizes   == [f \in Transfers |-> CASE f = small -> 2 [] f = large -> 4]

\* A frame that arrives whole, one that loses a block in the middle of a
\* chunk, and one that loses the last block of a chunk.
FewDamages == {{}, {1}, {2}, {3, 4}}
AllDamages == SUBSET Blocks

Symmetry == Permutations(Workers)
=============================================================================
