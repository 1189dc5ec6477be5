--------------------------- MODULE MCBlockTracker ---------------------------
(* Model-checking instance of the block tracker. *)
EXTENDS BlockTracker, TLC

CONSTANTS c1, c2, b1, b2

MCClient == {c1, c2}
MCBlock == {b1, b2}

\* Clients and blocks are interchangeable: no action or property names one.
Symmetry == Permutations(MCClient) \cup Permutations(MCBlock)
=============================================================================
