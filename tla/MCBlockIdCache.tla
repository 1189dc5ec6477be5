--------------------------- MODULE MCBlockIdCache ---------------------------
(* Model-checking instance of the block id cache: snapshot 1 is older than   *)
(* snapshots 2 and 3, which have the same version vector, as two drafts do.  *)
EXTENDS BlockIdCache

MCOlder == [s \in Snap |-> IF s = 1 THEN {1} ELSE Snap]
MCContent == [s \in Snap |-> IF s = 3 THEN {} ELSE Block]
=============================================================================
