-------------------------- MODULE MCRequestTracker --------------------------
(***************************************************************************)
(* Model-checking instances of the request tracker.  `push` is the key of  *)
(* an unsolicited root node response (cookie 0): it is never requested but *)
(* asks for the index below it.                                            *)
(***************************************************************************)
EXTENDS RequestTracker, TLC

CONSTANTS a, b, c, push, inner, inner1, inner2, block

\* Two clients share two variants of one index node over one block.
SharingClient == {a, b}
SharingKey == {push, inner, block}
SharingNode == {inner1, inner2, block}
SharingKeyOf == inner1 :> inner @@ inner2 :> inner @@ block :> block
SharingFollow == push :> {inner1, inner2} @@ inner :> {block} @@ block :> {}
SharingInitialNode == [x \in SharingClient |-> {block}]
SharingSymmetry == Permutations(SharingClient)

\* Three clients compete for two variants of one index node; peers choke.
CompetitionClient == {a, b, c}
CompetitionKey == {push, inner}
CompetitionNode == {inner1, inner2}
CompetitionKeyOf == inner1 :> inner @@ inner2 :> inner
CompetitionFollow == push :> {inner1, inner2} @@ inner :> {}
CompetitionInitialNode == [x \in CompetitionClient |-> {}]
CompetitionSymmetry == Permutations(CompetitionClient)

\* Two of them, without symmetry, which liveness does not go with.
LiveInitialNode == [x \in SharingClient |-> {}]
=============================================================================
