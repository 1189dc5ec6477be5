--------------------------- MODULE MCBlockDownload ---------------------------
(* Instances of BlockDownload: two peers and two snapshots, of which the     *)
(* second adds a block to the first.                                         *)
EXTENDS BlockDownload

CONSTANTS c1, c2, b1, b2

Growing == <<{b1}, {b1, b2}>>

Everything == [c \in Client |-> Block]
Nothing == [c \in Client |-> {}]

\* One peer that stays and has everything, in lazy mode and without a quota.
Single == [clients |-> {c1}, last |-> 1, quota |-> NoQuota, mode |-> "Lazy",
           has |-> Everything, unstable |-> {}, lossy |-> {}]

\* Only the first of the peer's two snapshots fits the quota.
Rejected == [Single EXCEPT !.last = 2, !.quota = 1, !.mode = "Greedy"]
\* The peer discards requests, disconnects, and gets its block late.
Lossy == [Single EXCEPT !.quota = 1, !.mode = "Greedy", !.has = Nothing,
                        !.unstable = {c1}, !.lossy = {c1}]
\* The peer gets the block late and offers it while we get the index.
Offers == [Single EXCEPT !.quota = 1, !.has = Nothing]
\* Two successive snapshots without a quota.
Two == [Single EXCEPT !.last = 2]
\* Two peers that stay.
Pair == [Single EXCEPT !.clients = {c1, c2}, !.quota = 1]
\* Two peers share the requests while one of them comes and goes.
Fallback == [Single EXCEPT !.clients = {c1, c2}, !.unstable = {c1}]

SafetySetups == {Rejected, Lossy, Pair, Fallback}
LiveSetups == {Offers, Two, Pair}
FallbackSetups == {Fallback}
=============================================================================
