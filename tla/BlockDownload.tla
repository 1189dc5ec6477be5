---------------------------- MODULE BlockDownload ----------------------------
(***************************************************************************)
(* How a block gets downloaded: the request tracker, the block tracker and *)
(* the store, driven by the clients (lib/src/network/client.rs and         *)
(* lib/src/store/client.rs) of the connected peers.                        *)
(*                                                                         *)
(* There is one remote branch with the snapshots 1, 2, ...  The index of a *)
(* snapshot is three layers deep here: its root node, one set of inner     *)
(* nodes (`top`), and for each block one set of leaf nodes holding that    *)
(* block alone.  Sets with equal content are the same node, as in a Merkle *)
(* tree, so snapshots share the leaves of the blocks they share.           *)
(*                                                                         *)
(* Abstractions.  The peer answers a request in the step that sends it and *)
(* the answer waits in a first-in first-out inbox.  Receiving a response   *)
(* and handling it is one step, and so are the commit of the database and  *)
(* the callback that runs right after it.  The local replica removes no    *)
(* block and writes no snapshot of its own.  Peers have unchoked us from   *)
(* the start: choking is the subject of RequestTracker; here a peer that   *)
(* chokes us shows as a lossy one.                                         *)
(***************************************************************************)
EXTENDS Naturals, Sequences, FiniteSets, FiniteSetsExt

CONSTANTS
    Client,        \* peer clients
    Block,         \* block ids
    Content,       \* Content[s]: the blocks that snapshot s references
    Setups,        \* the situations to look at, see below
    MaxPermits, MaxQueue, NoNode, NoClient

Snapshot == 1 .. Len(Content)

\* In one setup, `clients` are those that connect, `last` is the last snapshot
\* there will be, `quota` is that of the repository in blocks (NoQuota if none
\* is set), `mode` is the block tracker's request mode, `has` are the blocks
\* each peer has at first, clients in `unstable` may disconnect, and the peers
\* of clients in `lossy` may discard a request (which they do when they choke
\* us).
NoQuota == Cardinality(Block) + 1

SetupType ==
    [clients : SUBSET Client, last : Snapshot, quota : 0 .. NoQuota,
     mode : {"Lazy", "Greedy"}, has : [Client -> SUBSET Block],
     unstable : SUBSET Client, lossy : SUBSET Client]

ASSUME BlockDownloadAssumption ==
    /\ Content \in Seq(SUBSET Block)
    /\ Setups \subseteq SetupType

VARIABLES
    tracker, receiver,                  \* request tracker
    offers, required, mode, blockTx,    \* block tracker
    db,         \* the committed store
    tx,         \* the store as the open write transaction sees it
    writer,     \* the client that owns the write transaction
    peer,       \* peer[c]: latest snapshot of c's peer, 0 if none
    has,        \* has[c]: blocks of c's peer
    inbox,      \* inbox[c]: responses on the way to c
    offering,   \* offering[c]: a readable block offer between two awaits
    approval,   \* approval[c]: what c still has to do after its commit
    setup       \* the setup, which never changes

storeVars == <<db, tx, writer>>
blockVars == <<offers, required, mode, blockTx>>
peerVars == <<peer, has, inbox>>
taskVars == <<offering, approval>>
vars == <<tracker, receiver, blockVars, storeVars, peerVars, taskVars, setup>>

HasQuota == setup.quota # NoQuota

-----------------------------------------------------------------------------
(* MultiBlockPresence of the blocks bs when those in `present` are present: *)
(* None is {}, Full is Block, anything else is a checksum of what is        *)
(* present.                                                                 *)

PresenceOf(bs, present) == IF bs \subseteq present THEN Block ELSE bs \cap present

Presence(s) == {PresenceOf(Content[s], present) : present \in SUBSET Block}

-----------------------------------------------------------------------------
(* Requests.  A variant is the pair of the local and the remote block      *)
(* presence of the node.  The local one of a root node may still be that of*)
(* an older snapshot; that of a leaf is always `None`.                     *)

RootReq(c, s) == <<"root", c, s>>           \* the cookie is unique per request
Top(s, local, remote) == <<"top", s, local, remote>>
Leaf(b, remote) == <<"leaf", b, remote>>
BlockReq(b) == <<"block", b>>
PushKey == <<"push">>

Request ==
    {RootReq(c, s) : c \in Client, s \in Snapshot}
      \cup UNION {{Top(s, l, r) : l \in UNION {Presence(o) : o \in 1 .. s},
                                r \in Presence(s)} : s \in Snapshot}
      \cup {Leaf(b, r) : b \in Block, r \in BOOLEAN}
      \cup {BlockReq(b) : b \in Block}

MessageKey ==
    [n \in Request |-> IF n[1] = "root" THEN n ELSE <<n[1], n[2]>>]

Keys == {MessageKey[n] : n \in Request} \cup {PushKey}

RT == INSTANCE RequestTracker WITH
        Key <- Keys, Node <- Request, KeyOf <- MessageKey,
        Follow <- [k \in Keys |-> {}], InitialNode <- [c \in Client |-> {}],
        BlockNode <- {BlockReq(b) : b \in Block}, Choker <- {}

BT == INSTANCE BlockTracker WITH clients <- tracker.clients

-----------------------------------------------------------------------------
(* The store.                                                              *)

\* MultiBlockPresence::is_outdated
Outdated(local, remote) ==
    local # Block /\ remote # {} /\ (local = {} \/ remote = Block \/ local # remote)

Stored(d) == {s \in Snapshot : d.roots[s] # "none"}
LatestStored(d) == IF Stored(d) = {} THEN 0 ELSE Max(Stored(d))

\* Summaries are written by the commit, so those of the open transaction are
\* the committed ones.
RootPresence(s) ==
    IF s \in db.tops THEN PresenceOf(Content[s], db.present) ELSE {}
LeafOutdated(b, remote) == b \notin db.leaves \/ (b \notin db.present /\ remote)

\* The roots that reference block b, provided b is missing.
RootsOfMissing(d, b) ==
    {s \in d.tops : b \in Content[s] /\ b \in d.leaves \ d.present}

\* Mutant: an offer of a snapshot not yet approved counts as approved.
OfferStateEager(d, b) == IF RootsOfMissing(d, b) = {} THEN "none" ELSE "Approved"

\* load_node_state_of_missing and block_offer_state
OfferState(d, b) ==
    LET states == {d.roots[s] : s \in RootsOfMissing(d, b)} IN
    CASE "Approved" \in states -> "Approved"
      [] "Approved" \notin states /\ "Incomplete" \in states -> "Pending"
      [] OTHER -> "none"

\* Snapshots that have just become complete.
Completed(d) ==
    {s \in d.tops : d.roots[s] = "Incomplete" /\ Content[s] \subseteq d.leaves}

Approved(d) == {s \in Snapshot : d.roots[s] = "Approved"}

\* finalize_snapshots approves `new`.  The completed snapshots are looked at
\* in any order, and one that is older than an approved one is rejected.
Finalizes(d, new) ==
    /\ new \subseteq Completed(d)
    /\ \A s \in Completed(d) :
          LET fits == Cardinality(Content[s]) <= setup.quota
              outdated == \E r \in Approved(d) : r > s
              overtaken == \E r \in new : r > s
          IN  IF HasQuota
              THEN /\ s \in new => fits /\ ~outdated
                   /\ s \notin new => ~fits \/ outdated \/ overtaken
              ELSE s \in new

-----------------------------------------------------------------------------
(* Initial state, connections and what the peers do.                       *)

NotOffering == [block |-> NoNode, state |-> "none", joining |-> FALSE]
NothingToApprove == [blocks |-> {}, refresh |-> 0]

Init ==
    /\ setup \in Setups
    /\ RT!Init
    /\ offers = [c \in Client |-> BT!NoOffers] /\ required = {}
    /\ mode = setup.mode /\ blockTx = [c \in Client |-> BT!NothingSent]
    /\ db = [roots |-> [s \in Snapshot |-> "none"], tops |-> {}, leaves |-> {}, present |-> {}]
    /\ tx = db /\ writer = NoClient
    /\ peer = [c \in Client |-> 0] /\ has = setup.has
    /\ inbox = [c \in Client |-> <<>>]
    /\ offering = [c \in Client |-> NotOffering]
    /\ approval = [c \in Client |-> NothingToApprove]

RootMsg(c, k, s) == [kind |-> "root", key |-> k, snapshot |-> s,
                     present |-> PresenceOf(Content[s], has[c])]

\* The server's first unchoke pushes the root nodes it has.
Connect(c) ==
    /\ c \in setup.clients
    /\ RT!InsertClient(c)
    /\ BT!InsertClient(c)
    /\ inbox' = [inbox EXCEPT ![c] =
                   IF peer[c] = 0 THEN <<>> ELSE <<RootMsg(c, PushKey, peer[c])>>]
    /\ UNCHANGED <<storeVars, peer, has, taskVars, setup>>

\* Mutant: the client's task keeps running after it was removed.
DisconnectKeepsRunning(c) ==
    /\ c \in setup.unstable
    /\ RT!RemoveClient(c)
    /\ BT!RemoveClient(c)
    /\ UNCHANGED <<storeVars, peerVars, taskVars, setup>>

\* The client is dropped at any of its awaits; its transaction rolls back.
Disconnect(c) ==
    /\ c \in setup.unstable
    /\ RT!RemoveClient(c)
    /\ BT!RemoveClient(c)
    /\ inbox' = [inbox EXCEPT ![c] = <<>>]
    /\ writer' = IF writer = c THEN NoClient ELSE writer
    /\ tx' = IF writer = c THEN db ELSE tx
    /\ offering' = [offering EXCEPT ![c] = NotOffering]
    /\ approval' = [approval EXCEPT ![c] = NothingToApprove]
    /\ UNCHANGED <<db, peer, has, setup>>

Deliver(c, m) ==
    inbox' = [inbox EXCEPT ![c] = IF c \in tracker.clients THEN Append(@, m) ELSE @]

\* The peer approves its next snapshot (handle_branch_changed_event).
PeerUpdates(c) ==
    /\ peer[c] < setup.last
    /\ peer' = [peer EXCEPT ![c] = @ + 1]
    /\ Deliver(c, RootMsg(c, PushKey, peer[c] + 1))
    /\ UNCHANGED <<tracker, receiver, blockVars, storeVars, has, taskVars, setup>>

\* The peer receives a block of its snapshot (handle_block_received_event).
PeerReceives(c, b) ==
    /\ peer[c] > 0 /\ b \in Content[peer[c]] \ has[c]
    /\ has' = [has EXCEPT ![c] = @ \cup {b}]
    /\ Deliver(c, [kind |-> "offer", block |-> b])
    /\ UNCHANGED <<tracker, receiver, blockVars, storeVars, peer, taskVars, setup>>

\* What c's peer may answer to request n.  A snapshot it no longer needs may
\* have been removed by then.
Answers(c, n) ==
    LET error == [kind |-> "error", key |-> MessageKey[n]] IN
    CASE n[1] = "root" ->
           {IF peer[c] = 0 THEN error ELSE RootMsg(c, n, peer[c])}
      [] n[1] = "top" ->
           {[kind |-> "top", snapshot |-> n[2], present |-> Content[n[2]] \cap has[c]]}
             \cup {error : s \in {s \in Snapshot : n[2] < s /\ s <= peer[c]}}
      [] n[1] = "leaf" -> {[kind |-> "leaf", block |-> n[2], present |-> n[2] \in has[c]]}
      [] n[1] = "block" ->
           {IF n[2] \in has[c] THEN [kind |-> "block", block |-> n[2]] ELSE error}

\* The client's send_requests task; the peer answers, or discards the request.
SendRequest(c) ==
    /\ RT!SendRequest(c)
    /\ LET sent == {n \in Request : /\ n \in RT!TrackedBy(tracker, c)
                                    /\ tracker.requests[n].state = "Ready"
                                    /\ tracker'.requests[n].state = "InFlight"}
       IN  IF sent = {} THEN UNCHANGED inbox
           ELSE \/ \E n \in sent : \E m \in Answers(c, n) : Deliver(c, m)
                \/ c \in setup.lossy /\ UNCHANGED inbox
    /\ UNCHANGED <<blockVars, storeVars, peer, has, taskVars, setup>>

-----------------------------------------------------------------------------
(* The client's handle_responses task: a writable and a readable arm that   *)
(* are joined at the end of each batch.                                     *)

NextIs(c, kind) == inbox[c] # <<>> /\ Head(inbox[c]).kind = kind

\* The next response goes to the writable arm, which opens the transaction
\* when it starts a batch; it starts none before the last batch has ended.
Writes(c, d) ==
    /\ writer \in {NoClient, c}
    /\ writer = c \/ ~offering[c].joining
    /\ approval[c] = NothingToApprove
    /\ inbox' = [inbox EXCEPT ![c] = Tail(@)]
    /\ writer' = c
    /\ tx' = d
    /\ UNCHANGED <<receiver, db, peer, has, taskVars, setup>>

\* RequestTrackerClient::receive, then success with the follow-up requests.
Succeed(c, k, followUps) ==
    tracker' = RT!HandleSuccess(RT!HandleReceive(tracker, c, k), c, k, followUps)

HandleRootNode(c) ==
    /\ NextIs(c, "root")
    /\ LET m == Head(inbox[c])
           s == m.snapshot
           latest == LatestStored(tx)
           local == IF latest = 0 THEN {} ELSE RootPresence(latest)
           updated == \/ s > latest
                      \/ s = latest /\ Outdated(local, m.present)
       IN  /\ Succeed(c, m.key, IF updated THEN {Top(s, local, m.present)} ELSE {})
           /\ Writes(c, IF s > latest THEN [tx EXCEPT !.roots[s] = "Incomplete"] ELSE tx)
    /\ UNCHANGED blockVars

HandleInnerNodes(c) ==
    /\ NextIs(c, "top")
    /\ LET m == Head(inbox[c])
           s == m.snapshot
           exists == tx.roots[s] # "none"
           outdated == {b \in Content[s] : exists /\ LeafOutdated(b, b \in m.present)}
       IN  /\ Succeed(c, <<"top", s>>, {Leaf(b, b \in m.present) : b \in outdated})
           /\ Writes(c, IF exists THEN [tx EXCEPT !.tops = @ \cup {s}] ELSE tx)
    /\ UNCHANGED blockVars

\* Mutant: the blocks are requested but not offered.
HandleLeafNodesNoOffer(c) ==
    /\ NextIs(c, "leaf")
    /\ LET m == Head(inbox[c])
           b == m.block
           exists == \E s \in tx.tops : b \in Content[s]
           offered == exists /\ m.present /\ b \notin tx.present /\ OfferState(tx, b) # "none"
       IN  /\ Succeed(c, <<"leaf", b>>, IF offered THEN {BlockReq(b)} ELSE {})
           /\ Writes(c, IF exists THEN [tx EXCEPT !.leaves = @ \cup {b}] ELSE tx)
    /\ UNCHANGED blockVars

\* The request is inserted before its block is offered.
HandleLeafNodes(c) ==
    /\ NextIs(c, "leaf")
    /\ LET m == Head(inbox[c])
           b == m.block
           exists == \E s \in tx.tops : b \in Content[s]
           state == IF HasQuota THEN OfferState(tx, b) ELSE "Approved"
           offered == exists /\ m.present /\ b \notin tx.present /\ state # "none"
       IN  /\ Succeed(c, <<"leaf", b>>, IF offered THEN {BlockReq(b)} ELSE {})
           /\ Writes(c, IF exists THEN [tx EXCEPT !.leaves = @ \cup {b}] ELSE tx)
           /\ IF offered THEN BT!InsertOffer(c, b, state) ELSE UNCHANGED blockVars

HandleBlock(c) ==
    /\ NextIs(c, "block")
    /\ LET b == Head(inbox[c]).block IN
           /\ Succeed(c, BlockReq(b), {})
           /\ Writes(c, IF b \in tx.leaves THEN [tx EXCEPT !.present = @ \cup {b}] ELSE tx)
    /\ UNCHANGED blockVars

\* RootNodeError, ChildNodesError, BlockError
HandleError(c) ==
    /\ NextIs(c, "error")
    /\ LET k == Head(inbox[c]).key IN
           tracker' = RT!HandleFailure(RT!HandleReceive(tracker, c, k), c, k)
    /\ inbox' = [inbox EXCEPT ![c] = Tail(@)]
    /\ UNCHANGED <<receiver, blockVars, storeVars, peer, has, taskVars, setup>>

\* load_block_offer_state
LoadBlockOfferState(d, b) ==
    IF HasQuota THEN OfferState(d, b)
    ELSE IF b \in d.leaves \ d.present THEN "Approved" ELSE "none"

\* The second half of handle_block_offer: request first, then offer.
Offer(c, b, state) ==
    IF state = "none" THEN UNCHANGED <<tracker, blockVars>>
    ELSE /\ tracker' = RT!InsertRequest(tracker, c, BlockReq(b), NoNode)
         /\ BT!InsertOffer(c, b, state)

\* An offer that depends on a leaf of the same batch is handled in its
\* transaction.
HandleBlockOfferWritable(c) ==
    /\ NextIs(c, "offer")
    /\ LET b == Head(inbox[c]).block IN
           /\ writer = c /\ b \in tx.leaves \ db.leaves
           /\ Offer(c, b, LoadBlockOfferState(tx, b))
    /\ Writes(c, tx)

\* Any other offer goes to the readable arm, which loads the committed state,
LoadBlockOffer(c) ==
    /\ NextIs(c, "offer")
    /\ LET b == Head(inbox[c]).block IN
           /\ ~(writer = c /\ b \in tx.leaves \ db.leaves)
           /\ offering[c] = NotOffering /\ approval[c] = NothingToApprove
           /\ offering' = [offering EXCEPT ![c] =
                 IF LoadBlockOfferState(db, b) = "none" THEN @
                 ELSE [@ EXCEPT !.block = b, !.state = LoadBlockOfferState(db, b)]]
    /\ inbox' = [inbox EXCEPT ![c] = Tail(@)]
    /\ UNCHANGED <<tracker, receiver, blockVars, storeVars, peer, has, approval, setup>>

\* and acts on it later, while the writable arm may have committed.
SendBlockOffer(c) ==
    /\ offering[c] # NotOffering
    /\ Offer(c, offering[c].block, offering[c].state)
    /\ offering' = [offering EXCEPT ![c] = NotOffering]
    /\ UNCHANGED <<receiver, storeVars, peerVars, approval, setup>>

\* Mutant: a snapshot that does not pass the quota check stays complete.
CommitResponsesNoReject(c) ==
    /\ writer = c
    /\ \E new \in SUBSET Completed(tx) :
          /\ Finalizes(tx, new)
          /\ db' = [tx EXCEPT !.roots = [s \in Snapshot |->
                      IF s \in new THEN "Approved"
                      ELSE IF s \in Completed(tx) THEN "Complete" ELSE @[s]]]
    /\ tx' = db' /\ writer' = NoClient
    /\ tracker' = RT!HandleCommit(tracker, c)
    /\ UNCHANGED <<receiver, blockVars, peerVars, taskVars, setup>>

\* commit_responses: the commit and its callback.  What has to be approved
\* and refreshed is decided here and done after another await.
CommitResponses(c) ==
    /\ writer = c
    /\ \E new \in SUBSET Completed(tx) :
          /\ Finalizes(tx, new)
          /\ db' = [tx EXCEPT !.roots = [s \in Snapshot |->
                      IF s \in new THEN "Approved"
                      ELSE IF s \in Completed(tx) THEN "Rejected" ELSE @[s]]]
          /\ approval' = [approval EXCEPT ![c] =
                IF new = {} THEN NothingToApprove
                ELSE [blocks  |-> IF HasQuota
                                  THEN Content[Max(Approved(tx) \cup new)] \ tx.present
                                  ELSE {},
                      refresh |-> Max(new)]]
    /\ tx' = db'
    /\ writer' = NoClient
    /\ offering' = [offering EXCEPT ![c] =
                      IF @ = NotOffering THEN @ ELSE [@ EXCEPT !.joining = TRUE]]
    /\ tracker' = RT!HandleCommit(tracker, c)
    /\ UNCHANGED <<receiver, blockVars, peerVars, setup>>

\* Approve the pending offers of the newly approved snapshot.
ApproveBlock(c, b) ==
    /\ b \in approval[c].blocks
    /\ UNCHANGED tracker
    /\ BT!ApproveOffers(b)
    /\ approval' = [approval EXCEPT ![c].blocks = @ \ {b}]
    /\ UNCHANGED <<receiver, storeVars, peerVars, offering, setup>>

\* Mutant: the approved branch is not requested again.
RefreshBranchNot(c) ==
    /\ approval[c].refresh # 0 /\ approval[c].blocks = {}
    /\ approval' = [approval EXCEPT ![c] = NothingToApprove]
    /\ UNCHANGED <<tracker, receiver, blockVars, storeVars, peerVars, offering, setup>>

\* refresh_branches
RefreshBranch(c) ==
    /\ approval[c].refresh # 0 /\ approval[c].blocks = {}
    /\ tracker' = RT!InsertRequest(tracker, c, RootReq(c, approval[c].refresh), NoNode)
    /\ approval' = [approval EXCEPT ![c] = NothingToApprove]
    /\ UNCHANGED <<receiver, blockVars, storeVars, peerVars, offering, setup>>

-----------------------------------------------------------------------------
(* The other tasks.                                                         *)

ReceiveEvent(c) ==
    /\ \E k \in Keys : RT!ReceiveEvent(c, k)
    /\ UNCHANGED <<blockVars, storeVars, peerVars, taskVars, setup>>

\* Mutant: an accepted offer does not resume the request.
RequestBlocksOnly(c, b) ==
    /\ UNCHANGED tracker
    /\ BT!RequestBlocks(c, b)
    /\ UNCHANGED <<receiver, storeVars, peerVars, taskVars, setup>>

\* request_blocks: a block id from the block tracker resumes the request.
RequestBlocks(c, b) ==
    /\ tracker' = RT!HandleResume(tracker, BlockReq(b))
    /\ BT!RequestBlocks(c, b)
    /\ UNCHANGED <<receiver, storeVars, peerVars, taskVars, setup>>

\* A timer expires for a request whose answer is late or was never sent.
Timeout(c) ==
    /\ c \in setup.lossy
    /\ \E k \in Keys : RT!Timeout(c, k)
    /\ UNCHANGED <<blockVars, storeVars, peerVars, taskVars, setup>>

\* The local scan, or a reader, misses a block of an approved snapshot.
RequireBlock(b) ==
    /\ \E s \in Approved(db) : b \in Content[s]
    /\ b \notin db.present
    /\ UNCHANGED tracker
    /\ BT!InsertRequired(b)
    /\ UNCHANGED <<receiver, storeVars, peerVars, taskVars, setup>>

SendRequests(c) == ReceiveEvent(c) \/ SendRequest(c)

HandleWritable(c) ==
    \/ HandleRootNode(c) \/ HandleInnerNodes(c) \/ HandleLeafNodes(c)
    \/ HandleBlock(c) \/ HandleBlockOfferWritable(c)
    \/ CommitResponses(c) \/ RefreshBranch(c)
    \/ \E b \in Block : ApproveBlock(c, b)

HandleReadable(c) == HandleError(c) \/ LoadBlockOffer(c) \/ SendBlockOffer(c)

Next ==
    \/ \E c \in Client : \/ Connect(c) \/ Disconnect(c) \/ PeerUpdates(c)
                         \/ SendRequests(c) \/ HandleWritable(c) \/ HandleReadable(c)
                         \/ Timeout(c)
    \/ \E c \in Client, b \in Block : PeerReceives(c, b) \/ RequestBlocks(c, b)
    \/ \E b \in Block : RequireBlock(b)

Spec == Init /\ [][Next]_vars

-----------------------------------------------------------------------------
(* Properties.                                                              *)

\* Type invariant of the store and of the client tasks (the trackers have
\* their own).
TypeOK ==
    /\ {db, tx} \subseteq
         [roots : [Snapshot -> {"none", "Incomplete", "Approved", "Rejected"}],
          tops : SUBSET Snapshot, leaves : SUBSET Block, present : SUBSET Block]
    /\ writer \in Client \cup {NoClient}
    /\ peer \in [Client -> 0 .. Len(Content)] /\ has \in [Client -> SUBSET Block]
    /\ offering \in [Client -> [block : Block \cup {NoNode},
                                state : {"none", "Pending", "Approved"}, joining : BOOLEAN]]
    /\ approval \in [Client -> [blocks : SUBSET Block, refresh : 0 .. Len(Content)]]

\* Neither tracker's commands, issued in the order the clients issue them, make
\* the request tracker's worker panic.
NoPanic == ~tracker.panicked

\* With a quota, a block request goes out only for a block of a snapshot that
\* was approved: "Pending" offers exist to hold the request back until then.
RequestsRespectQuota ==
    \A b \in Block :
        (HasQuota /\ tracker.requests[BlockReq(b)].state \in {"Ready"} \cup RT!Sent)
          => \E s \in Approved(db) : b \in Content[s]

\* A suspended request is never forgotten: some client waiting for it has
\* an offer in the block tracker or the block id in its channel, else nothing
\* would ever resume it.  (Unless one of several clients may disconnect: then
\* the request can outlive the only offer, see the Fallback setup.)
SuspendedCanResume ==
    (setup.unstable = {} \/ Cardinality(setup.clients) = 1) =>
      \A b \in Block : tracker.requests[BlockReq(b)].state = "Suspended" =>
        \E c \in tracker.requests[BlockReq(b)].waiters :
            offers[c][b] # "none" \/ blockTx[c][b] > 0

\* When the client tasks have a step to take, which is when their actions are
\* enabled.
CanSendRequests(c) ==
    IF receiver[c] = NoNode THEN tracker.events[c] # {} ELSE RT!Permits(c) > 0

CanHandleWritable(c) ==
    \/ writer = c
    \/ approval[c] # NothingToApprove
    \/ /\ writer = NoClient /\ ~offering[c].joining
       /\ \E kind \in {"root", "top", "leaf", "block"} : NextIs(c, kind)

CanHandleReadable(c) ==
    \/ offering[c] # NotOffering
    \/ NextIs(c, "error")
    \/ /\ NextIs(c, "offer") /\ approval[c] = NothingToApprove
       /\ ~(writer = c /\ Head(inbox[c]).block \in tx.leaves \ db.leaves)

\* Weak fairness of each task of each client and of connecting to the peers
\* that stay, strong fairness of the writable arm because the write lock of the
\* database is granted in turn; nothing obliges a peer to update, a block to be
\* required or a request to time out.  Except for Connect, weak and strong
\* fairness are spelled out with the conditions above, because ENABLED of the
\* trackers' commands is costly to evaluate.
Fairness ==
    \A c \in Client :
        /\ WF_vars(c \notin setup.unstable /\ Connect(c))
        /\ []<>~CanSendRequests(c) \/ []<><<SendRequests(c)>>_vars
        /\ <>[]~CanHandleWritable(c) \/ []<><<HandleWritable(c)>>_vars
        /\ []<>~CanHandleReadable(c) \/ []<><<HandleReadable(c)>>_vars
        /\ []<>(\A b \in Block : blockTx[c][b] = 0)
             \/ []<><<\E b \in Block : RequestBlocks(c, b)>>_vars

FairSpec == Spec /\ Fairness

\* The peer of a client that stays connected has the block in its snapshot.
Available(b) ==
    \E c \in setup.clients \ setup.unstable :
        peer[c] > 0 /\ b \in Content[peer[c]] \cap has[c]

\* A required block that a connected peer has is downloaded eventually.
RequiredIsDownloaded ==
    \A b \in Block : (b \in required /\ Available(b)) ~> b \in db.present
=============================================================================
