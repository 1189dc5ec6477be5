# Verification of ouisync

TLA+ models of the parts of ouisync (`lib/`) that decide which data is
downloaded from which peer and which blocks are kept, with the TLC runs that
check them on small instances and the TLAPS proofs that hold for every size.
`PROJECT.json` maps every definition to the source lines it models and lists the
runs, mutants, hazards, findings and theorems.

Contents: [the system](#the-system), [modules](#modules), [runs](#runs),
[fairness](#fairness), [proofs](#proofs), [findings](#findings),
[what is not modelled](#what-is-not-modelled), [plan](#plan).

## The system

A repository is a set of branches, one per writer. A branch is a sequence of
snapshots; a snapshot is a Merkle tree of index nodes (root, inner, leaf) whose
leaves name encrypted blocks. Replicas exchange index nodes and blocks with
their peers, merge the branches they see into their own, and throw away what is
no longer needed. All state that survives a restart is in one SQLite database
per repository, with one write transaction at a time and any number of readers.

| part | state | operations | interacts with |
|---|---|---|---|
| block tracker (`block_tracker.rs`) | offers per client, required blocks, request mode | offer, approve, require, clear, change the mode, add and remove clients | client, scan, vault |
| request tracker (`network/request_tracker.rs`, `graph.rs`) | graph of requests, request map and pending counter per client, timers | initial, send, receive, success, failure, resume, commit, choke, remove, timeout | client |
| client (`network/client.rs`) | inbox, batch, open transaction | handle each response, commit a batch, approve, refresh | both trackers, store, peer's server |
| server (`network/server.rs`, `choke.rs`) | choked or not, permits | answer requests, push root nodes and block offers | peer's client, store |
| index store (`store/client.rs`, `root_node.rs`, `index.rs`, `quota.rs`) | root nodes with states, inner and leaf nodes, block presence | save nodes and blocks, finalize snapshots under the quota | client, worker |
| block id cache (`store/block_id_cache.rs`) | block ids per snapshot, load marks | lookup, load, cancel, mark as present | readers, commits |
| block expiration (`store/block_expiration_tracker.rs`) | tracked blocks, blocks to mark as missing | update, untrack, expire, mark as missing, load at start | readers, commits, client |
| blob locks (`blob/lock.rs`) | lock kind and count per blob | read, clone, upgrade, unique, drop, wait | files, worker |
| repository worker (`repository/worker.rs`) | jobs and their triggers | merge, prune, trash, scan | store, block tracker |
| directories, files, blobs | cached entries and blocks, version vectors | open, write, fork, merge, remove | store, locks |
| connections, discovery, gateway | peers, links, retries | connect, deduplicate, exchange peers | client, server |
| service, vfs, cli, bindings | sessions, handles | the API | everything |

What makes it hard: each connected peer runs several concurrent tasks that share
two worker tasks and one database; a client may be dropped at any await; offers,
approvals, requirements and index nodes arrive in any order and nothing rescans
for what was missed; memory (trackers, cache) is updated next to transactions
that may still fail; timers race late answers; destructors update shared state.

What one would want to hold: no worker task panics; no wakeup is lost; a request
falls back on another peer; nothing is requested that the quota refuses; a
required block that a peer has is downloaded; caches and trackers agree with the
database; locks exclude each other and waiting for them ends.

## Modules

Each component has a module; `MC<module>` instantiates it for TLC;
`<module>Proofs` holds its theorems. Mutated operators, marked `Mutant:`, stand
before the operator they mutate and show that the properties can fail.

**BlockTracker.** One action per command of the worker (`InsertClient`,
`InsertOffer`, `ApproveOffers`, `InsertRequired`, `SetRequestMode`, ...) and
`RequestBlocks` for the client's task that drains the channel. `offers[c][b]` is
the client's table, `blockTx[c][b]` counts copies of a block id in its channel
(bound: `MaxQueue`); `TypeOK` says that clients that were removed have neither.

**RequestTracker.** The worker's state is one record, `tracker`; the operators of
the first part are the worker's methods as functions from state to state
(`CancelRequest`, `UpdateRequest`, `HandleSuccess`, `HandleCommit`, `SetChoked`,
...), so that a command that loops over requests is one atomic step, as in the
code. The second part has one action per command, the worker's timer and the two
halves of the receiver, between which it waits for a permit. A node of the graph
is a request with its variant. Every `expect`, `assert!`, `unreachable!` and
checked subtraction sets `panicked`, those in the filter of the commit command
included. Idle messages are left out.

**BlockDownload.** Composes both trackers (RequestTracker by its operators and
actions, BlockTracker by its actions, with the set of clients shared) with the
store, the clients' tasks and peers. The store is a record of root states, stored
inner and leaf nodes and present blocks, once committed (`db`) and once as the
open transaction sees it (`tx`). A client takes the next response from its inbox
to its writable arm (root, inner and leaf nodes, blocks, offers that depend on
the open batch) or its readable arm (errors, other offers, in two steps with an
await in between); commits, approvals and the refresh of the branch are separate
steps, and `Disconnect` may come between any two of them. Peers push snapshots
and offers, answer, err, or (if lossy) discard requests. A *setup* fixes which
clients connect, how many snapshots there are, the quota, the mode and what may
go wrong; it is chosen in the initial state, so that one run covers several.

**BlobLocker.** The table of `Locker` (`kind`, `count`) next to the locks that
exist (`readers`, `writers`, `uniques`) and the tasks that wait for an entry to
be dropped. Constructors, upgrade and the three destructors are actions.

**BlockIdCache.** Readers step through `find_block_at` (`Begin`, `Lookup`,
`Register`, `Check`, `Wake`, `Complete`, `Cancel`): each action is a critical
section of the cache or what lies between two awaits. Writers commit a block and
then mark it in the cache (`Commit`, `SetPresent`), or remove it (`RemoveBlock`,
which does not touch the cache); the write lock is held until the marking is
done. `view` is what a reader's transaction sees. Two history variables say what
a cached snapshot may be wrong about: `changed[r]`, blocks whose presence changed
since reader `r`'s transaction began, and `stale[s]`, those of them its load
left in the cache and those removed since. `Older` is a relation on snapshots
that includes pairs of equal version vectors, which drafts have.

**BlockExpiration.** The task `run_task` with its awaits as program counter
values, the shared memory of the tracker (`tracked`, `toMissing`, `notified`),
one write transaction at a time that saves or removes a block and may roll back,
a reader between reading and reporting, enabling, failures and restarts. A
client's write transaction looks for the tracker before it waits for the write
lock (`BeginClientWrite`, `LockClientWrite`), the others after. Marking blocks as
missing also requires them (`required`) and has their branches reloaded
(`reload`); what the download does with that is in BlockDownload and not composed.
Times are abstracted: any tracked block may be the oldest. Two history variables
hold the blocks left untracked by the two interleavings in which the documented
invariant fails: `undone`, a block saved while it is being expired, and `unseen`,
a block saved by a transaction that had looked for the tracker before it was
enabled. They guard nothing.

## Runs

| run | asks | instance |
|---|---|---|
| `block_tracker` | Is every approved and wanted offer sent to its client, once, and in lazy mode nothing else? | 2 clients, 2 blocks, queue of 2, symmetry |
| `request_sharing` | Do client maps, graph and counters stay consistent, does nothing leak, does the worker never panic? | 2 clients, 2 variants of an inner node over one block, 1 permit, symmetry |
| `request_competition` | Does a request fall back on those who wait, is no wakeup lost and no timer stale? | 3 clients, 2 variants, choking, 1 permit, symmetry |
| `request_live` | Is a ready request sent? | 2 clients, 2 variants, choking, 1 permit |
| `download_safety` | Does the composition never panic, never request what the quota refuses, never forget a suspended request? | setups `Rejected`, `Lossy`, `Pair`, `Fallback`: up to 2 peers, 2 snapshots, 2 blocks |
| `download_live` | Is a required block that a peer has downloaded? | setups `Offers`, `Two`, `Pair` |
| `download_fallback` | ... also when the peer that offered it disconnects? (no) | setup `Fallback`: 2 peers, one unstable |
| `blob_locks` | Do locks exclude each other, do destructors never panic, is nobody left waiting? | 5 owners, 2 blobs, symmetry |
| `block_id_cache` | Is a snapshot loaded by one reader at a time, is no sleeper forgotten, is what the cache tells right but for known overlaps, does every lookup end? | 2 readers, 3 snapshots (two with equal version vectors), 1 block |
| `block_expiration` | Does the tracker know every present block but those lost to two races, is a block read after its expiry marked as missing, required and reloaded? | 2 blocks |
| `block_expiration_race` | ... also if a block is saved while it is being expired? (no) | 1 block |
| `block_expiration_noop` | Is expiring a block that is not there harmless? (no) | 1 block |

Bounds. Two clients are enough for every interaction of a sender and a waiter;
the third of `request_competition` adds a waiter that stays when another leaves.
One permit makes receivers wait for permits. Two variants over one block are the
smallest graph in which a request has two parents, a client switches variants
and a removal goes up. Two snapshots of which the second adds a block have shared
and new index nodes. Five lock owners hold a read, an upgraded and cloned locks
of one blob with another waiting. One block is enough for the cache, whose blocks
do not interact; three snapshots have an older one and two that evict each other.
All other quantities are finite by themselves.
Symmetry is used only for sets of interchangeable model values and never with
liveness. Deadlock is checked except in BlockDownload, where the download really
is over at some time.

`RequiredIsDownloaded` is checked in setups where it holds. Two situations known
to break it besides `download_fallback` are kept out of them and listed as
hazards: with a quota, a second snapshot while a block of the first stays
unrequired; and two peers that both receive the block late.

## Fairness

* RequestTracker: receivers get on (weak fairness of sending when a permit is
  free; strong fairness of popping each queued event, since the queue is first-in
  first-out); timers expire, which the code arms for every request in flight; a
  response that was received is processed. Nothing is assumed of peers, who need
  neither answer nor unchoke.
* BlockDownload: each client task runs (weak fairness), peers that stay get
  connected, and the writable arm gets the write lock in its turn (strong
  fairness: the pool hands it out in order). No fairness of peers' updates, of
  requiring blocks or of timeouts. Except for `Connect` the conditions are spelled
  out instead of using `WF_vars` and `SF_vars`, to the same meaning, because
  ENABLED of the composed commands is expensive. That each condition holds exactly
  when its action can be taken was confirmed by exploring the setups of the two
  runs that use fairness with a probe of every condition.
* BlockIdCache: a reader that can run does; loads are not given up for ever,
  which takes a failing database or callers that drop all their lookups.
  `LookupEnds` has the alternative that snapshots of equal version vectors evict
  each other for ever. The code does not exclude it: without the alternative, TLC
  finds two readers of two drafts that load in turns and never find what they
  loaded.
* BlockExpiration: the task goes on and its sleeps end, open transactions end
  (weak fairness), and the task gets the write lock in its turn (strong fairness).

## Proofs

Every proof is checked by TLAPS for all values of the constants.

* **BlockTrackerProofs** (assumes `MaxQueue` a positive number). `TypeCorrect`,
  `MissedRequestsImpossible` (`NoMissedRequest`), `OffersNeverLost`
  (`OfferNotLost`). `NoMissedRequest` is inductive together with `TypeOK`;
  `AcceptEntry` says once what accepting a set of offers does to an entry. The
  action property follows from the types alone.
* **BlobLockerProofs** (assumes finitely many tasks, since locks are counted).
  The inductive invariant is `TypeOK`, `NoPanic`, `Exclusive`,
  `WaitersHaveHolder` and `EntryAccurate`. The last, which ties each blob's entry
  to the locks that exist, is what the others need, since destructors look only at
  the entry. Three lemmas for added and three for dropped locks do the counting
  for one blob; `OneBlob` says that the other blobs stay as they are. Yields
  `TypeCorrect`, `DestructorsNeverPanic`, `MutualExclusion`, `WakeupsNotLost`,
  `TableExact`.
* **BlockIdCacheProofs** (assumes the types of `Older` and `Content`, and a
  snapshot). `LoadsAreOwned` and `SleepersAreWoken`: the two invariants are
  inductive together with `TypeOK`. `CacheIsCoherent` (`CacheCoherent`): a loaded
  snapshot tells a block to be present exactly if it is committed, unless the
  block is in `stale` or its commit is about to mark it. The strengthening,
  `Coherent`, says the same of a transaction that may still load: what it sees is
  what is committed but for `changed`.
* **BlockExpirationProofs** (assumes `NoBlock` not a block). `TypeCorrect`, with
  the shape of transaction, reader and task; and `PresentIsKnown`
  (`KnownUnlessRaced`): every present block is known but those in `undone` and
  `unseen`. It does not say that the code keeps `Known`, which
  `block_expiration_race` refutes, but that nothing besides the two races breaks
  it. The strengthening: a saved block is tracked before its commit, or raced
  (`SavedIsTracked`); a removed block is gone when it is untracked
  (`RemovedIsGone`).

Only model-checked: everything about RequestTracker and BlockDownload (updating
and removing requests recurses over the graph, which the provers cannot follow),
`LazyRequestsApprovedAndRequired`, and all liveness properties.

## Findings

* `download_fallback`: a client that asks for a committed index node becomes a
  waiter of the block requests below it without offering the blocks. When the
  client that offered them disconnects, the requests stay suspended.
* `block_expiration_race`: the expiration task untracks a block after the
  transaction that expires it has ended. A block saved in between is present, is
  not tracked and never expires. The documentation of the tracker says that
  transaction ids exclude this; the code has none.
* `block_expiration_noop`: a tracked block that is not in the database ends the
  expiration task when its turn comes. A read that misses tracks such a block.
* A block saved by a transaction that looked for the tracker before it was enabled
  is never tracked. `Known` leaves these blocks (`unseen`) out, so that its
  counterexample is the race above. Listed as a hazard.
* Observed while modelling and listed as hazards: a block committed while its
  snapshot is being loaded stays missing in the block id cache until the snapshot
  is evicted; two readers of two drafts that evict each other's snapshot; an offer
  whose state was read before a commit approves its block (with a quota and a
  snapshot of two blocks it stays pending until the refresh); Idle sent to a peer while requests follow; root node responses
  dropped without ending their request.

## What is not modelled

Idle messages and the server's choking loop; lookups in write transactions, which
can load the block id cache with what is later rolled back; the download that
follows when an expired block was marked as missing; local writes, merging, pruning and
trash collection; several branches in one download and reloading of the index;
directories, files and blobs; connections and discovery; cryptography,
serialization, SQL, metrics and logging; service, virtual file systems, command
line and bindings. `PROJECT.json` lists each part with the reason.

## Plan

In order of importance:

1. Done: both trackers, their composition with the store, blob locks, block id
   cache, block expiration; first theorems of each but the request tracker.
2. Server and choker: shared permits, choked and unchoked phases, Idle; then a
   composition with RequestTracker in which both ends choke.
3. Version vectors, `keep_maximal` and `Bump` as operators with their algebra,
   and lemmas about merging; snapshots and branches of the store (approval,
   pruning, removal) on top of them, with an abstract specification of a branch
   whose latest approved snapshot only grows.
4. Repository worker: interruption and restart of jobs, and that a missing block
   of an approved snapshot is required eventually.
5. Joint directory merge over version vectors; connections deduplicated at both
   ends.
6. Proofs: the store's approval, the choker's permits, an abstract block tracker
   that BlockTracker implements.
