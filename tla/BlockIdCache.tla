---------------------------- MODULE BlockIdCache ----------------------------
(***************************************************************************)
(* The block id cache (lib/src/store/block_id_cache.rs) with its users: the *)
(* read transactions that look blocks up (`find_block_at` of store/mod.rs)  *)
(* and the write transactions that commit received blocks (store/client.rs) *)
(* or remove blocks.  Each action is the code between two points where     *)
(* another task can run: a critical section of the cache's mutex, a        *)
(* database operation or an await.                                         *)
(*                                                                         *)
(* Abstractions.  An encoded locator and its block id are one Block.  What *)
(* a lookup tells is whether the block is present; "expired" is not told   *)
(* apart from missing.  Version vectors are the relation Older.            *)
(***************************************************************************)
EXTENDS Naturals, FiniteSets

CONSTANTS
    Reader,     \* read transactions
    Snap,       \* snapshots, by root hash
    Block,
    Older,      \* Older[s]: snapshots whose version vector is less or equal to s's
    Content     \* Content[s]: blocks in the leaf nodes of snapshot s

ASSUME SnapAssumption == Snap # {}
ASSUME OlderAssumption == Older \in [Snap -> SUBSET Snap]
ASSUME ContentAssumption == Content \in [Snap -> SUBSET Block]

VARIABLES
    db,         \* committed blocks that are present in the store
    marking,    \* blocks committed whose set_present is still to run
    state,      \* state[s]: "Loading", "Loaded", or "None" without an entry
    present,    \* present[s]: blocks a Loaded snapshot records as present
    pc,         \* where each reader is
    snap,       \* the snapshot it looks into
    view,       \* the blocks present when its transaction began
    woken       \* its Notified was completed since it was created

\* History variables: they record what happened and guard nothing.
VARIABLES
    changed,    \* changed[r]: blocks committed or removed since r's transaction began
    stale       \* stale[s]: blocks of a Loaded snapshot s that were committed or
                \* removed while it was loaded, or removed later, and that no
                \* set_present has put right

cache == <<state, present, stale>>
store == <<db, marking>>
vars == <<db, marking, state, present, pc, snap, view, woken, changed, stale>>

PC == {"idle", "lookup", "load", "check", "wait", "query"}

Init ==
    /\ db = {} /\ marking = {}
    /\ state = [s \in Snap |-> "None"] /\ present = [s \in Snap |-> {}]
    /\ pc = [r \in Reader |-> "idle"]
    /\ snap = [r \in Reader |-> CHOOSE s \in Snap : TRUE]
    /\ view = [r \in Reader |-> {}]
    /\ woken = [r \in Reader |-> FALSE]
    /\ changed = [r \in Reader |-> {}] /\ stale = [s \in Snap |-> {}]

Goto(r, l) == pc' = [pc EXCEPT ![r] = l]

\* The transaction begins by loading the root node it looks into.
Begin(r, s) ==
    /\ pc[r] = "idle"
    /\ Goto(r, "lookup")
    /\ snap' = [snap EXCEPT ![r] = s]
    /\ view' = [view EXCEPT ![r] = db]
    /\ changed' = [changed EXCEPT ![r] = {}]
    /\ UNCHANGED <<store, cache, woken>>

\* A hit answers, whether the locator is found or not; a miss goes on to load.
Lookup(r) ==
    /\ pc[r] = "lookup"
    /\ Goto(r, IF state[snap[r]] = "Loaded" THEN "idle" ELSE "load")
    /\ UNCHANGED <<store, cache, snap, view, woken, changed>>

\* The Notified exists before the cache is looked at.
Register(r) ==
    /\ pc[r] = "load"
    /\ woken' = [woken EXCEPT ![r] = FALSE]
    /\ Goto(r, "check")
    /\ UNCHANGED <<store, cache, snap, view, changed>>

\* Mutant: a snapshot that is being loaded is loaded a second time.
CheckAgain(r) ==
    /\ pc[r] = "check"
    /\ Goto(r, IF state[snap[r]] = "Loaded" THEN "lookup" ELSE "query")
    /\ state' = [state EXCEPT ![snap[r]] = IF @ = "Loaded" THEN @ ELSE "Loading"]
    /\ UNCHANGED <<store, present, stale, snap, view, woken, changed>>

Check(r) ==
    /\ pc[r] = "check"
    /\ Goto(r, CASE state[snap[r]] = "Loaded"  -> "lookup"
                 [] state[snap[r]] = "Loading" -> "wait"
                 [] state[snap[r]] = "None"    -> "query")
    /\ state' = [state EXCEPT ![snap[r]] = IF @ = "None" THEN "Loading" ELSE @]
    /\ UNCHANGED <<store, present, stale, snap, view, woken, changed>>

Wake(r) ==
    /\ pc[r] = "wait" /\ woken[r]
    /\ Goto(r, "load")
    /\ UNCHANGED <<store, cache, snap, view, woken, changed>>

\* notify_waiters reaches every Notified that exists.
NotifyWaiters == woken' = [q \in Reader |-> woken[q] \/ pc[q] \in {"check", "wait"}]

\* Mutant: all other snapshots are evicted, the newer and concurrent ones too.
CompleteEvictsAll(r) ==
    LET s == snap[r]
        evicted == {o \in Snap : state[o] = "Loaded"}
    IN  /\ pc[r] = "query"
        /\ state' = [o \in Snap |-> IF o = s THEN "Loaded"
                                    ELSE IF o \in evicted THEN "None" ELSE state[o]]
        /\ present' = [o \in Snap |-> IF o = s THEN view[r] \cap Content[s]
                                      ELSE IF o \in evicted THEN {} ELSE present[o]]
        /\ stale' = [o \in Snap |-> IF o = s THEN changed[r] \cap Content[s]
                                    ELSE IF o \in evicted THEN {} ELSE stale[o]]
        /\ NotifyWaiters
        /\ Goto(r, "lookup")
        /\ UNCHANGED <<store, snap, view, changed>>

\* The query is done: outdated snapshots are evicted, the new one is inserted
\* as its transaction sees it, and all who wait are woken.
Complete(r) ==
    LET s == snap[r]
        evicted == {o \in Older[s] : state[o] = "Loaded"}
    IN  /\ pc[r] = "query"
        /\ state' = [o \in Snap |-> IF o = s THEN "Loaded"
                                    ELSE IF o \in evicted THEN "None" ELSE state[o]]
        /\ present' = [o \in Snap |-> IF o = s THEN view[r] \cap Content[s]
                                      ELSE IF o \in evicted THEN {} ELSE present[o]]
        /\ stale' = [o \in Snap |-> IF o = s THEN changed[r] \cap Content[s]
                                    ELSE IF o \in evicted THEN {} ELSE stale[o]]
        /\ NotifyWaiters
        /\ Goto(r, "lookup")
        /\ UNCHANGED <<store, snap, view, changed>>

\* Mutant: a load that is given up forgets to wake the tasks that wait for it.
CancelSilent(r) ==
    /\ pc[r] \in {"wait", "query"}
    /\ Goto(r, "idle")
    /\ state' = IF pc[r] = "query" THEN [state EXCEPT ![snap[r]] = "None"] ELSE state
    /\ UNCHANGED <<store, present, stale, snap, view, woken, changed>>

\* The query fails, or the future is dropped at an await; the guard of a
\* running query cleans up.
Cancel(r) ==
    /\ pc[r] \in {"wait", "query"}
    /\ Goto(r, "idle")
    /\ IF pc[r] = "query"
       THEN state' = [state EXCEPT ![snap[r]] = "None"] /\ NotifyWaiters
       ELSE UNCHANGED <<state, woken>>
    /\ UNCHANGED <<store, present, stale, snap, view, changed>>

\* The block is committed or removed while the transactions of the readers run.
Changes(b) == changed' = [r \in Reader |-> changed[r] \cup {b}]

\* Mutant: the blocks are marked even if the commit fails.
CommitMarks(b, ok) ==
    /\ b \notin db /\ marking = {}
    /\ db' = IF ok THEN db \cup {b} ELSE db
    /\ marking' = {b}
    /\ IF ok THEN Changes(b) ELSE UNCHANGED changed
    /\ UNCHANGED <<cache, pc, snap, view, woken>>

\* A write transaction with a received block commits, or fails to.  It keeps the
\* write lock until its callback has run, see `commit_and_then` of db/mod.rs.
Commit(b, ok) ==
    /\ b \notin db /\ marking = {}
    /\ IF ok THEN db' = db \cup {b} /\ marking' = {b} /\ Changes(b)
             ELSE UNCHANGED <<store, changed>>
    /\ UNCHANGED <<cache, pc, snap, view, woken>>

Loaded == {s \in Snap : state[s] = "Loaded"}

\* Mutant: a block is added to snapshots that do not have its locator.
SetPresentInserts ==
    /\ marking # {}
    /\ marking' = {}
    /\ present' = [s \in Snap |-> IF s \in Loaded THEN present[s] \cup marking ELSE present[s]]
    /\ stale' = [s \in Snap |-> stale[s] \ marking]
    /\ UNCHANGED <<db, state, pc, snap, view, woken, changed>>

\* The commit's callback; it skips the snapshots that are being loaded.
SetPresent ==
    /\ marking # {}
    /\ marking' = {}
    /\ present' = [s \in Snap |-> IF s \in Loaded THEN present[s] \cup (marking \cap Content[s])
                                  ELSE present[s]]
    /\ stale' = [s \in Snap |-> IF s \in Loaded THEN stale[s] \ marking ELSE stale[s]]
    /\ UNCHANGED <<db, state, pc, snap, view, woken, changed>>

\* WriteTransaction::remove_block does not touch the cache.
RemoveBlock(b) ==
    /\ b \in db /\ marking = {}
    /\ db' = db \ {b}
    /\ Changes(b)
    /\ stale' = [s \in Snap |-> IF s \in Loaded THEN stale[s] \cup {b} ELSE stale[s]]
    /\ UNCHANGED <<marking, state, present, pc, snap, view, woken>>

Read(r) == Lookup(r) \/ Register(r) \/ Check(r) \/ Wake(r) \/ Complete(r)

Next ==
    \/ \E r \in Reader : (\E s \in Snap : Begin(r, s)) \/ Read(r) \/ Cancel(r)
    \/ \E b \in Block : RemoveBlock(b) \/ \E ok \in BOOLEAN : Commit(b, ok)
    \/ SetPresent

Spec == Init /\ [][Next]_vars

-----------------------------------------------------------------------------
\* Type invariant; what is known of a snapshot are blocks of its leaf nodes.
TypeOK ==
    /\ db \in SUBSET Block /\ marking \in SUBSET Block
    /\ state \in [Snap -> {"None", "Loading", "Loaded"}]
    /\ present \in [Snap -> SUBSET Block] /\ \A s \in Snap : present[s] \subseteq Content[s]
    /\ pc \in [Reader -> PC] /\ snap \in [Reader -> Snap]
    /\ view \in [Reader -> SUBSET Block] /\ woken \in [Reader -> BOOLEAN]
    /\ changed \in [Reader -> SUBSET Block] /\ stale \in [Snap -> SUBSET Block]

Loading(r, s) == pc[r] = "query" /\ snap[r] = s

\* A snapshot is marked as loading exactly while one reader queries it: `load`
\* is never run twice for a snapshot at the same time, and a load that fails or
\* is dropped leaves no mark behind that would block the others forever.
LoadingHasOwner ==
    \A s \in Snap :
        /\ state[s] = "Loading" <=> \E r \in Reader : Loading(r, s)
        /\ \A q, r \in Reader : Loading(q, s) /\ Loading(r, s) => q = r

\* Who sleeps in `notified.await` and was not woken sleeps on a load that is
\* still going on, so the guard that wakes it is still to be dropped.
NoLostWakeup ==
    \A r \in Reader : pc[r] = "wait" /\ ~woken[r] => state[snap[r]] = "Loading"

\* A loaded snapshot tells of each of its blocks what the store has.  The ways to
\* be wrong are those the history records: the block was committed or removed
\* while the snapshot was loaded, was removed later, or its commit's set_present
\* is still to run.  In particular failed commits mark nothing, evictions and
\* cancelled loads leave nothing behind, and a block committed after the load is
\* told to be present once the callback has run.
CacheCoherent ==
    \A s \in Loaded : \A b \in Content[s] \ (stale[s] \cup marking) :
        b \in present[s] <=> b \in db

\* A reader is not stopped while it can run, and loads are not given up over
\* and over again: that takes a failing database or callers that drop every
\* lookup they start.
FairSpec ==
    /\ Spec
    /\ \A r \in Reader : WF_vars(Read(r))
    /\ <>[][\A r \in Reader : ~Cancel(r)]_vars

\* A reader completes a load that evicts another snapshot of equal version
\* vector, as two drafts of a branch have.
EvictsEqual ==
    \E r \in Reader :
        /\ \E o \in Loaded : /\ o # snap[r]
                             /\ o \in Older[snap[r]] /\ snap[r] \in Older[o]
        /\ Complete(r)

\* Every lookup ends, also when others evict the snapshot it has just loaded or
\* give up the load it waits for; unless snapshots of equal version vectors are
\* evicting each other for ever.
LookupEnds ==
    \/ \A r \in Reader : pc[r] # "idle" ~> pc[r] = "idle"
    \/ []<><<EvictsEqual>>_vars
=============================================================================
