--------------------------- MODULE BlockExpiration ---------------------------
(***************************************************************************)
(* The block expiration tracker (lib/src/store/block_expiration_tracker.rs) *)
(* with its users: transactions that save or remove blocks, readers, and   *)
(* `Store::set_block_expiration` that starts it.  Write transactions        *)
(* exclude each other, but the tracker's memory is shared by all tasks and  *)
(* is not rolled back with a transaction.  Each action is the code between  *)
(* two points where another task can run.                                   *)
(*                                                                         *)
(* Abstractions.  Time: a tracked block may expire as soon as the task     *)
(* looks at it, or only after a sleep, and which of them is the oldest is  *)
(* not determined; `fresh` tells whether the chosen one was updated since. *)
(* A block's content is in the store exactly if its leaf nodes say Present, *)
(* which every transaction changes together.  One reader and one write     *)
(* transaction with one block at a time.  A branch that the clients are told *)
(* to reload is represented by the block it is reloaded for; `required` and *)
(* `reload` are what the task has asked for, until the block is saved again. *)
(***************************************************************************)
EXTENDS FiniteSets

CONSTANTS Block, NoBlock

ASSUME NoBlockAssumption == NoBlock \notin Block

VARIABLES
    db,         \* db[b]: committed presence of the leaf nodes of b
    tx,         \* the open write transaction
    read,       \* the reader between block::read and handle_block_update
    tracked,    \* blocks_by_id
    toMissing,  \* to_missing_if_expired
    notified,   \* watch_rx has a change the task has not seen
    pc,         \* where run_task is
    chosen,     \* the block it is about to expire
    fresh,      \* it sleeps, and `chosen` was neither updated nor removed meanwhile
    batch,      \* blocks it took from disk or from to_missing_if_expired
    required,   \* blocks it has required from the BlockDownloadTracker
    reload      \* blocks whose branches it has told the clients to reload

\* History variables: they record what happened and guard nothing.  Each holds
\* the blocks that one of two races has left untracked, until they are tracked.
VARIABLES
    undone,     \* untracked by the task after they were saved and tracked again
    unseen      \* saved by a transaction that began before the tracker was
                \* enabled and committed after it had read the database

shared == <<tracked, toMissing, notified>>
task == <<pc, chosen, fresh, batch>>
asked == <<required, reload>>
vars == <<db, tx, read, tracked, toMissing, notified, pc, chosen, fresh, batch,
          required, reload, undone, unseen>>
races == <<undone, unseen>>

PC == {"off", "load", "insert", "loop", "idle", "sleep", "write", "untrack",
       "missing", "ended", "failed"}

NoTx == [kind |-> "none", block |-> NoBlock, tracks |-> FALSE]
NoRead == [block |-> NoBlock, missing |-> FALSE]

Enabled == pc # "off"

Present(b) == db[b] = "Present"

Init ==
    /\ db \in [Block -> {"Missing", "Present", "Expired"}]
    /\ tx = NoTx /\ read = NoRead
    /\ tracked = {} /\ toMissing = {} /\ notified = FALSE
    /\ pc = "off" /\ chosen = NoBlock /\ fresh = FALSE /\ batch = {}
    /\ required = {} /\ reload = {} /\ undone = {} /\ unseen = {}

\* The updates of the leaf nodes: set_present, set_missing, set_missing_if_expired
\* and set_expired_if_present, by the presence they look for and the new one.
SetPresence(blocks, from, to) ==
    db' = [b \in Block |-> IF b \in blocks /\ db[b] \in from THEN to ELSE db[b]]

-----------------------------------------------------------------------------
(* The tracker's methods.                                                  *)

\* Mutant: the task is not notified.
HandleBlockUpdateSilent(b, missing) ==
    /\ tracked' = tracked \cup {b}
    /\ toMissing' = IF missing THEN toMissing \cup {b} ELSE toMissing
    /\ fresh' = (fresh /\ b # chosen)
    /\ undone' = undone \ {b} /\ unseen' = unseen \ {b}
    /\ UNCHANGED <<notified, pc, chosen, batch>>

HandleBlockUpdate(b, missing) ==
    /\ tracked' = tracked \cup {b}
    /\ toMissing' = IF missing THEN toMissing \cup {b} ELSE toMissing
    /\ notified' = TRUE
    /\ fresh' = (fresh /\ b # chosen)
    /\ undone' = undone \ {b} /\ unseen' = unseen \ {b}
    /\ UNCHANGED <<pc, chosen, batch>>

RemoveBlock(b) ==
    /\ tracked' = tracked \ {b}
    /\ fresh' = (fresh /\ b # chosen)
    /\ UNCHANGED <<toMissing, notified>>

\* Nothing keeps transactions from being open meanwhile.
Enable ==
    /\ pc = "off"
    /\ pc' = "load"
    /\ UNCHANGED <<db, tx, read, shared, chosen, fresh, batch, asked, races>>

-----------------------------------------------------------------------------
(* Its users.                                                              *)

\* The write lock is free: a client's transaction that waits does not hold it.
Unlocked == tx.kind \in {"none", "waiting"}

\* Mutant: a block is untracked when it is removed, before the commit.
BeginUntracks(kind, b) ==
    /\ tx = NoTx
    /\ kind = "save" => ~Present(b)
    /\ tx' = [kind |-> kind, block |-> b, tracks |-> Enabled]
    /\ tracked' = IF kind = "remove" THEN tracked \ {b} ELSE tracked
    /\ UNCHANGED <<db, read, toMissing, notified, task, asked, races>>

\* A write transaction, which tracks blocks if the tracker exists when it has
\* got the write lock.
Begin(kind, b) ==
    /\ tx = NoTx
    /\ kind = "save" => ~Present(b)
    /\ tx' = [kind |-> kind, block |-> b, tracks |-> Enabled]
    /\ UNCHANGED <<db, read, shared, task, asked, races>>

\* That of a client looks for the tracker first and waits for the lock then.
BeginClientWrite(b) ==
    /\ tx = NoTx
    /\ tx' = [kind |-> "waiting", block |-> b, tracks |-> Enabled]
    /\ UNCHANGED <<db, read, shared, task, asked, races>>

\* A block that is present already is not saved.
LockClientWrite ==
    /\ tx.kind = "waiting"
    /\ tx' = IF Present(tx.block) THEN NoTx ELSE [tx EXCEPT !.kind = "save"]
    /\ UNCHANGED <<db, read, shared, task, asked, races>>

\* The block is tracked before the transaction commits.
SaveBlock ==
    /\ tx.kind = "save"
    /\ IF tx.tracks THEN HandleBlockUpdate(tx.block, FALSE)
                    ELSE UNCHANGED <<shared, task, races>>
    /\ tx' = [tx EXCEPT !.kind = "saved"]
    /\ UNCHANGED <<db, read, asked>>

CommitSave ==
    /\ tx.kind = "saved"
    /\ SetPresence({tx.block}, {"Missing", "Expired"}, "Present")
    /\ required' = required \ {tx.block} /\ reload' = reload \ {tx.block}
    /\ unseen' = IF ~tx.tracks /\ pc \notin {"off", "load"} THEN unseen \cup {tx.block} ELSE unseen
    /\ tx' = NoTx
    /\ UNCHANGED <<read, shared, task, undone>>

\* A removed block is untracked in the commit's callback, which runs before the
\* write lock is free.
CommitRemove ==
    /\ tx.kind = "remove"
    /\ SetPresence({tx.block}, {"Present", "Expired"}, "Missing")
    /\ tx' = IF tx.tracks THEN [tx EXCEPT !.kind = "removed"] ELSE NoTx
    /\ UNCHANGED <<read, shared, task, asked, races>>

UntrackCommit ==
    /\ tx.kind = "removed"
    /\ RemoveBlock(tx.block)
    /\ tx' = NoTx
    /\ UNCHANGED <<db, read, pc, chosen, batch, asked, races>>

\* The commit fails or the transaction is dropped without it.
Rollback ==
    /\ tx.kind \in {"waiting", "save", "saved", "remove"}
    /\ tx' = NoTx
    /\ UNCHANGED <<db, read, shared, task, asked, races>>

\* Reader::read_block finds the block or not, and then tells the tracker.
ReadBlock(b) ==
    /\ Enabled /\ read = NoRead
    /\ read' = [block |-> b, missing |-> ~Present(b)]
    /\ UNCHANGED <<db, tx, shared, task, asked, races>>

ReadDone ==
    /\ read # NoRead
    /\ HandleBlockUpdate(read.block, read.missing)
    /\ read' = NoRead
    /\ UNCHANGED <<db, tx, asked>>

-----------------------------------------------------------------------------
(* run_task.                                                               *)

Goto(l) == pc' = l

\* The turn of the loop is over, and with it the choice of a block.
Leave(l) == pc' = l /\ chosen' = NoBlock /\ fresh' = FALSE

Load ==
    /\ pc = "load"
    /\ batch' = {b \in Block : Present(b)}
    /\ Goto("insert")
    /\ UNCHANGED <<db, tx, read, shared, chosen, fresh, asked, races>>

Insert ==
    /\ pc = "insert"
    /\ tracked' = tracked \cup batch
    /\ undone' = undone \ batch /\ unseen' = unseen \ batch
    /\ batch' = {}
    /\ Goto("loop")
    /\ UNCHANGED <<db, tx, read, toMissing, notified, chosen, fresh, asked>>

\* Mutant: the set is taken although it is empty.
TakeMissingAlways ==
    /\ pc = "loop"
    /\ batch' = toMissing
    /\ toMissing' = {}
    /\ Goto("missing")
    /\ UNCHANGED <<db, tx, read, tracked, notified, chosen, fresh, asked, races>>

\* One turn of the loop: blocks read while expired come first, then the oldest
\* entry, which expires at once or after a sleep.
TakeMissing ==
    /\ pc = "loop" /\ toMissing # {}
    /\ batch' = toMissing
    /\ toMissing' = {}
    /\ Goto("missing")
    /\ UNCHANGED <<db, tx, read, tracked, notified, chosen, fresh, asked, races>>

TakeOldest(b) ==
    /\ pc = "loop" /\ toMissing = {}
    /\ b \in tracked
    /\ chosen' = b
    /\ \/ Goto("sleep") /\ fresh' = TRUE
       \/ Goto("write") /\ UNCHANGED fresh
    /\ UNCHANGED <<db, tx, read, shared, batch, asked, races>>

TakeNone ==
    /\ pc = "loop" /\ toMissing = {} /\ tracked = {}
    /\ Goto("idle")
    /\ UNCHANGED <<db, tx, read, shared, chosen, fresh, batch, asked, races>>

\* watch_rx.changed()
Wake ==
    /\ pc \in {"idle", "sleep"} /\ notified
    /\ notified' = FALSE
    /\ Leave("loop")
    /\ UNCHANGED <<db, tx, read, tracked, toMissing, batch, asked, races>>

\* `set_block_expiration` changes the duration during the sleep.
Reschedule ==
    /\ pc = "sleep"
    /\ Leave("loop")
    /\ UNCHANGED <<db, tx, read, shared, batch, asked, races>>

\* The sleep ends; the chosen block must still be the oldest.
Timeout ==
    /\ pc = "sleep"
    /\ IF fresh THEN Goto("write") /\ fresh' = FALSE /\ UNCHANGED chosen ELSE Leave("loop")
    /\ UNCHANGED <<db, tx, read, shared, batch, asked, races>>

\* The transaction that expires the chosen block; if there is nothing to expire
\* the task returns.
Expire ==
    /\ pc = "write" /\ Unlocked
    /\ SetPresence({chosen}, {"Present"}, "Expired")
    /\ IF Present(chosen) THEN Goto("untrack") /\ UNCHANGED <<chosen, fresh>> ELSE Leave("ended")
    /\ UNCHANGED <<tx, read, shared, batch, asked, races>>

\* The block may have been saved and tracked again since the transaction ended.
SavedAgain(b) == Present(b) \/ (tx.kind = "saved" /\ tx.tracks /\ tx.block = b)

\* The transaction is over by the time the block is untracked.
Untrack ==
    /\ pc = "untrack"
    /\ tracked' = tracked \ {chosen}
    /\ undone' = IF SavedAgain(chosen) THEN undone \cup {chosen} ELSE undone
    /\ Leave("loop")
    /\ UNCHANGED <<db, tx, read, toMissing, notified, batch, asked, unseen>>

\* Mutant: the clients are not told to reload the branches of the blocks.
SetAsMissingOnly ==
    /\ pc = "missing" /\ Unlocked
    /\ SetPresence(batch, {"Expired"}, "Missing")
    /\ required' = required \cup {b \in batch : db[b] = "Expired"}
    /\ batch' = {}
    /\ Goto("loop")
    /\ UNCHANGED <<tx, read, shared, chosen, fresh, reload, races>>

\* Those of the blocks that have expired are missing now; they are required
\* during the transaction, and their branches are reloaded after it.
SetAsMissingIfExpired ==
    LET missed == {b \in batch : db[b] = "Expired"} IN
    /\ pc = "missing" /\ Unlocked
    /\ SetPresence(batch, {"Expired"}, "Missing")
    /\ required' = required \cup missed
    /\ reload' = reload \cup missed
    /\ batch' = {}
    /\ Goto("loop")
    /\ UNCHANGED <<tx, read, shared, chosen, fresh, races>>

\* A database operation of the task fails; blocks were required before it did.
Fail ==
    /\ pc \in {"load", "write", "missing"}
    /\ \E done \in SUBSET {b \in batch : db[b] = "Expired"} : required' = required \cup done
    /\ Leave("failed")
    /\ batch' = {}
    /\ UNCHANGED <<db, tx, read, shared, reload, races>>

\* The program stops and starts again: only the database survives.
Restart ==
    /\ tx' = NoTx /\ read' = NoRead
    /\ tracked' = {} /\ toMissing' = {} /\ notified' = FALSE
    /\ pc' = "off" /\ chosen' = NoBlock /\ fresh' = FALSE /\ batch' = {}
    /\ required' = {} /\ reload' = {} /\ undone' = {} /\ unseen' = {}
    /\ UNCHANGED db

RunTask ==
    \/ Load \/ Insert \/ TakeMissing \/ TakeNone \/ Wake \/ Timeout \/ Untrack
    \/ \E b \in Block : TakeOldest(b)

Write == Expire \/ SetAsMissingIfExpired

\* What brings an open transaction to its end.
EndTx == LockClientWrite \/ SaveBlock \/ CommitSave \/ CommitRemove \/ UntrackCommit \/ Rollback

Use ==
    \/ \E b \in Block : \/ ReadBlock(b) \/ BeginClientWrite(b)
                        \/ \E kind \in {"save", "remove"} : Begin(kind, b)
    \/ EndTx \/ ReadDone

Next == Enable \/ Use \/ RunTask \/ Reschedule \/ Write \/ Fail \/ Restart

Spec == Init /\ [][Next]_vars

-----------------------------------------------------------------------------
\* Type invariant; the task holds a batch only between taking and using it.
TypeOK ==
    /\ db \in [Block -> {"Missing", "Present", "Expired"}]
    /\ tx \in [kind : {"none", "waiting", "save", "saved", "remove", "removed"},
               block : Block \cup {NoBlock}, tracks : BOOLEAN]
    /\ read \in [block : Block \cup {NoBlock}, missing : BOOLEAN]
    /\ tracked \in SUBSET Block /\ toMissing \in SUBSET Block /\ notified \in BOOLEAN
    /\ pc \in PC /\ chosen \in Block \cup {NoBlock} /\ fresh \in BOOLEAN
    /\ batch \in SUBSET Block /\ required \in SUBSET Block /\ reload \in SUBSET Block
    /\ undone \in SUBSET Block /\ unseen \in SUBSET Block
    /\ pc = "missing" => batch # {}
    /\ pc \notin {"missing", "insert"} => batch = {}

Knows(b) == b \in tracked \/ (pc = "insert" /\ b \in batch)

\* The task has read the database, and has not failed to.
Loaded == pc \notin {"off", "load", "failed"}

\* "If a block is present in the database, then BlockExpirationTracker must know
\* about it", from the time it has read the database and unless that failed:
\* else the block never expires.  Blocks saved by transactions that did not have
\* the tracker are left out here.
Known == Loaded => \A b \in Block : Present(b) => Knows(b) \/ b \in unseen

\* The two races are the only ways to lose a block: not removals that commit or
\* fail, saves that are rolled back or wait for the lock, reads, the tracker being
\* enabled while all these go on, or a restart in the middle of anything.
KnownUnlessRaced ==
    Loaded => \A b \in Block : Present(b) => Knows(b) \/ b \in undone \cup unseen

\* The task runs on, write transactions end, and the database lets the task
\* write in its turn.
FairSpec == Spec /\ WF_vars(RunTask) /\ SF_vars(Write) /\ WF_vars(EndTx)

\* A block that was read after it had expired is marked as missing, required and
\* its branches reloaded, so that it is downloaded again; unless it was saved or
\* is being removed anyway, or the task has ended.
ReadIsMissed ==
    \A b \in Block :
        (b \in toMissing /\ db[b] = "Expired")
            ~> \/ db[b] = "Missing" /\ b \in required \cap reload
               \/ Present(b)
               \/ tx.kind \in {"remove", "removed"} /\ tx.block = b
               \/ pc \in {"off", "ended", "failed"}

\* "If a block is in the expiration tracker but not in the database, it will
\* eventually expire which will then be a noop": the task goes on.
ExpiringIsNoop == pc # "ended"
=============================================================================
