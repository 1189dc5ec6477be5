----------------------------- MODULE BlobLocker -----------------------------
(***************************************************************************)
(* The blob locks (lib/src/blob/lock.rs).  `kind` and `count` are the      *)
(* table shared by all lock objects, one entry per blob, guarded by a      *)
(* mutex: each action is one critical section.  `readers`, `writers` and   *)
(* `uniques` are the lock objects that exist, and `waiting` are the tasks  *)
(* that got an AwaitDrop of the entry and wait for the entry to go away.  A *)
(* task here is one owner of a lock: a file, a directory or an operation.  *)
(*                                                                         *)
(* Abstractions.  The branch id is part of the blob.  The counter does not *)
(* reach the limit of usize.                                               *)
(***************************************************************************)
EXTENDS Naturals, FiniteSets

CONSTANTS Task, Blob

ASSUME TaskAssumption == IsFiniteSet(Task)

VARIABLES
    kind,       \* kind[b]: State::kind, "None" if the table has no entry
    count,      \* count[b]: the counter of Kind::Read and Kind::Write
    readers, writers, uniques, waiting,
    panicked    \* an `unreachable!` or an `expect` was hit

table == <<kind, count>>
locks == <<readers, writers, uniques>>
vars == <<kind, count, readers, writers, uniques, waiting, panicked>>

Kind == {"None", "Read", "Write", "Unique"}

Nobody == [b \in Blob |-> {}]

Init ==
    /\ kind = [b \in Blob |-> "None"] /\ count = [b \in Blob |-> 0]
    /\ readers = Nobody /\ writers = Nobody /\ uniques = Nobody /\ waiting = Nobody
    /\ panicked = FALSE

Holders(b) == readers[b] \cup writers[b] \cup uniques[b]

\* The task neither holds nor waits for a lock.
Free(t) == \A b \in Blob : t \notin Holders(b) \cup waiting[b]

Panic == panicked' = TRUE /\ UNCHANGED <<kind, count, waiting>>

\* Set the entry of b.
Entry(b, k, n) ==
    /\ kind' = [kind EXCEPT ![b] = k]
    /\ count' = [count EXCEPT ![b] = n]
    /\ UNCHANGED <<waiting, panicked>>

\* Remove the entry of b; dropping its DropAwaitable wakes all who wait.
Remove(b) ==
    /\ kind' = [kind EXCEPT ![b] = "None"]
    /\ count' = [count EXCEPT ![b] = 0]
    /\ waiting' = [waiting EXCEPT ![b] = {}]
    /\ UNCHANGED panicked

\* BranchLocker::try_read, and ReadLock::clone for a second task.
TryRead(t, b) ==
    /\ Free(t)
    /\ kind[b] # "Unique"
    /\ Entry(b, IF kind[b] = "None" THEN "Read" ELSE kind[b], count[b] + 1)
    /\ readers' = [readers EXCEPT ![b] = @ \cup {t}]
    /\ UNCHANGED <<writers, uniques>>

Clone(t, u, b) ==
    /\ t \in readers[b] /\ Free(u)
    /\ IF kind[b] \in {"Read", "Write"}
       THEN /\ Entry(b, kind[b], count[b] + 1)
            /\ readers' = [readers EXCEPT ![b] = @ \cup {u}]
       ELSE Panic /\ UNCHANGED readers
    /\ UNCHANGED <<writers, uniques>>

\* BranchLocker::try_unique
TryUnique(t, b) ==
    /\ Free(t)
    /\ kind[b] = "None"
    /\ Entry(b, "Unique", 0)
    /\ uniques' = [uniques EXCEPT ![b] = @ \cup {t}]
    /\ UNCHANGED <<readers, writers>>

\* A failed try_read or try_unique whose caller decides to wait.
Wait(t, b) ==
    /\ Free(t)
    /\ kind[b] # "None"
    /\ waiting' = [waiting EXCEPT ![b] = @ \cup {t}]
    /\ UNCHANGED <<table, locks, panicked>>

\* The waiting future is dropped.
GiveUp(t, b) ==
    /\ t \in waiting[b]
    /\ waiting' = [waiting EXCEPT ![b] = @ \ {t}]
    /\ UNCHANGED <<table, locks, panicked>>

\* Mutant: a second writer is admitted.
UpgradeAlways(t, b) ==
    /\ t \in readers[b]
    /\ Entry(b, "Write", count[b] + 1)
    /\ writers' = [writers EXCEPT ![b] = @ \cup {t}]
    /\ UNCHANGED <<readers, uniques>>

\* ReadLock::upgrade: both locks exist until one of them is dropped.
Upgrade(t, b) ==
    /\ t \in readers[b]
    /\ CASE kind[b] = "Read" ->
              /\ Entry(b, "Write", count[b] + 1)
              /\ writers' = [writers EXCEPT ![b] = @ \cup {t}]
         [] kind[b] = "Write" ->
              UNCHANGED <<table, writers, waiting, panicked>>
         [] OTHER -> Panic /\ UNCHANGED writers
    /\ UNCHANGED <<readers, uniques>>

\* Mutant: the lock is released explicitly and again by its destructor.
DropReadTwice(t, b) ==
    /\ t \in readers[b]
    /\ IF count[b] = 2 THEN Remove(b) ELSE Entry(b, kind[b], count[b] - 2)
    /\ readers' = [readers EXCEPT ![b] = @ \ {t}]
    /\ UNCHANGED <<writers, uniques>>

\* Mutant: a reader that leaves a written blob turns the entry to reading.
DropReadDowngrades(t, b) ==
    /\ t \in readers[b]
    /\ IF count[b] = 1 THEN Remove(b) ELSE Entry(b, "Read", count[b] - 1)
    /\ readers' = [readers EXCEPT ![b] = @ \ {t}]
    /\ UNCHANGED <<writers, uniques>>

DropRead(t, b) ==
    /\ t \in readers[b]
    /\ IF kind[b] \notin {"Read", "Write"} \/ count[b] = 0 THEN Panic
       ELSE IF count[b] = 1 THEN Remove(b)
       ELSE Entry(b, kind[b], count[b] - 1)
    /\ readers' = [readers EXCEPT ![b] = @ \ {t}]
    /\ UNCHANGED <<writers, uniques>>

\* Mutant: the last writer leaves an entry without holders behind.
DropWriteKeepsEntry(t, b) ==
    /\ t \in writers[b]
    /\ Entry(b, "Read", count[b] - 1)
    /\ writers' = [writers EXCEPT ![b] = @ \ {t}]
    /\ UNCHANGED <<readers, uniques>>

\* The write lock may go before or after the read lock it was upgraded from.
DropWrite(t, b) ==
    /\ t \in writers[b]
    /\ IF kind[b] # "Write" \/ count[b] = 0 THEN Panic
       ELSE IF count[b] = 1 THEN Remove(b)
       ELSE Entry(b, "Read", count[b] - 1)
    /\ writers' = [writers EXCEPT ![b] = @ \ {t}]
    /\ UNCHANGED <<readers, uniques>>

DropUnique(t, b) ==
    /\ t \in uniques[b]
    /\ IF kind[b] # "Unique" THEN Panic ELSE Remove(b)
    /\ uniques' = [uniques EXCEPT ![b] = @ \ {t}]
    /\ UNCHANGED <<readers, writers>>

Step(t, b) ==
    \/ TryRead(t, b) \/ TryUnique(t, b) \/ Wait(t, b) \/ GiveUp(t, b) \/ Upgrade(t, b)
    \/ DropRead(t, b) \/ DropWrite(t, b) \/ DropUnique(t, b)
    \/ \E u \in Task : Clone(t, u, b)

Next == \E t \in Task, b \in Blob : Step(t, b)

Spec == Init /\ [][Next]_vars

-----------------------------------------------------------------------------
\* Type invariant.
TypeOK ==
    /\ kind \in [Blob -> Kind] /\ count \in [Blob -> Nat]
    /\ readers \in [Blob -> SUBSET Task] /\ writers \in [Blob -> SUBSET Task]
    /\ uniques \in [Blob -> SUBSET Task] /\ waiting \in [Blob -> SUBSET Task]
    /\ panicked \in BOOLEAN

\* None of the `unreachable!` and `expect` of the lock's methods and
\* destructors is hit, in whatever order locks are cloned, upgraded and
\* dropped.  (In a destructor a panic poisons the table's mutex.)
NoPanic == ~panicked

\* A unique lock shuts out everybody else: "No one else except the owner of the
\* lock can access the blob in any way while this lock is held"; and a write
\* lock "protects it from being written to by anyone else".
Exclusive ==
    \A b \in Blob :
        /\ uniques[b] # {} => readers[b] = {} /\ writers[b] = {}
        /\ \A t, u \in uniques[b] : t = u
        /\ \A t, u \in writers[b] : t = u

\* Nobody waits for an entry that no lock keeps alive, since only the last
\* lock's destructor wakes the waiting tasks.
WaitersHaveHolder == \A b \in Blob : waiting[b] # {} => Holders(b) # {}

\* The entry of a blob is what the existing locks add up to; an upgraded lock
\* counts twice until its read lock is dropped.
EntryAccurate ==
    \A b \in Blob :
        /\ kind[b] = IF uniques[b] # {} THEN "Unique"
                     ELSE IF writers[b] # {} THEN "Write"
                     ELSE IF readers[b] # {} THEN "Read" ELSE "None"
        /\ count[b] = Cardinality(readers[b]) + Cardinality(writers[b])
=============================================================================
