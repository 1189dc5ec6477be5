-------------------------- MODULE BlobLockerProofs --------------------------
(* Proofs about the blob locks, for any finite set of tasks and any blobs. *)
EXTENDS BlobLocker, FiniteSetTheorems, TLAPS

\* The inductive invariant.  Exclusion and the wakeups rest on the entry being
\* what the existing locks add up to; the entry stays accurate because the
\* locks it counts exclude each other.
IInv == TypeOK /\ NoPanic /\ EntryAccurate /\ Exclusive /\ WaitersHaveHolder

\* The same for one blob: its entry, its locks and who waits for it.
Consistent(k, n, R, W, U, Q) ==
    /\ k = IF U # {} THEN "Unique" ELSE IF W # {} THEN "Write"
           ELSE IF R # {} THEN "Read" ELSE "None"
    /\ n = Cardinality(R) + Cardinality(W)
    /\ U # {} => R = {} /\ W = {}
    /\ \A t, u \in U : t = u
    /\ \A t, u \in W : t = u
    /\ Q # {} => R \cup W \cup U # {}

At(b) == Consistent(kind[b], count[b], readers[b], writers[b], uniques[b], waiting[b])

\* The invariant is a typing and a statement about each blob's entry by itself.
LEMMA IInvSplit == IInv <=> TypeOK /\ NoPanic /\ \A b \in Blob : At(b)
  BY DEF IInv, EntryAccurate, Exclusive, WaitersHaveHolder, At, Consistent, Holders

\* Sets of tasks have a cardinality, which is zero only for the empty one.
LEMMA TaskSet ==
    ASSUME NEW S \in SUBSET Task
    PROVE  /\ IsFiniteSet(S)
           /\ Cardinality(S) \in Nat
           /\ Cardinality(S) = 0 <=> S = {}
  BY TaskAssumption, FS_Subset, FS_CardinalityType, FS_EmptySet

\* A new lock adds one to the number of locks the counter stands for.
LEMMA AddTask ==
    ASSUME NEW S \in SUBSET Task, NEW t \in Task, t \notin S
    PROVE  Cardinality(S \cup {t}) = Cardinality(S) + 1
  BY TaskSet, FS_AddElement

\* A dropped lock takes one off the number of locks the counter stands for.
LEMMA RemoveTask ==
    ASSUME NEW S \in SUBSET Task, NEW t \in S
    PROVE  Cardinality(S \ {t}) = Cardinality(S) - 1
  BY TaskSet, FS_RemoveElement

-----------------------------------------------------------------------------
\* What each operation does to the entry, the locks and the waiting tasks of
\* its blob.  A reader is added by try_read and by clone.
LEMMA ReaderAdded ==
    ASSUME NEW k, NEW n, NEW R \in SUBSET Task, NEW W \in SUBSET Task,
           NEW U \in SUBSET Task, NEW Q \in SUBSET Task,
           Consistent(k, n, R, W, U, Q),
           NEW t \in Task, t \notin R, k # "Unique"
    PROVE  Consistent(IF k = "None" THEN "Read" ELSE k, n + 1, R \cup {t}, W, U, Q)
<1>1. Cardinality(R) \in Nat /\ Cardinality(W) \in Nat
  BY TaskSet
<1>2. n + 1 = Cardinality(R \cup {t}) + Cardinality(W)
  BY <1>1, AddTask DEF Consistent
<1> QED BY <1>2 DEF Consistent

\* try_unique adds the unique lock to a blob without an entry.
LEMMA UniqueAdded ==
    ASSUME NEW k, NEW n, NEW R \in SUBSET Task, NEW W \in SUBSET Task,
           NEW U \in SUBSET Task, NEW Q \in SUBSET Task,
           Consistent(k, n, R, W, U, Q),
           NEW t \in Task, k = "None"
    PROVE  Consistent("Unique", 0, R, W, U \cup {t}, Q)
<1>1. R = {} /\ W = {} /\ U = {}
  BY DEF Consistent
<1>2. Cardinality(R) = 0 /\ Cardinality(W) = 0
  BY <1>1, TaskSet
<1> QED BY <1>1, <1>2 DEF Consistent

\* upgrade adds the writer to a blob that is only being read.
LEMMA WriterAdded ==
    ASSUME NEW k, NEW n, NEW R \in SUBSET Task, NEW W \in SUBSET Task,
           NEW U \in SUBSET Task, NEW Q \in SUBSET Task,
           Consistent(k, n, R, W, U, Q),
           NEW t \in R, k = "Read"
    PROVE  Consistent("Write", n + 1, R, W \cup {t}, U, Q)
<1>1. Cardinality(R) \in Nat /\ Cardinality(W) \in Nat
  BY TaskSet
<1>2. W = {} /\ U = {}
  BY DEF Consistent
<1>3. n + 1 = Cardinality(R) + Cardinality(W \cup {t})
  BY <1>1, <1>2, AddTask DEF Consistent
<1> QED BY <1>2, <1>3 DEF Consistent

\* Dropping a read lock finds the entry, and the last lock removes it.
LEMMA ReaderDropped ==
    ASSUME NEW k, NEW n, NEW R \in SUBSET Task, NEW W \in SUBSET Task,
           NEW U \in SUBSET Task, NEW Q \in SUBSET Task,
           Consistent(k, n, R, W, U, Q),
           NEW t \in R
    PROVE  /\ k \in {"Read", "Write"} /\ n \in Nat /\ n # 0
           /\ n = 1 => Consistent("None", 0, R \ {t}, W, U, {})
           /\ n # 1 => Consistent(k, n - 1, R \ {t}, W, U, Q)
<1>1. /\ Cardinality(R) \in Nat /\ Cardinality(W) \in Nat /\ Cardinality(R \ {t}) \in Nat
      /\ Cardinality(R \ {t}) = Cardinality(R) - 1
      /\ Cardinality(R \ {t}) = 0 <=> R \ {t} = {}
      /\ Cardinality(W) = 0 <=> W = {}
  BY TaskSet, RemoveTask
<1>2. U = {} /\ k \in {"Read", "Write"} /\ n = Cardinality(R) + Cardinality(W)
  BY DEF Consistent
<1>3. n \in Nat /\ n # 0
  BY <1>1, <1>2
<1>4. ASSUME n = 1 PROVE Consistent("None", 0, R \ {t}, W, U, {})
  <2>1. Cardinality(R \ {t}) = 0 /\ Cardinality(W) = 0
    BY <1>1, <1>2, <1>4
  <2>2. R \ {t} = {} /\ W = {}
    BY <1>1, <2>1
  <2>3. Cardinality(R \ {t}) + Cardinality(W) = 0
    BY <2>1
  <2> QED BY <1>2, <2>2, <2>3 DEF Consistent
<1>5. ASSUME n # 1 PROVE Consistent(k, n - 1, R \ {t}, W, U, Q)
  <2>1. n - 1 = Cardinality(R \ {t}) + Cardinality(W)
    BY <1>1, <1>2
  <2>2. W # {} \/ R \ {t} # {}
    BY <1>1, <1>2, <1>5
  <2>3. k = IF W # {} THEN "Write" ELSE IF R \ {t} # {} THEN "Read" ELSE "None"
    BY <1>2, <2>2 DEF Consistent
  <2>4. Q # {} => (R \ {t}) \cup W \cup U # {}
    BY <2>2
  <2>5. \A x, y \in W : x = y
    BY DEF Consistent
  <2> QED BY <1>2, <2>1, <2>3, <2>4, <2>5 DEF Consistent
<1> QED BY <1>2, <1>3, <1>4, <1>5

\* Dropping the write lock leaves a blob that is only read, if at all.
LEMMA WriterDropped ==
    ASSUME NEW k, NEW n, NEW R \in SUBSET Task, NEW W \in SUBSET Task,
           NEW U \in SUBSET Task, NEW Q \in SUBSET Task,
           Consistent(k, n, R, W, U, Q),
           NEW t \in W
    PROVE  /\ k = "Write" /\ n \in Nat /\ n # 0
           /\ n = 1 => Consistent("None", 0, R, W \ {t}, U, {})
           /\ n # 1 => Consistent("Read", n - 1, R, W \ {t}, U, Q)
<1>1. /\ Cardinality(R) \in Nat /\ Cardinality(W) \in Nat
      /\ Cardinality(W \ {t}) = Cardinality(W) - 1
      /\ Cardinality(W \ {t}) = 0 <=> W \ {t} = {}
      /\ Cardinality(R) = 0 <=> R = {}
  BY TaskSet, RemoveTask
<1>2. U = {} /\ W \ {t} = {} /\ k = "Write" /\ n = Cardinality(R) + Cardinality(W)
  BY DEF Consistent
<1>3. Cardinality(W) = 1 /\ n \in Nat /\ n # 0
  BY <1>1, <1>2
<1>4. ASSUME n = 1 PROVE Consistent("None", 0, R, W \ {t}, U, {})
  BY <1>1, <1>2, <1>3, <1>4 DEF Consistent
<1>5. ASSUME n # 1 PROVE Consistent("Read", n - 1, R, W \ {t}, U, Q)
  <2>1. n - 1 = Cardinality(R) + Cardinality(W \ {t}) /\ R # {}
    BY <1>1, <1>2, <1>3, <1>5
  <2> QED BY <1>2, <2>1 DEF Consistent
<1> QED BY <1>2, <1>3, <1>4, <1>5

\* Dropping a unique lock finds its entry and leaves the blob unlocked.
LEMMA UniqueDropped ==
    ASSUME NEW k, NEW n, NEW R \in SUBSET Task, NEW W \in SUBSET Task,
           NEW U \in SUBSET Task, NEW Q \in SUBSET Task,
           Consistent(k, n, R, W, U, Q),
           NEW t \in U
    PROVE  k = "Unique" /\ Consistent("None", 0, R, W, U \ {t}, {})
<1>1. R = {} /\ W = {} /\ U \ {t} = {} /\ k = "Unique"
  BY DEF Consistent
<1>2. Cardinality(R) = 0 /\ Cardinality(W) = 0
  BY <1>1, TaskSet
<1> QED BY <1>1, <1>2 DEF Consistent

-----------------------------------------------------------------------------
\* A step leaves the blob alone.
Same(c) ==
    /\ kind'[c] = kind[c] /\ count'[c] = count[c]
    /\ readers'[c] = readers[c] /\ writers'[c] = writers[c]
    /\ uniques'[c] = uniques[c] /\ waiting'[c] = waiting[c]

\* It is enough to look at the one blob an action is about.
LEMMA OneBlob ==
    ASSUME IInv, TypeOK', NoPanic', NEW b \in Blob, At(b)',
           \A c \in Blob \ {b} : Same(c)
    PROVE  IInv'
<1>1. ASSUME NEW c \in Blob PROVE At(c)'
  <2>1. CASE c = b
    BY <2>1
  <2>2. CASE c # b
    BY <2>2, IInvSplit DEF At, Same
  <2> QED BY <2>1, <2>2
<1> QED BY <1>1, IInvSplit DEF IInv, EntryAccurate, Exclusive, WaitersHaveHolder,
                               At, Consistent, Holders

\* Every step of the locks preserves the invariant.
LEMMA InvStep == IInv /\ [Next]_vars => IInv'
<1> SUFFICES ASSUME IInv, [Next]_vars PROVE IInv'
  OBVIOUS
<1>a. TypeOK /\ NoPanic /\ \A c \in Blob : At(c)
  BY IInvSplit
<1>b. ASSUME NEW b \in Blob
      PROVE  /\ readers[b] \in SUBSET Task /\ writers[b] \in SUBSET Task
             /\ uniques[b] \in SUBSET Task /\ waiting[b] \in SUBSET Task
             /\ Consistent(kind[b], count[b], readers[b], writers[b], uniques[b], waiting[b])
  BY <1>a DEF TypeOK, At
<1>1. ASSUME NEW t \in Task, NEW b \in Blob, TryRead(t, b) PROVE IInv'
  <2>1. t \notin readers[b] /\ kind[b] # "Unique"
    BY <1>1 DEF TryRead, Free, Holders
  <2>2. /\ kind' = [kind EXCEPT ![b] = IF kind[b] = "None" THEN "Read" ELSE kind[b]]
        /\ count' = [count EXCEPT ![b] = count[b] + 1]
        /\ readers' = [readers EXCEPT ![b] = readers[b] \cup {t}]
        /\ UNCHANGED <<writers, uniques, waiting, panicked>>
    BY <1>1 DEF TryRead, Entry
  <2>3. TypeOK' /\ NoPanic'
    BY <1>a, <2>2 DEF TypeOK, NoPanic, Kind
  <2>4. At(b)'
    BY <1>a, <2>1, <2>2, ReaderAdded DEF At, TypeOK
  <2>s. \A c \in Blob \ {b} : Same(c)
    BY <1>a, <2>2 DEF Same, TypeOK
  <2> QED BY <2>3, <2>4, <2>s, OneBlob
<1>2. ASSUME NEW t \in Task, NEW u \in Task, NEW b \in Blob, Clone(t, u, b) PROVE IInv'
  <2>1. t \in readers[b] /\ u \notin readers[b]
    BY <1>2 DEF Clone, Free, Holders
  <2>2. kind[b] \in {"Read", "Write"}
    BY <1>b, <2>1, ReaderDropped
  <2>3. /\ kind' = [kind EXCEPT ![b] = kind[b]]
        /\ count' = [count EXCEPT ![b] = count[b] + 1]
        /\ readers' = [readers EXCEPT ![b] = readers[b] \cup {u}]
        /\ UNCHANGED <<writers, uniques, waiting, panicked>>
    BY <1>2, <2>2 DEF Clone, Entry
  <2>4. TypeOK' /\ NoPanic'
    BY <1>a, <2>3 DEF TypeOK, NoPanic
  <2>5. kind'[b] = IF kind[b] = "None" THEN "Read" ELSE kind[b]
    BY <1>a, <2>2, <2>3 DEF TypeOK
  <2>6. At(b)'
    BY <1>a, <2>1, <2>2, <2>3, <2>5, ReaderAdded DEF At, TypeOK
  <2>s. \A c \in Blob \ {b} : Same(c)
    BY <1>a, <2>3 DEF Same, TypeOK
  <2> QED BY <2>4, <2>6, <2>s, OneBlob
<1>3. ASSUME NEW t \in Task, NEW b \in Blob, TryUnique(t, b) PROVE IInv'
  <2>1. /\ kind[b] = "None"
        /\ kind' = [kind EXCEPT ![b] = "Unique"]
        /\ count' = [count EXCEPT ![b] = 0]
        /\ uniques' = [uniques EXCEPT ![b] = uniques[b] \cup {t}]
        /\ UNCHANGED <<readers, writers, waiting, panicked>>
    BY <1>3 DEF TryUnique, Entry
  <2>2. TypeOK' /\ NoPanic'
    BY <1>a, <2>1 DEF TypeOK, NoPanic, Kind
  <2>3. At(b)'
    BY <1>a, <2>1, UniqueAdded DEF At, TypeOK
  <2>s. \A c \in Blob \ {b} : Same(c)
    BY <1>a, <2>1 DEF Same, TypeOK
  <2> QED BY <2>2, <2>3, <2>s, OneBlob
<1>4. ASSUME NEW t \in Task, NEW b \in Blob, Wait(t, b) \/ GiveUp(t, b) PROVE IInv'
  <2>1. /\ UNCHANGED <<kind, count, readers, writers, uniques, panicked>>
        /\ \E Q \in SUBSET Task : waiting' = [waiting EXCEPT ![b] = Q]
    BY <1>4, <1>a DEF Wait, GiveUp, table, locks, TypeOK
  <2>2. TypeOK' /\ NoPanic'
    BY <1>a, <2>1 DEF TypeOK, NoPanic
  <2>3. kind[b] # "None"
    BY <1>4, <1>a DEF Wait, GiveUp, TypeOK, At, Consistent
  <2>4. At(b)'
    BY <1>a, <2>1, <2>3 DEF At, Consistent
  <2>s. \A c \in Blob \ {b} : Same(c)
    BY <1>a, <2>1 DEF Same, TypeOK
  <2> QED BY <2>2, <2>4, <2>s, OneBlob
<1>5. ASSUME NEW t \in Task, NEW b \in Blob, Upgrade(t, b) PROVE IInv'
  <2>1. t \in readers[b]
    BY <1>5 DEF Upgrade
  <2>2. kind[b] \in {"Read", "Write"}
    BY <1>b, <2>1, ReaderDropped
  <2>3. CASE kind[b] = "Read"
    <3>1. /\ kind' = [kind EXCEPT ![b] = "Write"]
          /\ count' = [count EXCEPT ![b] = count[b] + 1]
          /\ writers' = [writers EXCEPT ![b] = writers[b] \cup {t}]
          /\ UNCHANGED <<readers, uniques, waiting, panicked>>
      BY <1>5, <2>3 DEF Upgrade, Entry
    <3>2. TypeOK' /\ NoPanic'
      BY <1>a, <3>1 DEF TypeOK, NoPanic, Kind
    <3>3. At(b)'
      BY <1>a, <2>1, <2>3, <3>1, WriterAdded DEF At, TypeOK
    <3>s. \A c \in Blob \ {b} : Same(c)
      BY <1>a, <3>1 DEF Same, TypeOK
    <3> QED BY <3>2, <3>3, <3>s, OneBlob
  <2>4. CASE kind[b] = "Write"
    <3>1. UNCHANGED vars
      BY <1>5, <2>4 DEF Upgrade, table, vars
    <3> QED BY <3>1, <1>a DEF IInv, TypeOK, NoPanic, EntryAccurate, Exclusive,
                              WaitersHaveHolder, Holders, vars
  <2> QED BY <2>2, <2>3, <2>4
<1>6. ASSUME NEW t \in Task, NEW b \in Blob, DropRead(t, b) PROVE IInv'
  <2>1. /\ t \in readers[b]
        /\ readers' = [readers EXCEPT ![b] = readers[b] \ {t}]
        /\ UNCHANGED <<writers, uniques>>
    BY <1>6 DEF DropRead
  <2>2. /\ kind[b] \in {"Read", "Write"} /\ count[b] # 0
        /\ count[b] = 1 => Consistent("None", 0, readers[b] \ {t}, writers[b], uniques[b], {})
        /\ count[b] # 1 => Consistent(kind[b], count[b] - 1, readers[b] \ {t},
                                      writers[b], uniques[b], waiting[b])
    BY <1>b, <2>1, ReaderDropped
  <2>3. CASE count[b] = 1
    <3>1. Remove(b)
      BY <1>6, <2>2, <2>3 DEF DropRead
    <3>2. TypeOK' /\ NoPanic'
      BY <1>a, <2>1, <3>1 DEF TypeOK, NoPanic, Kind, Remove
    <3>3. At(b)'
      BY <1>a, <2>1, <2>2, <2>3, <3>1 DEF At, TypeOK, Remove
    <3>s. \A c \in Blob \ {b} : Same(c)
      BY <1>a, <2>1, <3>1 DEF Same, TypeOK, Remove
    <3> QED BY <3>2, <3>3, <3>s, OneBlob
  <2>4. CASE count[b] # 1
    <3>1. Entry(b, kind[b], count[b] - 1)
      BY <1>6, <2>2, <2>4 DEF DropRead
    <3>2. TypeOK' /\ NoPanic'
      BY <1>a, <2>1, <2>2, <3>1 DEF TypeOK, NoPanic, Entry
    <3>3. At(b)'
      BY <1>a, <2>1, <2>2, <2>4, <3>1 DEF At, TypeOK, Entry
    <3>s. \A c \in Blob \ {b} : Same(c)
      BY <1>a, <2>1, <3>1 DEF Same, TypeOK, Entry
    <3> QED BY <3>2, <3>3, <3>s, OneBlob
  <2> QED BY <2>3, <2>4
<1>7. ASSUME NEW t \in Task, NEW b \in Blob, DropWrite(t, b) PROVE IInv'
  <2>1. /\ t \in writers[b]
        /\ writers' = [writers EXCEPT ![b] = writers[b] \ {t}]
        /\ UNCHANGED <<readers, uniques>>
    BY <1>7 DEF DropWrite
  <2>2. /\ kind[b] = "Write" /\ count[b] # 0
        /\ count[b] = 1 => Consistent("None", 0, readers[b], writers[b] \ {t}, uniques[b], {})
        /\ count[b] # 1 => Consistent("Read", count[b] - 1, readers[b], writers[b] \ {t},
                                      uniques[b], waiting[b])
    BY <1>b, <2>1, WriterDropped
  <2>3. CASE count[b] = 1
    <3>1. Remove(b)
      BY <1>7, <2>2, <2>3 DEF DropWrite
    <3>2. TypeOK' /\ NoPanic'
      BY <1>a, <2>1, <3>1 DEF TypeOK, NoPanic, Kind, Remove
    <3>3. At(b)'
      BY <1>a, <2>1, <2>2, <2>3, <3>1 DEF At, TypeOK, Remove
    <3>s. \A c \in Blob \ {b} : Same(c)
      BY <1>a, <2>1, <3>1 DEF Same, TypeOK, Remove
    <3> QED BY <3>2, <3>3, <3>s, OneBlob
  <2>4. CASE count[b] # 1
    <3>1. Entry(b, "Read", count[b] - 1)
      BY <1>7, <2>2, <2>4 DEF DropWrite
    <3>2. TypeOK' /\ NoPanic'
      BY <1>a, <2>1, <2>2, <3>1 DEF TypeOK, NoPanic, Kind, Entry
    <3>3. At(b)'
      BY <1>a, <2>1, <2>2, <2>4, <3>1 DEF At, TypeOK, Entry
    <3>s. \A c \in Blob \ {b} : Same(c)
      BY <1>a, <2>1, <3>1 DEF Same, TypeOK, Entry
    <3> QED BY <3>2, <3>3, <3>s, OneBlob
  <2> QED BY <2>3, <2>4
<1>8. ASSUME NEW t \in Task, NEW b \in Blob, DropUnique(t, b) PROVE IInv'
  <2>1. /\ t \in uniques[b]
        /\ uniques' = [uniques EXCEPT ![b] = uniques[b] \ {t}]
        /\ UNCHANGED <<readers, writers>>
    BY <1>8 DEF DropUnique
  <2>2. kind[b] = "Unique" /\ Consistent("None", 0, readers[b], writers[b], uniques[b] \ {t}, {})
    BY <1>b, <2>1, UniqueDropped
  <2>3. Remove(b)
    BY <1>8, <2>2 DEF DropUnique
  <2>4. TypeOK' /\ NoPanic'
    BY <1>a, <2>1, <2>3 DEF TypeOK, NoPanic, Kind, Remove
  <2>5. At(b)'
    BY <1>a, <2>1, <2>2, <2>3 DEF At, TypeOK, Remove
  <2>s. \A c \in Blob \ {b} : Same(c)
    BY <1>a, <2>1, <2>3 DEF Same, TypeOK, Remove
  <2> QED BY <2>4, <2>5, <2>s, OneBlob
<1>9. CASE UNCHANGED vars
  BY <1>9 DEF IInv, TypeOK, NoPanic, EntryAccurate, Exclusive, WaitersHaveHolder,
              Holders, vars
<1> QED
  BY <1>1, <1>2, <1>3, <1>4, <1>5, <1>6, <1>7, <1>8, <1>9 DEF Next, Step

\* The invariant holds before any lock exists.
LEMMA InvInit == Init => IInv
<1> SUFFICES ASSUME Init PROVE IInv
  OBVIOUS
<1>1. TypeOK /\ NoPanic
  BY DEF Init, Nobody, TypeOK, Kind, NoPanic
<1>2. ASSUME NEW b \in Blob PROVE At(b)
  <2>1. /\ kind[b] = "None" /\ count[b] = 0 /\ readers[b] = {} /\ writers[b] = {}
        /\ uniques[b] = {} /\ waiting[b] = {}
    BY DEF Init, Nobody
  <2> QED BY <2>1, FS_EmptySet DEF At, Consistent
<1> QED BY <1>1, <1>2, IInvSplit

\* The invariant holds throughout every behaviour of the locks.
THEOREM Invariance == Spec => []IInv
  BY InvInit, InvStep, PTL DEF Spec

\* The shared table and the sets of locks always have their types.
THEOREM TypeCorrect == Spec => []TypeOK
<1>1. IInv => TypeOK
  BY DEF IInv
<1> QED BY <1>1, Invariance, PTL

\* No `unreachable!` or `expect` of clone, upgrade and the three destructors is
\* hit, whatever the order in which any number of owners use the locks.
THEOREM DestructorsNeverPanic == Spec => []NoPanic
<1>1. IInv => NoPanic
  BY DEF IInv
<1> QED BY <1>1, Invariance, PTL

\* A unique lock excludes every other lock and a write lock every other writer.
THEOREM MutualExclusion == Spec => []Exclusive
<1>1. IInv => Exclusive
  BY DEF IInv
<1> QED BY <1>1, Invariance, PTL

\* A task never waits for an entry whose last lock is already gone, so the
\* destructor that wakes it is still to run.
THEOREM WakeupsNotLost == Spec => []WaitersHaveHolder
<1>1. IInv => WaitersHaveHolder
  BY DEF IInv
<1> QED BY <1>1, Invariance, PTL

\* The counters of the table are exactly the number of locks in existence.
THEOREM TableExact == Spec => []EntryAccurate
<1>1. IInv => EntryAccurate
  BY DEF IInv
<1> QED BY <1>1, Invariance, PTL
=============================================================================
