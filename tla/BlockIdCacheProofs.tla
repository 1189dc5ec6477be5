------------------------- MODULE BlockIdCacheProofs -------------------------
(* Proofs about the block id cache, for any readers, snapshots and blocks. *)
EXTENDS BlockIdCache, TLAPS

\* The inductive invariant.  A sleeping reader is safe because the Loading mark
\* it saw has an owner, and the owner removes the mark only by notifying.
IInv == TypeOK /\ LoadingHasOwner /\ NoLostWakeup

\* Every step of readers and writers preserves the types.
LEMMA TypeStep == TypeOK /\ [Next]_vars => TypeOK'
<1> SUFFICES ASSUME TypeOK, [Next]_vars PROVE TypeOK'
  OBVIOUS
<1> USE DEF store, cache, Goto, PC
<1>1. ASSUME NEW r \in Reader, NEW s \in Snap, Begin(r, s) PROVE TypeOK'
  BY <1>1 DEF TypeOK, Begin
<1>2. ASSUME NEW r \in Reader, Lookup(r) \/ Register(r) \/ Wake(r) PROVE TypeOK'
  BY <1>2 DEF TypeOK, Lookup, Register, Wake
<1>3. ASSUME NEW r \in Reader, Check(r) PROVE TypeOK'
  <2>1. state[snap[r]] \in {"None", "Loading", "Loaded"}
    BY DEF TypeOK
  <2>2. pc' \in [Reader -> PC]
    BY <1>3, <2>1 DEF TypeOK, Check
  <2>3. state' \in [Snap -> {"None", "Loading", "Loaded"}]
    BY <1>3, <2>1 DEF TypeOK, Check
  <2> QED BY <1>3, <2>2, <2>3 DEF TypeOK, Check
<1>4. ASSUME NEW r \in Reader, Complete(r) PROVE TypeOK'
  <2>1. view[r] \cap Content[snap[r]] \in SUBSET Block
    BY DEF TypeOK
  <2>2. /\ present' \in [Snap -> SUBSET Block]
        /\ \A s \in Snap : present'[s] \subseteq Content[s]
    BY <1>4, <2>1 DEF TypeOK, Complete
  <2>3. state' \in [Snap -> {"None", "Loading", "Loaded"}]
    BY <1>4 DEF TypeOK, Complete
  <2>4. woken' \in [Reader -> BOOLEAN]
    BY <1>4 DEF TypeOK, Complete, NotifyWaiters
  <2>5. stale' \in [Snap -> SUBSET Block]
    BY <1>4 DEF TypeOK, Complete
  <2> QED BY <1>4, <2>2, <2>3, <2>4, <2>5 DEF TypeOK, Complete
<1>5. ASSUME NEW r \in Reader, Cancel(r) PROVE TypeOK'
  <2>1. woken' \in [Reader -> BOOLEAN]
    BY <1>5 DEF TypeOK, Cancel, NotifyWaiters
  <2>2. state' \in [Snap -> {"None", "Loading", "Loaded"}]
    BY <1>5 DEF TypeOK, Cancel
  <2> QED BY <1>5, <2>1, <2>2 DEF TypeOK, Cancel
<1>6. ASSUME NEW b \in Block, NEW ok \in BOOLEAN, Commit(b, ok) PROVE TypeOK'
  BY <1>6 DEF TypeOK, Commit, Changes
<1>7. ASSUME NEW b \in Block, RemoveBlock(b) PROVE TypeOK'
  BY <1>7 DEF TypeOK, RemoveBlock, Changes
<1>8. CASE SetPresent
  <2>1. /\ present' \in [Snap -> SUBSET Block]
        /\ \A s \in Snap : present'[s] \subseteq Content[s]
    BY <1>8 DEF TypeOK, SetPresent, Loaded
  <2> QED BY <1>8, <2>1 DEF TypeOK, SetPresent
<1>9. CASE UNCHANGED vars
  BY <1>9 DEF TypeOK, vars
<1> QED BY <1>1, <1>2, <1>3, <1>4, <1>5, <1>6, <1>7, <1>8, <1>9 DEF Next, Read

\* Every step preserves the ownership of loads and the wakeups to come.
LEMMA InvStep == IInv /\ [Next]_vars => IInv'
<1> SUFFICES ASSUME IInv, [Next]_vars PROVE LoadingHasOwner' /\ NoLostWakeup'
  BY TypeStep DEF IInv
<1> USE DEF store, cache, Goto
<1>0. TypeOK /\ LoadingHasOwner /\ NoLostWakeup
  BY DEF IInv
<1>1. ASSUME NEW r \in Reader, NEW s \in Snap, Begin(r, s)
      PROVE  LoadingHasOwner' /\ NoLostWakeup'
  <2>1. LoadingHasOwner'
    BY <1>0, <1>1 DEF TypeOK, LoadingHasOwner, Loading, Begin
  <2>2. NoLostWakeup'
    BY <1>0, <1>1 DEF TypeOK, NoLostWakeup, Begin
  <2> QED BY <2>1, <2>2
<1>2. ASSUME NEW r \in Reader, Lookup(r) \/ Register(r) \/ Wake(r)
      PROVE  LoadingHasOwner' /\ NoLostWakeup'
  <2>1. LoadingHasOwner'
    BY <1>0, <1>2 DEF TypeOK, LoadingHasOwner, Loading, Lookup, Register, Wake
  <2>2. NoLostWakeup'
    BY <1>0, <1>2 DEF TypeOK, NoLostWakeup, Lookup, Register, Wake
  <2> QED BY <2>1, <2>2
<1>3. ASSUME NEW r \in Reader, Check(r) PROVE LoadingHasOwner' /\ NoLostWakeup'
  <2>1. LoadingHasOwner'
    BY <1>0, <1>3 DEF TypeOK, LoadingHasOwner, Loading, Check
  <2>2. NoLostWakeup'
    BY <1>0, <1>3 DEF TypeOK, NoLostWakeup, Check
  <2> QED BY <2>1, <2>2
<1>4. ASSUME NEW r \in Reader, Complete(r) PROVE LoadingHasOwner' /\ NoLostWakeup'
  <2>1. LoadingHasOwner'
    BY <1>0, <1>4 DEF TypeOK, LoadingHasOwner, Loading, Complete
  <2>2. NoLostWakeup'
    BY <1>0, <1>4 DEF TypeOK, NoLostWakeup, Complete, NotifyWaiters
  <2> QED BY <2>1, <2>2
<1>5. ASSUME NEW r \in Reader, Cancel(r) PROVE LoadingHasOwner' /\ NoLostWakeup'
  <2>1. LoadingHasOwner'
    BY <1>0, <1>5 DEF TypeOK, LoadingHasOwner, Loading, Cancel
  <2>2. NoLostWakeup'
    BY <1>0, <1>5 DEF TypeOK, NoLostWakeup, Cancel, NotifyWaiters
  <2> QED BY <2>1, <2>2
<1>6. ASSUME UNCHANGED <<state, pc, snap, woken>>
      PROVE  LoadingHasOwner' /\ NoLostWakeup'
  BY <1>0, <1>6 DEF LoadingHasOwner, Loading, NoLostWakeup
<1>7. ASSUME NEW b \in Block, RemoveBlock(b) \/ \E ok \in BOOLEAN : Commit(b, ok)
      PROVE  LoadingHasOwner' /\ NoLostWakeup'
  BY <1>6, <1>7 DEF RemoveBlock, Commit
<1>8. CASE SetPresent
  BY <1>6, <1>8 DEF SetPresent
<1>9. CASE UNCHANGED vars
  BY <1>6, <1>9 DEF vars
<1> QED BY <1>1, <1>2, <1>3, <1>4, <1>5, <1>7, <1>8, <1>9 DEF Next, Read

\* The invariant holds before any transaction begins.
LEMMA InvInit == Init => IInv
  BY SnapAssumption DEF Init, IInv, TypeOK, PC, LoadingHasOwner, Loading, NoLostWakeup

\* The invariant holds throughout every behaviour.
THEOREM Invariance == Spec => []IInv
  BY InvInit, InvStep, PTL DEF Spec

\* Cache, readers and store always have their types.
THEOREM TypeCorrect == Spec => []TypeOK
<1>1. IInv => TypeOK
  BY DEF IInv
<1> QED BY <1>1, Invariance, PTL

\* At most one reader loads a snapshot at a time, and no mark outlives its load.
THEOREM LoadsAreOwned == Spec => []LoadingHasOwner
<1>1. IInv => LoadingHasOwner
  BY DEF IInv
<1> QED BY <1>1, Invariance, PTL

\* No reader sleeps on a load that is already over.
THEOREM SleepersAreWoken == Spec => []NoLostWakeup
<1>1. IInv => NoLostWakeup
  BY DEF IInv
<1> QED BY <1>1, Invariance, PTL

-----------------------------------------------------------------------------
\* What makes the cache coherent: a transaction sees the store as it is but for
\* what changed since it began, and only committed blocks are about to be marked.
Coherent ==
    /\ CacheCoherent
    /\ \A r \in Reader : \A b \in Block \ changed[r] : b \in view[r] <=> b \in db
    /\ marking \subseteq db

\* Every step of readers and writers keeps the cache coherent.
LEMMA CoherentStep == TypeOK /\ Coherent /\ [Next]_vars => Coherent'
<1> SUFFICES ASSUME TypeOK, Coherent, [Next]_vars PROVE Coherent'
  OBVIOUS
<1> USE DEF store, cache, Loaded
<1>1. ASSUME NEW r \in Reader, NEW s \in Snap, Begin(r, s) PROVE Coherent'
  BY <1>1 DEF TypeOK, Coherent, CacheCoherent, Begin
<1>2. ASSUME NEW r \in Reader, Complete(r) PROVE Coherent'
  <2>1. ASSUME NEW s \in Snap, state'[s] = "Loaded",
               NEW b \in Content[s] \ (stale'[s] \cup marking')
        PROVE  b \in present'[s] <=> b \in db'
    <3>1. b \in Block /\ db' = db /\ marking' = marking
      BY <1>2, ContentAssumption DEF Complete
    <3>2. CASE s = snap[r]
      <4>1. present'[s] = view[r] \cap Content[s] /\ stale'[s] = changed[r] \cap Content[s]
        BY <1>2, <3>2 DEF Complete
      <4> QED BY <3>1, <4>1 DEF Coherent
    <3>3. CASE s # snap[r]
      <4>1. state[s] = "Loaded" /\ present'[s] = present[s] /\ stale'[s] = stale[s]
        BY <1>2, <2>1, <3>3 DEF Complete
      <4> QED BY <2>1, <3>1, <4>1 DEF Coherent, CacheCoherent
    <3> QED BY <3>2, <3>3
  <2>2. CacheCoherent'
    BY <2>1 DEF CacheCoherent
  <2> QED BY <1>2, <2>2 DEF Coherent, Complete
<1>3. ASSUME NEW b \in Block, NEW ok \in BOOLEAN, Commit(b, ok) PROVE Coherent'
  <2>1. CASE ok
    <3>1. marking = {} /\ db' = db \cup {b} /\ marking' = {b} /\ Changes(b)
      BY <1>3, <2>1 DEF Commit
    <3>2. CacheCoherent'
      BY <1>3, <3>1 DEF Coherent, CacheCoherent, Commit
    <3>3. \A r \in Reader : \A x \in Block \ changed'[r] : x \in view'[r] <=> x \in db'
      BY <1>3, <3>1 DEF Coherent, Commit, Changes
    <3> QED BY <3>1, <3>2, <3>3 DEF Coherent
  <2>2. CASE ~ok
    BY <1>3, <2>2 DEF Coherent, CacheCoherent, Commit
  <2> QED BY <2>1, <2>2
<1>4. ASSUME NEW b \in Block, RemoveBlock(b) PROVE Coherent'
  <2>1. CacheCoherent'
    BY <1>4 DEF TypeOK, Coherent, CacheCoherent, RemoveBlock
  <2>2. \A r \in Reader : \A x \in Block \ changed'[r] : x \in view'[r] <=> x \in db'
    BY <1>4 DEF Coherent, RemoveBlock, Changes
  <2> QED BY <1>4, <2>1, <2>2 DEF Coherent, RemoveBlock
<1>5. CASE SetPresent
  <2>1. CacheCoherent'
    BY <1>5 DEF TypeOK, Coherent, CacheCoherent, SetPresent
  <2> QED BY <1>5, <2>1 DEF Coherent, SetPresent
<1>6. ASSUME NEW r \in Reader, Check(r) \/ Cancel(r) PROVE Coherent'
  <2>1. Loaded' \subseteq Loaded
    BY <1>6 DEF TypeOK, Check, Cancel
  <2>2. UNCHANGED <<db, marking, present, view, changed, stale>>
    BY <1>6 DEF Check, Cancel
  <2> QED BY <2>1, <2>2 DEF Coherent, CacheCoherent
<1>7. ASSUME UNCHANGED <<db, marking, state, present, view, changed, stale>> PROVE Coherent'
  BY <1>7 DEF Coherent, CacheCoherent
<1>8. ASSUME NEW r \in Reader, Lookup(r) \/ Register(r) \/ Wake(r) PROVE Coherent'
  BY <1>7, <1>8 DEF Lookup, Register, Wake
<1>9. CASE UNCHANGED vars
  BY <1>7, <1>9 DEF vars
<1> QED BY <1>1, <1>2, <1>3, <1>4, <1>5, <1>6, <1>8, <1>9 DEF Next, Read

\* The cache disagrees with the store only about blocks that changed while their
\* snapshot was loaded or that were removed later, and for the time between a
\* commit and its callback.
THEOREM CacheIsCoherent == Spec => []CacheCoherent
<1>1. Init => Coherent
  BY DEF Init, Coherent, CacheCoherent, Loaded
<1>2. Coherent => CacheCoherent
  BY DEF Coherent
<1> QED BY <1>1, <1>2, TypeCorrect, CoherentStep, PTL DEF Spec
=============================================================================
