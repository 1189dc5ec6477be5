------------------------ MODULE BlockExpirationProofs ------------------------
(***************************************************************************)
(* The tracker knows every present block that none of two races has made   *)
(* it lose, for any set of blocks.                                         *)
(***************************************************************************)
EXTENDS BlockExpiration, TLAPS

\* What stands for a block is one: of an open transaction, of a reader, of the
\* task once it has chosen one.
Shape ==
    /\ tx.kind = "none" => tx = NoTx
    /\ tx.kind # "none" => tx.block \in Block
    /\ read # NoRead => read.block \in Block
    /\ pc \in {"sleep", "write", "untrack"} => chosen \in Block

Typed == TypeOK /\ Shape

\* A transaction that has saved a block has tracked it, unless this was undone.
SavedIsTracked ==
    tx.kind = "saved" /\ tx.tracks => tx.block \in tracked \cup undone

\* A transaction untracks a block only when it is not in the database.
RemovedIsGone == tx.kind = "removed" => ~Present(tx.block)

Inv == KnownUnlessRaced /\ SavedIsTracked /\ RemovedIsGone

-----------------------------------------------------------------------------
\* Every step of the code that uses the tracker preserves the types.
LEMMA UseTyped == Typed /\ Use => Typed'
<1> SUFFICES ASSUME Typed, Use PROVE Typed'
  OBVIOUS
<1> USE NoBlockAssumption DEF Typed, TypeOK, Shape, PC, NoTx, NoRead, shared, task, asked, races
<1>1. ASSUME NEW b \in Block, ReadBlock(b) PROVE Typed'
  BY <1>1 DEF ReadBlock
<1>2. ASSUME NEW b \in Block, NEW kind \in {"save", "remove"}, Begin(kind, b) PROVE Typed'
  BY <1>2 DEF Begin, Enabled
<1>a. ASSUME NEW b \in Block, BeginClientWrite(b) PROVE Typed'
  BY <1>a DEF BeginClientWrite, Enabled
<1>b. CASE LockClientWrite
  BY <1>b DEF LockClientWrite
<1>3. CASE SaveBlock
  <2>1. CASE tx.tracks
    <3>1. /\ tracked' \in SUBSET Block /\ undone' \in SUBSET Block /\ unseen' \in SUBSET Block
          /\ notified' = TRUE /\ fresh' \in BOOLEAN
          /\ UNCHANGED <<toMissing, pc, chosen, batch, db, read, required, reload>>
          /\ tx' = [tx EXCEPT !.kind = "saved"]
      BY <1>3, <2>1 DEF SaveBlock, HandleBlockUpdate
    <3> QED BY <1>3, <3>1 DEF SaveBlock
  <2>2. CASE ~tx.tracks
    BY <1>3, <2>2 DEF SaveBlock
  <2> QED BY <2>1, <2>2
<1>c. CASE CommitSave
  BY <1>c DEF CommitSave, SetPresence
<1>4. CASE CommitRemove
  BY <1>4 DEF CommitRemove, SetPresence
<1>5. CASE UntrackCommit
  BY <1>5 DEF UntrackCommit, RemoveBlock
<1>6. CASE Rollback
  BY <1>6 DEF Rollback
<1>7. CASE ReadDone
  BY <1>7 DEF ReadDone, HandleBlockUpdate
<1>8. QED
  BY <1>1, <1>2, <1>3, <1>4, <1>5, <1>6, <1>7, <1>a, <1>b, <1>c DEF Use, EndTx

\* Every step of the expiration task preserves the types.
LEMMA TaskTyped == Typed /\ (RunTask \/ Reschedule \/ Write \/ Fail) => Typed'
<1> SUFFICES ASSUME Typed, RunTask \/ Reschedule \/ Write \/ Fail PROVE Typed'
  OBVIOUS
<1> USE NoBlockAssumption DEF Typed, TypeOK, Shape, PC, NoTx, NoRead, shared, asked, races,
                              Goto, Leave, SetPresence
<1>1. CASE Load
  BY <1>1 DEF Load
<1>2. CASE Insert
  BY <1>2 DEF Insert
<1>3. CASE TakeMissing
  BY <1>3 DEF TakeMissing
<1>4. CASE TakeNone
  BY <1>4 DEF TakeNone
<1>5. CASE Wake
  BY <1>5 DEF Wake
<1>6. CASE Timeout
  <2>1. CASE fresh
    BY <1>6, <2>1 DEF Timeout
  <2>2. CASE ~fresh
    BY <1>6, <2>2 DEF Timeout
  <2> QED BY <2>1, <2>2
<1>7. CASE Untrack
  BY <1>7 DEF Untrack
<1>8. ASSUME NEW b \in Block, TakeOldest(b) PROVE Typed'
  <2>1. /\ pc' \in {"sleep", "write"} /\ chosen' = b /\ fresh' \in BOOLEAN /\ pc = "loop"
        /\ UNCHANGED <<db, tx, read, shared, batch, required, reload, undone, unseen>>
    BY <1>8 DEF TakeOldest
  <2>2. TypeOK'
    BY <2>1
  <2>3. Shape'
    BY <1>8, <2>1
  <2> QED BY <2>2, <2>3
<1>9. CASE Reschedule
  BY <1>9 DEF Reschedule
<1>10. CASE Expire
  <2>1. CASE Present(chosen)
    BY <1>10, <2>1 DEF Expire
  <2>2. CASE ~Present(chosen)
    BY <1>10, <2>2 DEF Expire
  <2> QED BY <2>1, <2>2
<1>11. CASE SetAsMissingIfExpired
  BY <1>11 DEF SetAsMissingIfExpired
<1>12. CASE Fail
  <2>1. PICK done \in SUBSET {b \in batch : db[b] = "Expired"} : required' = required \cup done
    BY <1>12 DEF Fail
  <2>2. required' \in SUBSET Block
    BY <2>1
  <2>3. /\ pc' = "failed" /\ chosen' = NoBlock /\ fresh' = FALSE /\ batch' = {}
        /\ UNCHANGED <<db, tx, read, tracked, toMissing, notified, reload, undone, unseen>>
    BY <1>12 DEF Fail
  <2>4. TypeOK'
    BY <2>2, <2>3
  <2>5. Shape'
    BY <2>3
  <2> QED BY <2>4, <2>5
<1>13. QED
  BY <1>1, <1>2, <1>3, <1>4, <1>5, <1>6, <1>7, <1>8, <1>9, <1>10, <1>11, <1>12
     DEF RunTask, Write

\* The tracker, its task and its users always have their types.
THEOREM Typing == Spec => []Typed
<1>1. Init => Typed
  <2> SUFFICES ASSUME Init PROVE Typed
    OBVIOUS
  <2>1. tx = NoTx /\ read = NoRead /\ pc = "off" /\ chosen = NoBlock
    BY DEF Init
  <2>2. NoTx \in [kind : {"none", "waiting", "save", "saved", "remove", "removed"},
                 block : Block \cup {NoBlock}, tracks : BOOLEAN]
    BY DEF NoTx
  <2>3. NoRead \in [block : Block \cup {NoBlock}, missing : BOOLEAN]
    BY DEF NoRead
  <2>4. Shape
    BY <2>1 DEF Shape, NoTx
  <2>5. TypeOK
    BY <2>1, <2>2, <2>3 DEF Init, TypeOK, PC
  <2>6. QED
    BY <2>4, <2>5 DEF Typed
<1>2. Typed /\ [Next]_vars => Typed'
  <2> SUFFICES ASSUME Typed, [Next]_vars PROVE Typed'
    OBVIOUS
  <2>1. CASE Enable
    BY <2>1 DEF Enable, Typed, TypeOK, Shape, PC, NoTx, NoRead, shared, asked, races
  <2>2. CASE Restart
    BY <2>2, NoBlockAssumption DEF Restart, Typed, TypeOK, Shape, PC, NoTx, NoRead
  <2>3. CASE UNCHANGED vars
    BY <2>3 DEF vars, Typed, TypeOK, Shape
  <2>4. QED
    BY <2>1, <2>2, <2>3, UseTyped, TaskTyped DEF Next
<1>3. QED
  BY <1>1, <1>2, PTL DEF Spec

\* The type invariant of the tracker, its task and its users.
THEOREM TypeCorrect == Spec => []TypeOK
<1>1. Typed => TypeOK
  BY DEF Typed
<1>2. QED
  BY <1>1, Typing, PTL

-----------------------------------------------------------------------------
\* Steps of the tracker's users keep present blocks known: a save tracks before
\* it commits, a removal untracks after it has committed.
LEMMA UseKnown ==
    ASSUME Typed, Inv, Use
    PROVE  Inv'
<1> USE DEF Inv, KnownUnlessRaced, Knows, Loaded, SavedIsTracked, RemovedIsGone,
            Typed, TypeOK, Shape, Present, shared, task, races
<1>1. ASSUME NEW b \in Block, ReadBlock(b) PROVE Inv'
  BY <1>1 DEF ReadBlock
<1>2. ASSUME NEW b \in Block, NEW kind \in {"save", "remove"}, Begin(kind, b) PROVE Inv'
  BY <1>2 DEF Begin
<1>a. ASSUME NEW b \in Block, BeginClientWrite(b) PROVE Inv'
  BY <1>a DEF BeginClientWrite
<1>b. CASE LockClientWrite
  BY <1>b DEF LockClientWrite, NoTx
<1>3. CASE SaveBlock
  BY <1>3 DEF SaveBlock, HandleBlockUpdate
<1>c. CASE CommitSave
  BY <1>c DEF CommitSave, SetPresence, NoTx
<1>4. CASE CommitRemove
  BY <1>4 DEF CommitRemove, SetPresence, NoTx
<1>5. CASE UntrackCommit
  BY <1>5 DEF UntrackCommit, RemoveBlock, NoTx
<1>6. CASE Rollback
  BY <1>6 DEF Rollback, NoTx
<1>7. CASE ReadDone
  BY <1>7 DEF ReadDone, HandleBlockUpdate
<1>8. QED
  BY <1>1, <1>2, <1>3, <1>4, <1>5, <1>6, <1>7, <1>a, <1>b, <1>c DEF Use, EndTx

\* Steps of the task keep present blocks known: it loads them all, and untracks
\* only the block it has expired, or records that it was saved again.
LEMMA TaskKnown ==
    ASSUME Typed, Inv, RunTask \/ Reschedule \/ Write \/ Fail
    PROVE  Inv'
<1> USE DEF Inv, KnownUnlessRaced, Knows, Loaded, SavedIsTracked, RemovedIsGone,
            Typed, TypeOK, Shape, Present, shared, races, Goto, Leave
<1>1. CASE Load
  BY <1>1 DEF Load
<1>2. CASE Insert
  BY <1>2 DEF Insert
<1>3. CASE TakeMissing
  BY <1>3 DEF TakeMissing
<1>4. CASE TakeNone
  BY <1>4 DEF TakeNone
<1>5. CASE Wake
  BY <1>5 DEF Wake
<1>6. CASE Timeout
  BY <1>6 DEF Timeout
<1>7. CASE Untrack
  BY <1>7 DEF Untrack, SavedAgain
<1>8. ASSUME NEW b \in Block, TakeOldest(b) PROVE Inv'
  BY <1>8 DEF TakeOldest
<1>9. CASE Reschedule
  BY <1>9 DEF Reschedule
<1>10. CASE Expire
  BY <1>10 DEF Expire, Unlocked, SetPresence
<1>11. CASE SetAsMissingIfExpired
  BY <1>11 DEF SetAsMissingIfExpired, Unlocked, SetPresence
<1>12. CASE Fail
  BY <1>12 DEF Fail
<1>13. QED
  BY <1>1, <1>2, <1>3, <1>4, <1>5, <1>6, <1>7, <1>8, <1>9, <1>10, <1>11, <1>12
     DEF RunTask, Write

\* A block that is present in the database and unknown to the tracker was lost by
\* one of the two races, whatever the blocks and however transactions, reads, the
\* task, failures and restarts interleave.
THEOREM PresentIsKnown == Spec => []KnownUnlessRaced
<1> USE DEF Inv, KnownUnlessRaced, Knows, Loaded, SavedIsTracked, RemovedIsGone
<1>1. Init => Inv
  BY DEF Init, NoTx
<1>2. Typed /\ Inv /\ [Next]_vars => Inv'
  <2> SUFFICES ASSUME Typed, Inv, [Next]_vars PROVE Inv'
    OBVIOUS
  <2>1. CASE Enable
    BY <2>1 DEF Enable, shared, races, Present
  <2>2. CASE Restart
    BY <2>2 DEF Restart, NoTx
  <2>3. CASE UNCHANGED vars
    BY <2>3 DEF vars, Present
  <2>4. QED
    BY <2>1, <2>2, <2>3, UseKnown, TaskKnown DEF Next
<1>3. Inv => KnownUnlessRaced
  OBVIOUS
<1>4. QED
  BY <1>1, <1>2, <1>3, Typing, PTL DEF Spec
=============================================================================
