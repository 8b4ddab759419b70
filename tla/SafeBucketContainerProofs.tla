--------------------- MODULE SafeBucketContainerProofs ---------------------
(***************************************************************************)
(* For any number of readers, items, buckets and any capacity: the         *)
(* invariants of SafeBucketContainer, and that it implements SnapshotReads.*)
(***************************************************************************)
EXTENDS SafeBucketContainer, FiniteSetTheorems, TLAPS

(* None of the invariants is inductive alone: that the count is never       *)
(* decremented below zero needs ReaderCountExact, that nobody reads while    *)
(* the queues are applied needs ApplyingAlone, and each of the others needs  *)
(* those two.                                                                *)
IInv ==
    /\ TypeOK
    /\ ReaderCountExact
    /\ ApplyingAlone
    /\ NothingLeftBehind
    /\ DeferredIndexFresh
    /\ NoLostWakeup

\* There is a first bucket, since the container has at least one.
LEMMA BucketIdxNonEmpty == 0 \in BucketIdx
  BY ContainerAssumption DEF BucketIdx

\* _insert_to_container stays inside the vector of buckets.
LEMMA InsertBucketInRange ==
  ASSUME TypeOK
  PROVE  InsertBucket \in BucketIdx
<1>1. /\ BucketCount \in Nat \ {0}
      /\ currentBucketIdx \in 0 .. BucketCount - 1
  BY ContainerAssumption DEF TypeOK, BucketIdx
<1>2. (currentBucketIdx + 1) % BucketCount \in 0 .. BucketCount - 1
  BY <1>1, Z3
<1> QED
  BY <1>1, <1>2 DEF InsertBucket, BucketIdx

\* An insertion keeps the types of the fields it changes and loses no item.
LEMMA InsertToContainerKeeps ==
  ASSUME TypeOK, NEW item \in Items, InsertToContainer(item)
  PROVE  /\ buckets' \in [BucketIdx -> SUBSET Items]
         /\ currentBucketIdx' \in BucketIdx
         /\ \A i \in BucketIdx : buckets[i] \subseteq buckets'[i]
  BY InsertBucketInRange DEF TypeOK, InsertToContainer

\* The readers can be counted, and a count above zero means there is one.
LEMMA ReadingFinite ==
  /\ IsFiniteSet(Reading)
  /\ Cardinality(Reading) \in Nat
  /\ Cardinality(Reading) = 0 <=> Reading = {}
<1>1. IsFiniteSet(Reading)
  BY FS_Subset, ContainerAssumption DEF Reading
<1> QED
  BY <1>1, FS_CardinalityType, FS_EmptySet

\* The counter is zero exactly when no thread is between acquire_read and
\* release_read: what the unlocked reads of the buckets rely on.
LEMMA CountIsZero ==
  ASSUME ReaderCountExact
  PROVE  readerCount = 0 <=> Reading = {}
  BY ReadingFinite DEF ReaderCountExact

\* A thread that starts to read adds one to the number of readers.
LEMMA ReadingGrows ==
  ASSUME TypeOK, ReaderCountExact, NEW r \in Readers, reader[r] # "reading",
         reader' = [reader EXCEPT ![r] = "reading"],
         readerCount' = readerCount + 1
  PROVE  ReaderCountExact'
<1>1. Reading' = Reading \cup {r} /\ r \notin Reading
  BY DEF Reading, TypeOK
<1> QED
  BY <1>1, ReadingFinite, FS_AddElement DEF ReaderCountExact

\* A thread that stops to read takes one from it.
LEMMA ReadingShrinks ==
  ASSUME TypeOK, ReaderCountExact, NEW r \in Readers, reader[r] = "reading",
         NEW s, s # "reading",
         reader' = [reader EXCEPT ![r] = s],
         readerCount' = readerCount - 1
  PROVE  ReaderCountExact' /\ readerCount \in Nat \ {0}
<1>1. Reading' = Reading \ {r} /\ r \in Reading
  BY DEF Reading, TypeOK
<1> QED
  BY <1>1, ReadingFinite, FS_RemoveElement DEF ReaderCountExact

\* A step that moves nobody into or out of reading leaves the count right.
LEMMA ReadingSame ==
  ASSUME ReaderCountExact, Reading' = Reading, readerCount' = readerCount
  PROVE  ReaderCountExact'
  BY DEF ReaderCountExact

-----------------------------------------------------------------------------
\* acquire_read and the wakeup of its wait do the same from two states.
LEMMA EnterKeepsIInv ==
  ASSUME IInv, NEW r \in Readers, AcquireRead(r) \/ WakeUp(r)
  PROVE  IInv'
<1> USE DEF IInv
<1>1. /\ reader[r] \in {"idle", "blocked", "notified"}
      /\ MutexFree
      /\ UNCHANGED <<buckets, itemsToAdd, itemsToRemove, currentBucketIdx, stopRequested>>
      /\ \/ /\ readerCount' = readerCount + 1
            /\ reader' = [reader EXCEPT ![r] = "reading"]
         \/ /\ IsWritePending /\ ~stopRequested
            /\ reader' = [reader EXCEPT ![r] = "blocked"]
            /\ UNCHANGED readerCount
  BY DEF AcquireRead, WakeUp
<1>2. TypeOK'
  BY <1>1 DEF TypeOK, ReaderStates
<1>3. ReaderCountExact'
  <2>1. CASE readerCount' = readerCount + 1 /\ reader' = [reader EXCEPT ![r] = "reading"]
    BY <1>1, <2>1, ReadingGrows
  <2>2. CASE reader' = [reader EXCEPT ![r] = "blocked"] /\ UNCHANGED readerCount
    <3>1. Reading' = Reading
      BY <1>1, <2>2 DEF Reading, TypeOK
    <3> QED
      BY <2>2, <3>1, ReadingSame
  <2> QED
    BY <1>1, <2>1, <2>2
<1>4. MutexFree'
  BY <1>1 DEF MutexFree, TypeOK
<1>5. ApplyingAlone'
  BY <1>4 DEF MutexFree, ApplyingAlone
<1>6. NothingLeftBehind'
  BY <1>1 DEF NothingLeftBehind, IsReading, IsWritePending, TypeOK
<1>7. DeferredIndexFresh'
  BY <1>1 DEF DeferredIndexFresh
<1>8. NoLostWakeup'
  BY <1>1 DEF NoLostWakeup, IsWritePending, TypeOK, MutexFree
<1> QED
  BY <1>2, <1>3, <1>5, <1>6, <1>7, <1>8

\* release_read up to its early return.
LEMMA ReleaseKeepsIInv ==
  ASSUME IInv, NEW r \in Readers, ReleaseRead(r)
  PROVE  IInv'
<1> USE DEF IInv
<1> DEFINE s == IF readerCount' > 0 THEN "idle" ELSE "applying"
<1>1. /\ reader[r] = "reading"
      /\ MutexFree
      /\ readerCount' = readerCount - 1
      /\ reader' = [reader EXCEPT ![r] = s]
      /\ s # "reading"
      /\ UNCHANGED <<buckets, itemsToAdd, itemsToRemove, currentBucketIdx, stopRequested>>
  BY DEF ReleaseRead
<1>2. ReaderCountExact' /\ readerCount \in Nat \ {0}
  <2> HIDE DEF s
  <2> QED
    BY <1>1, ReadingShrinks
<1>3. TypeOK'
  BY <1>1, <1>2 DEF TypeOK, ReaderStates
<1>4. ApplyingAlone'
  BY <1>1, <1>2 DEF MutexFree, ApplyingAlone, TypeOK
<1>5. NothingLeftBehind'
  BY <1>1, <1>2 DEF NothingLeftBehind, IsReading, MutexFree, TypeOK
<1>6. DeferredIndexFresh'
  BY <1>1 DEF DeferredIndexFresh
<1>7. NoLostWakeup'
  BY <1>1 DEF NoLostWakeup, IsWritePending, MutexFree, TypeOK
<1> QED
  BY <1>2, <1>3, <1>4, <1>5, <1>6, <1>7

\* The last reader moves one queued item into a bucket.
LEMMA ApplyAddKeepsIInv ==
  ASSUME IInv, NEW r \in Readers, ApplyAdd(r)
  PROVE  IInv'
<1> USE DEF IInv
<1>1. /\ reader[r] = "applying"
      /\ Head(itemsToAdd) \in Items
      /\ Tail(itemsToAdd) \in Seq(Items)
      /\ InsertToContainer(Head(itemsToAdd))
      /\ itemsToAdd' = Tail(itemsToAdd)
      /\ UNCHANGED <<itemsToRemove, readerCount, stopRequested, reader>>
  BY DEF ApplyAdd, TypeOK
<1>2. /\ buckets' \in [BucketIdx -> SUBSET Items]
      /\ currentBucketIdx' \in BucketIdx
      /\ \A i \in BucketIdx : buckets[i] \subseteq buckets'[i]
  BY <1>1, InsertToContainerKeeps
<1>3. TypeOK'
  BY <1>1, <1>2 DEF TypeOK
<1>4. ReaderCountExact'
  BY <1>1, ReadingSame DEF Reading
<1>5. ApplyingAlone'
  BY <1>1 DEF ApplyingAlone
<1>6. ~MutexFree'
  BY <1>1 DEF MutexFree
<1>7. NothingLeftBehind' /\ NoLostWakeup'
  BY <1>1, <1>6 DEF NothingLeftBehind, NoLostWakeup
<1>8. DeferredIndexFresh'
  BY <1>1, <1>2 DEF DeferredIndexFresh, TypeOK
<1> QED
  BY <1>3, <1>4, <1>5, <1>7, <1>8

\* The last reader applies the removals and notifies the blocked readers.
LEMMA ApplyRemovalsKeepsIInv ==
  ASSUME IInv, NEW r \in Readers, ApplyRemovals(r)
  PROVE  IInv'
<1> USE DEF IInv
<1>1. /\ reader[r] = "applying"
      /\ itemsToAdd' = <<>> /\ itemsToAdd = <<>>
      /\ itemsToRemove' = {}
      /\ buckets' \in [BucketIdx -> SUBSET Items]
      /\ UNCHANGED <<readerCount, currentBucketIdx, stopRequested>>
  BY DEF ApplyRemovals, TypeOK
<1>2. /\ reader' \in [Readers -> ReaderStates]
      /\ reader'[r] = "idle"
      /\ \A q \in Readers \ {r} :
            reader'[q] = IF reader[q] = "blocked" THEN "notified" ELSE reader[q]
  BY DEF ApplyRemovals, NotifyAll, TypeOK, ReaderStates
<1>3. TypeOK'
  BY <1>1, <1>2 DEF TypeOK
<1>4. Reading' = Reading
  BY <1>1, <1>2 DEF Reading, TypeOK
<1>5. ReaderCountExact'
  BY <1>1, <1>4, ReadingSame
<1>6. MutexFree'
  BY <1>1, <1>2 DEF MutexFree, ApplyingAlone
<1>7. ApplyingAlone'
  BY <1>6 DEF ApplyingAlone, MutexFree
<1>8. NothingLeftBehind' /\ DeferredIndexFresh'
  BY <1>1 DEF NothingLeftBehind, DeferredIndexFresh, IsWritePending
<1>9. NoLostWakeup'
  BY <1>2 DEF NoLostWakeup
<1> QED
  BY <1>3, <1>5, <1>7, <1>8, <1>9

-----------------------------------------------------------------------------
\* What every write leaves alone, and what makes it harmless: it touches the
\* buckets only when nobody reads, and queues only when somebody does.
LEMMA WriteKeepsIInv ==
  ASSUME IInv, MutexFree,
         UNCHANGED <<readerCount, stopRequested, reader>>,
         buckets' \in [BucketIdx -> SUBSET Items],
         currentBucketIdx' \in BucketIdx,
         itemsToAdd' \in Seq(Items),
         itemsToRemove' \in SUBSET (Items \X BucketIdx),
         \/ /\ IsReading
            /\ UNCHANGED buckets
            /\ IsWritePending => IsWritePending'
            /\ \A pair \in itemsToRemove' \ itemsToRemove : pair[1] \in buckets[pair[2]]
         \/ /\ ~IsReading
            /\ UNCHANGED <<itemsToAdd, itemsToRemove>>
  PROVE  IInv'
<1> USE DEF IInv
<1>1. TypeOK'
  BY DEF TypeOK
<1>2. ReaderCountExact' /\ ApplyingAlone'
  BY ReadingSame DEF Reading, ApplyingAlone
<1>3. MutexFree' /\ (IsReading' <=> IsReading)
  BY DEF MutexFree, IsReading
<1>4. CASE IsReading
  BY <1>1, <1>2, <1>3, <1>4 DEF NothingLeftBehind, DeferredIndexFresh, NoLostWakeup
<1>5. CASE ~IsReading
  <2>1. itemsToAdd = <<>> /\ itemsToRemove = {}
    BY <1>5 DEF NothingLeftBehind, IsWritePending
  <2> QED
    BY <1>1, <1>2, <1>3, <1>5, <2>1
       DEF NothingLeftBehind, DeferredIndexFresh, NoLostWakeup, IsWritePending
<1> QED
  BY <1>4, <1>5

\* insert, with and without readers.
LEMMA InsertKeepsIInv ==
  ASSUME IInv, NEW item \in Items, Insert(item)
  PROVE  IInv'
<1> USE DEF IInv
<1>1. MutexFree /\ UNCHANGED <<itemsToRemove, readerCount, stopRequested, reader>>
  BY DEF Insert
<1>2. CASE IsReading
  <2>1. itemsToAdd' = Append(itemsToAdd, item) /\ UNCHANGED <<buckets, currentBucketIdx>>
    BY <1>2 DEF Insert
  <2>2. itemsToAdd' \in Seq(Items) /\ itemsToAdd' # <<>>
    BY <2>1 DEF TypeOK
  <2> QED
    BY <1>1, <1>2, <2>1, <2>2, WriteKeepsIInv DEF TypeOK, IsWritePending
<1>3. CASE ~IsReading
  <2>1. InsertToContainer(item) /\ UNCHANGED itemsToAdd
    BY <1>3 DEF Insert
  <2> QED
    BY <1>1, <1>3, <2>1, InsertToContainerKeeps, WriteKeepsIInv DEF TypeOK
<1> QED
  BY <1>2, <1>3

\* erase(item), with and without readers.
LEMMA EraseKeepsIInv ==
  ASSUME IInv, NEW item \in Items, Erase(item)
  PROVE  IInv'
<1> USE DEF IInv
<1>1. MutexFree /\ UNCHANGED <<itemsToAdd, readerCount, currentBucketIdx, stopRequested, reader>>
  BY DEF Erase
<1>2. PICK i \in BucketIdx :
         /\ item \in buckets[i]
         /\ \/ /\ IsReading
               /\ itemsToRemove' = itemsToRemove \cup {<<item, i>>}
               /\ UNCHANGED buckets
            \/ /\ ~IsReading
               /\ buckets' = [buckets EXCEPT ![i] = @ \ {item}]
               /\ UNCHANGED itemsToRemove
  BY DEF Erase, IsFirstHolding, Holding
<1>3. CASE IsReading
  BY <1>1, <1>2, <1>3, WriteKeepsIInv DEF TypeOK, IsWritePending
<1>4. CASE ~IsReading
  BY <1>1, <1>2, <1>4, WriteKeepsIInv DEF TypeOK
<1> QED
  BY <1>3, <1>4

\* clear and erase(predicate) in one: both queue the pairs of some items.
LEMMA EraseManyKeepsIInv ==
  ASSUME IInv, NEW P \in SUBSET Items, EraseIf(P) \/ (Clear /\ P = Items)
  PROVE  IInv'
<1> USE DEF IInv
<1>1. MutexFree /\ UNCHANGED <<itemsToAdd, readerCount, currentBucketIdx, stopRequested, reader>>
  BY DEF EraseIf, Clear
<1>2. CASE IsReading
  <2>1. itemsToRemove' = itemsToRemove \cup PairsIn(P) /\ UNCHANGED buckets
    BY <1>2 DEF EraseIf, Clear
  <2>2. /\ PairsIn(P) \in SUBSET (Items \X BucketIdx)
        /\ \A pair \in PairsIn(P) : pair[1] \in buckets[pair[2]]
    BY DEF PairsIn
  <2> QED
    BY <1>1, <1>2, <2>1, <2>2, WriteKeepsIInv DEF TypeOK, IsWritePending
<1>3. CASE ~IsReading
  <2>1. buckets' \in [BucketIdx -> SUBSET Items] /\ UNCHANGED itemsToRemove
    BY <1>3 DEF EraseIf, Clear, TypeOK
  <2> QED
    BY <1>1, <1>3, <2>1, WriteKeepsIInv DEF TypeOK
<1> QED
  BY <1>2, <1>3

\* stop_requested wakes every blocked reader.
LEMMA StopKeepsIInv ==
  ASSUME IInv, StopRequested
  PROVE  IInv'
<1> USE DEF IInv
<1>1. /\ MutexFree
      /\ stopRequested' = TRUE
      /\ UNCHANGED <<buckets, itemsToAdd, itemsToRemove, readerCount, currentBucketIdx>>
      /\ reader' \in [Readers -> ReaderStates]
      /\ \A q \in Readers :
            reader'[q] = IF reader[q] = "blocked" THEN "notified" ELSE reader[q]
  BY DEF StopRequested, NotifyAll, TypeOK, ReaderStates
<1>2. TypeOK'
  BY <1>1 DEF TypeOK
<1>3. Reading' = Reading
  BY <1>1 DEF Reading
<1>4. ReaderCountExact'
  BY <1>1, <1>3, ReadingSame
<1>5. MutexFree' /\ MutexFree
  BY <1>1 DEF MutexFree
<1>6. ApplyingAlone'
  BY <1>5 DEF ApplyingAlone, MutexFree
<1>7. NothingLeftBehind' /\ DeferredIndexFresh'
  BY <1>1, <1>5 DEF NothingLeftBehind, DeferredIndexFresh, IsWritePending, IsReading
<1>8. NoLostWakeup'
  BY <1>1 DEF NoLostWakeup
<1> QED
  BY <1>2, <1>4, <1>6, <1>7, <1>8

-----------------------------------------------------------------------------
\* Every step keeps the inductive invariant, one lemma per operation.
LEMMA StepKeepsIInv == IInv /\ [Next]_vars => IInv'
<1> SUFFICES ASSUME IInv, [Next]_vars
             PROVE  IInv'
  OBVIOUS
<1>1. ASSUME NEW r \in Readers, ReaderStep(r)
      PROVE  IInv'
  BY <1>1, EnterKeepsIInv, ReleaseKeepsIInv, ApplyAddKeepsIInv, ApplyRemovalsKeepsIInv
     DEF ReaderStep
<1>2. CASE WriterStep
  BY <1>2, InsertKeepsIInv, EraseKeepsIInv, EraseManyKeepsIInv, StopKeepsIInv
     DEF WriterStep
<1>3. CASE UNCHANGED vars
  <2>1. /\ TypeOK' /\ Reading' = Reading
        /\ ApplyingAlone' /\ NothingLeftBehind' /\ DeferredIndexFresh' /\ NoLostWakeup'
    BY <1>3 DEF IInv, vars, TypeOK, Reading, ApplyingAlone, NothingLeftBehind,
                DeferredIndexFresh, NoLostWakeup, IsReading, IsWritePending, MutexFree
  <2> QED
    BY <1>3, <2>1, ReadingSame DEF IInv, vars
<1> QED
  BY <1>1, <1>2, <1>3 DEF Next

\* A new container is empty and nobody reads it.
LEMMA InitIInv == Init => IInv
<1> SUFFICES ASSUME Init
             PROVE  IInv
  OBVIOUS
<1>1. TypeOK
  BY BucketIdxNonEmpty DEF Init, TypeOK, ReaderStates
<1>2. Reading = {}
  BY DEF Init, Reading
<1>3. ReaderCountExact
  BY <1>2, FS_EmptySet DEF Init, ReaderCountExact
<1> QED
  BY <1>1, <1>3 DEF Init, IInv, ApplyingAlone, NothingLeftBehind, DeferredIndexFresh,
     NoLostWakeup, IsWritePending

\* The inductive invariant holds throughout.
THEOREM Invariance == Spec => []IInv
  BY InitIInv, StepKeepsIInv, PTL DEF Spec

\* Every field keeps its type; in particular the unsigned reader count never
\* goes below zero and the bucket index never leaves the vector.
THEOREM TypeCorrect == Spec => []TypeOK
<1>1. IInv => TypeOK
  BY DEF IInv
<1> QED
  BY <1>1, Invariance, PTL

\* The reader count is exact and the last release leaves no write behind.
THEOREM CountAndQueues == Spec => []ReadersAndQueuesAgree
<1>1. IInv => ReadersAndQueuesAgree
  BY DEF IInv, ReadersAndQueuesAgree
<1> QED
  BY <1>1, Invariance, PTL

\* A deferred removal still finds its item in the bucket it recorded.
THEOREM RemovalsFindTheirItem == Spec => []DeferredIndexFresh
<1>1. IInv => DeferredIndexFresh
  BY DEF IInv
<1> QED
  BY <1>1, Invariance, PTL

\* No thread sleeps in acquire_read with nothing left to wake it.
THEOREM WakeupsNotLost == Spec => []NoLostWakeup
<1>1. IInv => NoLostWakeup
  BY DEF IInv
<1> QED
  BY <1>1, Invariance, PTL

-----------------------------------------------------------------------------
(* Refinement: every step of the container is a step of SnapshotReads, or   *)
(* leaves its state unchanged.                                              *)

\* acquire_read and the return from its wait start an abstract read, or stutter.
LEMMA EnterRefines ==
  ASSUME IInv, NEW r \in Readers, AcquireRead(r) \/ WakeUp(r)
  PROVE  [Snapshot!Next]_Snapshot!vars
<1>1. /\ reader[r] \in {"idle", "blocked", "notified"}
      /\ UNCHANGED <<buckets, itemsToAdd, itemsToRemove, currentBucketIdx, stopRequested>>
      /\ \/ /\ IsWritePending => stopRequested
            /\ reader' = [reader EXCEPT ![r] = "reading"]
         \/ reader' = [reader EXCEPT ![r] = "blocked"]
  BY DEF AcquireRead, WakeUp
<1>2. CASE (IsWritePending => stopRequested) /\ reader' = [reader EXCEPT ![r] = "reading"]
  <2>1. r \notin Reading /\ Reading' = Reading \cup {r}
    BY <1>1, <1>2 DEF Reading, IInv, TypeOK
  <2>2. Snapshot!Start(r)
    BY <1>1, <1>2, <2>1 DEF Snapshot!Start, IsWritePending
  <2> QED
    BY <2>2 DEF Snapshot!Next
<1>3. CASE reader' = [reader EXCEPT ![r] = "blocked"]
  <2>1. Reading' = Reading
    BY <1>1, <1>3 DEF Reading, IInv, TypeOK
  <2> QED
    BY <1>1, <2>1 DEF Snapshot!vars, IsWritePending
<1> QED
  BY <1>1, <1>2, <1>3

\* release_read finishes an abstract read.
LEMMA LeaveRefines ==
  ASSUME IInv, NEW r \in Readers, ReleaseRead(r)
  PROVE  [Snapshot!Next]_Snapshot!vars
<1>1. r \in Reading /\ Reading' = Reading \ {r}
  BY DEF ReleaseRead, Reading, IInv, TypeOK
<1>2. Snapshot!Finish(r)
  BY <1>1 DEF ReleaseRead, Snapshot!Finish, IsWritePending
<1> QED
  BY <1>2 DEF Snapshot!Next

\* The thread that applies the queues is the only one: nobody reads.
LEMMA ApplyRefines ==
  ASSUME IInv, NEW r \in Readers, ApplyAdd(r) \/ ApplyRemovals(r)
  PROVE  [Snapshot!Next]_Snapshot!vars
<1>1. reader[r] = "applying" /\ UNCHANGED stopRequested
  BY DEF ApplyAdd, ApplyRemovals
<1>2. Reading = {}
  BY <1>1, CountIsZero DEF IInv, ApplyingAlone
<1>3. Reading' = {}
  BY <1>1, <1>2 DEF ApplyAdd, ApplyRemovals, NotifyAll, Reading, IInv, TypeOK
<1>4. IsWritePending' => IsWritePending
  BY DEF ApplyAdd, ApplyRemovals, IsWritePending
<1>5. IsWritePending' \in BOOLEAN
  BY DEF IsWritePending
<1>6. Snapshot!Write
  BY <1>1, <1>2, <1>3, <1>4, <1>5 DEF Snapshot!Write
<1> QED
  BY <1>6 DEF Snapshot!Next

\* The steps of the last reader are abstract writes: nobody reads any more.
LEMMA WriteRefines ==
  ASSUME IInv, MutexFree,
         UNCHANGED <<readerCount, stopRequested, reader>>,
         \/ /\ IsReading
            /\ UNCHANGED <<buckets, currentBucketIdx>>
            /\ IsWritePending => IsWritePending'
         \/ /\ ~IsReading
            /\ UNCHANGED <<itemsToAdd, itemsToRemove>>
  PROVE  [Snapshot!Next]_Snapshot!vars
<1>1. Reading' = Reading
  BY DEF Reading
<1>2. IsWritePending \in BOOLEAN /\ IsWritePending' \in BOOLEAN
  BY DEF IsWritePending
<1>3. IsReading <=> Reading # {}
  BY CountIsZero DEF IInv, TypeOK, IsReading
<1>4. CASE IsReading
  <2>1. CASE IsWritePending' /\ ~IsWritePending
    <3>1. Snapshot!HoldBack
      BY <1>1, <1>2, <1>3, <1>4, <2>1 DEF Snapshot!HoldBack
    <3> QED
      BY <3>1 DEF Snapshot!Next
  <2>2. CASE ~(IsWritePending' /\ ~IsWritePending)
    <3>1. IsWritePending' = IsWritePending
      BY <1>2, <1>4, <2>2
    <3> QED
      BY <1>1, <1>4, <3>1 DEF Snapshot!vars
  <2> QED
    BY <2>1, <2>2
<1>5. CASE ~IsReading
  <2>1. IsWritePending' = IsWritePending
    BY <1>5 DEF IsWritePending
  <2>2. Snapshot!Write
    BY <1>1, <1>2, <1>3, <1>5, <2>1 DEF Snapshot!Write
  <2> QED
    BY <2>2 DEF Snapshot!Next
<1> QED
  BY <1>4, <1>5

\* A write is held back while somebody reads and changes the content otherwise.
LEMMA WriterRefines ==
  ASSUME IInv, WriterStep
  PROVE  [Snapshot!Next]_Snapshot!vars
<1>1. ASSUME NEW item \in Items, Insert(item)
      PROVE  [Snapshot!Next]_Snapshot!vars
  <2>1. itemsToAdd \in Seq(Items)
    BY DEF IInv, TypeOK
  <2>2. Len(Append(itemsToAdd, item)) # Len(<<>>)
    BY <2>1
  <2>3. Append(itemsToAdd, item) # <<>>
    BY <2>2
  <2> QED
    BY <1>1, <2>3, WriteRefines DEF Insert, IsWritePending
<1>2. ASSUME NEW item \in Items, Erase(item)
      PROVE  [Snapshot!Next]_Snapshot!vars
  BY <1>2, WriteRefines DEF Erase, IsWritePending
<1>3. CASE Clear
  BY <1>3, WriteRefines DEF Clear, IsWritePending
<1>4. ASSUME NEW P \in SUBSET Items, EraseIf(P)
      PROVE  [Snapshot!Next]_Snapshot!vars
  BY <1>4, WriteRefines DEF EraseIf, IsWritePending
<1>5. CASE StopRequested
  <2>1. Reading' = Reading
    BY <1>5 DEF StopRequested, NotifyAll, Reading, IInv, TypeOK
  <2>2. Snapshot!Stop
    BY <1>5, <2>1 DEF StopRequested, Snapshot!Stop, IsWritePending
  <2> QED
    BY <2>2 DEF Snapshot!Next
<1> QED
  BY <1>1, <1>2, <1>3, <1>4, <1>5 DEF WriterStep

\* Tasks that read the buckets without a lock see one frozen content from
\* acquire_read to release_read, whatever insert, erase and clear do meanwhile.
THEOREM ImplementsSnapshot == Spec => ImplementsSnapshotReads
<1>1. Init => Snapshot!Init
  BY DEF Init, Snapshot!Init, Reading, IsWritePending
<1>2. IInv /\ [Next]_vars => [Snapshot!Next]_Snapshot!vars
  <2> SUFFICES ASSUME IInv, [Next]_vars
               PROVE  [Snapshot!Next]_Snapshot!vars
    OBVIOUS
  <2>1. ASSUME NEW r \in Readers, ReaderStep(r)
        PROVE  [Snapshot!Next]_Snapshot!vars
    BY <2>1, EnterRefines, LeaveRefines, ApplyRefines DEF ReaderStep
  <2>2. CASE UNCHANGED vars
    BY <2>2 DEF vars, Snapshot!vars, Reading, IsWritePending
  <2> QED
    BY <2>1, <2>2, WriterRefines DEF Next
<1> QED
  BY <1>1, <1>2, Invariance, PTL DEF Spec, ImplementsSnapshotReads, Snapshot!Spec
=============================================================================
