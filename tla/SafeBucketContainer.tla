------------------------ MODULE SafeBucketContainer ------------------------
(***************************************************************************)
(* utils::concurrency::SafeBucketContainer: a set of items spread over     *)
(* buckets.  Tasks read the buckets without a lock between acquire_read    *)
(* and release_read; insert, erase and clear issued meanwhile are queued   *)
(* and applied by the last reader.  Every operation runs under _mtx and is *)
(* one action, except acquire_read, which may block on _write_condition,   *)
(* and the release of the last reader, which applies the queues while it   *)
(* still holds _mtx (state "applying": nobody else can take the mutex).    *)
(***************************************************************************)
EXTENDS Integers, Sequences, FiniteSets

CONSTANTS
    Items,           \* the values of T
    Readers,         \* the threads that run tasks reading the container
    BucketCount,     \* _bucket_count
    BucketCapacity,  \* _bucket_capacity
    MaxPending       \* bound on the length of _items_to_add

ASSUME ContainerAssumption ==
    /\ IsFiniteSet(Readers)
    /\ BucketCount \in Nat \ {0}
    /\ BucketCapacity \in Nat
    /\ MaxPending \in Nat

VARIABLES
    buckets,           \* _buckets
    itemsToAdd,        \* _items_to_add
    itemsToRemove,     \* _items_to_remove, <<item, bucket index>> pairs; the pops
                       \* commute and are idempotent, so a set stands for the queue
    readerCount,       \* _reader_count
    currentBucketIdx,  \* _current_bucket_idx
    stopRequested,     \* _stop_requested
    reader             \* where each reading thread is

containerVars == <<buckets, itemsToAdd, itemsToRemove, readerCount,
                   currentBucketIdx, stopRequested>>
vars == <<buckets, itemsToAdd, itemsToRemove, readerCount,
          currentBucketIdx, stopRequested, reader>>

BucketIdx == 0 .. BucketCount - 1

\* "blocked" waits on _write_condition, "notified" was woken and wants _mtx back.
ReaderStates == {"idle", "blocked", "notified", "reading", "applying"}

Init ==
    /\ buckets = [i \in BucketIdx |-> {}]
    /\ itemsToAdd = <<>>
    /\ itemsToRemove = {}
    /\ readerCount = 0
    /\ currentBucketIdx = 0
    /\ stopRequested = FALSE
    /\ reader = [r \in Readers |-> "idle"]

MutexFree == \A r \in Readers : reader[r] # "applying"

IsReading == readerCount > 0

IsWritePending == itemsToAdd # <<>> \/ itemsToRemove # {}

\* Bucket::is_full
IsFull(i) == Cardinality(buckets[i]) >= BucketCapacity

\* Fault variant: the bucket index runs past the last bucket.
InsertBucketNoWrap ==
    IF IsFull(currentBucketIdx) THEN currentBucketIdx + 1 ELSE currentBucketIdx

\* The bucket _insert_to_container chooses: it moves on by one when the current
\* bucket is full, whether or not the next one has room.
InsertBucket ==
    IF IsFull(currentBucketIdx)
    THEN (currentBucketIdx + 1) % BucketCount
    ELSE currentBucketIdx

InsertToContainer(item) ==
    /\ currentBucketIdx' = InsertBucket
    /\ buckets' = [buckets EXCEPT ![InsertBucket] = @ \cup {item}]

Holding(item) == {i \in BucketIdx : item \in buckets[i]}

\* The first bucket that holds the item: where _find_bucket and
\* _remove_from_container(item) stop.
IsFirstHolding(i, item) ==
    /\ i \in Holding(item)
    /\ \A j \in Holding(item) : i <= j

-----------------------------------------------------------------------------
(* Readers.                                                                *)

\* Fault variant: acquire_read does not wait for pending writes.
AcquireReadIgnoringWrites(r) ==
    /\ MutexFree
    /\ reader[r] = "idle"
    /\ readerCount' = readerCount + 1
    /\ reader' = [reader EXCEPT ![r] = "reading"]
    /\ UNCHANGED <<buckets, itemsToAdd, itemsToRemove, currentBucketIdx, stopRequested>>

AcquireRead(r) ==
    /\ MutexFree
    /\ reader[r] = "idle"
    /\ \/ /\ IsWritePending => stopRequested
          /\ readerCount' = readerCount + 1
          /\ reader' = [reader EXCEPT ![r] = "reading"]
       \/ /\ IsWritePending /\ ~stopRequested
          /\ reader' = [reader EXCEPT ![r] = "blocked"]
          /\ UNCHANGED readerCount
    /\ UNCHANGED <<buckets, itemsToAdd, itemsToRemove, currentBucketIdx, stopRequested>>

\* A woken reader takes _mtx again and evaluates the predicate of the wait; it
\* may have been woken for no reason.
WakeUp(r) ==
    /\ MutexFree
    /\ reader[r] \in {"blocked", "notified"}
    /\ \/ /\ IsWritePending => stopRequested
          /\ readerCount' = readerCount + 1
          /\ reader' = [reader EXCEPT ![r] = "reading"]
       \/ /\ IsWritePending /\ ~stopRequested
          /\ reader' = [reader EXCEPT ![r] = "blocked"]
          /\ UNCHANGED readerCount
    /\ UNCHANGED <<buckets, itemsToAdd, itemsToRemove, currentBucketIdx, stopRequested>>

\* release_read up to its early return: only the last reader goes on to apply
\* the queues.
ReleaseRead(r) ==
    /\ MutexFree
    /\ reader[r] = "reading"
    /\ readerCount' = readerCount - 1
    /\ reader' = [reader EXCEPT ![r] = IF readerCount' > 0 THEN "idle" ELSE "applying"]
    /\ UNCHANGED <<buckets, itemsToAdd, itemsToRemove, currentBucketIdx, stopRequested>>

\* Fault variant: an item that was added stays in the queue.
ApplyAddKeepQueue(r) ==
    /\ reader[r] = "applying"
    /\ itemsToAdd # <<>>
    /\ InsertToContainer(Head(itemsToAdd))
    /\ UNCHANGED <<itemsToAdd, itemsToRemove, readerCount, stopRequested, reader>>

ApplyAdd(r) ==
    /\ reader[r] = "applying"
    /\ itemsToAdd # <<>>
    /\ InsertToContainer(Head(itemsToAdd))
    /\ itemsToAdd' = Tail(itemsToAdd)
    /\ UNCHANGED <<itemsToRemove, readerCount, stopRequested, reader>>

\* notify_all: every blocked reader will try to take _mtx again.
NotifyAll(rs) ==
    [q \in Readers |-> IF rs[q] = "blocked" THEN "notified" ELSE rs[q]]

\* Fault variant: the blocked readers are not notified.
ApplyRemovalsNoNotify(r) ==
    /\ reader[r] = "applying"
    /\ itemsToAdd = <<>>
    /\ buckets' = [i \in BucketIdx |-> {x \in buckets[i] : <<x, i>> \notin itemsToRemove}]
    /\ itemsToRemove' = {}
    /\ reader' = [reader EXCEPT ![r] = "idle"]
    /\ UNCHANGED <<itemsToAdd, readerCount, currentBucketIdx, stopRequested>>

\* Fault variant: the queue of removals is not emptied.
ApplyRemovalsKeepQueue(r) ==
    /\ reader[r] = "applying"
    /\ itemsToAdd = <<>>
    /\ buckets' = [i \in BucketIdx |-> {x \in buckets[i] : <<x, i>> \notin itemsToRemove}]
    /\ reader' = [NotifyAll(reader) EXCEPT ![r] = "idle"]
    /\ UNCHANGED <<itemsToAdd, itemsToRemove, readerCount, currentBucketIdx, stopRequested>>

\* The removals come after all the additions; then the blocked readers are
\* notified and _mtx is released.
ApplyRemovals(r) ==
    /\ reader[r] = "applying"
    /\ itemsToAdd = <<>>
    /\ buckets' = [i \in BucketIdx |-> {x \in buckets[i] : <<x, i>> \notin itemsToRemove}]
    /\ itemsToRemove' = {}
    /\ reader' = [NotifyAll(reader) EXCEPT ![r] = "idle"]
    /\ UNCHANGED <<itemsToAdd, readerCount, currentBucketIdx, stopRequested>>

-----------------------------------------------------------------------------
(* Writers.  Any thread may call these; a call is atomic under _mtx.       *)

Insert(item) ==
    /\ MutexFree
    /\ \/ /\ IsReading
          /\ Len(itemsToAdd) < MaxPending
          /\ itemsToAdd' = Append(itemsToAdd, item)
          /\ UNCHANGED <<buckets, currentBucketIdx>>
       \/ /\ ~IsReading
          /\ InsertToContainer(item)
          /\ UNCHANGED itemsToAdd
    /\ UNCHANGED <<itemsToRemove, readerCount, stopRequested, reader>>

\* Fault variant: erase does not look for readers.
EraseNow(item) ==
    /\ MutexFree
    /\ \E i \in BucketIdx :
          /\ IsFirstHolding(i, item)
          /\ buckets' = [buckets EXCEPT ![i] = @ \ {item}]
    /\ UNCHANGED <<itemsToAdd, itemsToRemove, readerCount, currentBucketIdx,
                   stopRequested, reader>>

\* Fault variant: a removal is queued for the current bucket.
EraseAtCurrent(item) ==
    /\ MutexFree
    /\ \E i \in BucketIdx :
          /\ IsFirstHolding(i, item)
          /\ \/ /\ IsReading
                /\ itemsToRemove' = itemsToRemove \cup {<<item, currentBucketIdx>>}
                /\ UNCHANGED buckets
             \/ /\ ~IsReading
                /\ buckets' = [buckets EXCEPT ![i] = @ \ {item}]
                /\ UNCHANGED itemsToRemove
    /\ UNCHANGED <<itemsToAdd, readerCount, currentBucketIdx, stopRequested, reader>>

\* erase(item): an item that is in no bucket (it may be in _items_to_add) is
\* left alone.
Erase(item) ==
    /\ MutexFree
    /\ \E i \in BucketIdx :
          /\ IsFirstHolding(i, item)
          /\ \/ /\ IsReading
                /\ itemsToRemove' = itemsToRemove \cup {<<item, i>>}
                /\ UNCHANGED buckets
             \/ /\ ~IsReading
                /\ buckets' = [buckets EXCEPT ![i] = @ \ {item}]
                /\ UNCHANGED itemsToRemove
    /\ UNCHANGED <<itemsToAdd, readerCount, currentBucketIdx, stopRequested, reader>>

\* What a removal queues for the items of P: one pair per bucket and item.
PairsIn(P) == {pair \in P \X BucketIdx : pair[1] \in buckets[pair[2]]}

\* clear(): additions that are still queued survive it.
Clear ==
    /\ MutexFree
    /\ \/ /\ IsReading
          /\ itemsToRemove' = itemsToRemove \cup PairsIn(Items)
          /\ UNCHANGED buckets
       \/ /\ ~IsReading
          /\ buckets' = [i \in BucketIdx |-> {}]
          /\ UNCHANGED itemsToRemove
    /\ UNCHANGED <<itemsToAdd, readerCount, currentBucketIdx, stopRequested, reader>>

\* erase(predicate), the predicate given by the set P of the items it accepts.
\* Without readers the loop erases the element it stands on and then advances
\* the dangling iterator: undefined, so it may stop anywhere in each bucket.
EraseIf(P) ==
    /\ MutexFree
    /\ \/ /\ IsReading
          /\ itemsToRemove' = itemsToRemove \cup PairsIn(P)
          /\ UNCHANGED buckets
       \/ /\ ~IsReading
          /\ \E erased \in SUBSET PairsIn(P) :
                buckets' = [i \in BucketIdx |-> {x \in buckets[i] : <<x, i>> \notin erased}]
          /\ UNCHANGED itemsToRemove
    /\ UNCHANGED <<itemsToAdd, readerCount, currentBucketIdx, stopRequested, reader>>

StopRequested ==
    /\ MutexFree
    /\ stopRequested' = TRUE
    /\ reader' = NotifyAll(reader)
    /\ UNCHANGED <<buckets, itemsToAdd, itemsToRemove, readerCount, currentBucketIdx>>

-----------------------------------------------------------------------------
ReaderStep(r) ==
    \/ AcquireRead(r)
    \/ WakeUp(r)
    \/ ReleaseRead(r)
    \/ ApplyAdd(r)
    \/ ApplyRemovals(r)

WriterStep ==
    \/ \E item \in Items : Insert(item) \/ Erase(item)
    \/ Clear
    \/ \E P \in SUBSET Items : EraseIf(P)
    \/ StopRequested

Next == (\E r \in Readers : ReaderStep(r)) \/ WriterStep

Spec == Init /\ [][Next]_vars

(* A task that reads releases (BtcCompactBlockMappingTask calls             *)
(* on_finished_reading_tx_pool once its sub tasks are done) and a thread    *)
(* that holds _mtx runs on.  Nothing obliges a task to start reading, a     *)
(* writer to write, or _mtx to be handed to the longest waiter.             *)
Fairness ==
    \A r \in Readers :
        /\ WF_vars(ReleaseRead(r))
        /\ WF_vars(ApplyAdd(r) \/ ApplyRemovals(r))

FairSpec == Spec /\ Fairness

-----------------------------------------------------------------------------
(* Properties.                                                             *)

\* The values the fields of the container may take (safe_bucket_container.h).
TypeOK ==
    /\ buckets \in [BucketIdx -> SUBSET Items]
    /\ itemsToAdd \in Seq(Items)
    /\ itemsToRemove \in SUBSET (Items \X BucketIdx)
    /\ readerCount \in Nat
    /\ currentBucketIdx \in BucketIdx
    /\ stopRequested \in BOOLEAN
    /\ reader \in [Readers -> ReaderStates]

Reading == {r \in Readers : reader[r] = "reading"}

\* _reader_count is the number of threads between acquire_read and release_read,
\* whatever order they block, wake up and leave in.
ReaderCountExact == readerCount = Cardinality(Reading)

\* At most one thread applies the queues, and only when nobody reads.
ApplyingAlone ==
    \A r \in Readers : reader[r] = "applying" =>
        /\ readerCount = 0
        /\ \A q \in Readers : reader[q] = "applying" => q = r

\* Whenever _mtx is free and nobody reads, the write queues are empty: the last
\* release_read left nothing behind and no writer queues without a reader.
NothingLeftBehind == MutexFree /\ ~IsReading => ~IsWritePending

\* _reader_count is the number of threads between acquire_read and release_read,
\* whatever order they block, wake up and leave in; at most one thread applies the
\* queues, and only when nobody reads; and whenever _mtx is free and nobody reads,
\* the write queues are empty, as the last release_read left nothing behind.
ReadersAndQueuesAgree == ReaderCountExact /\ ApplyingAlone /\ NothingLeftBehind

\* The bucket index that erase stored with a deferred removal is still right when
\* release_read uses it: the item is still in that bucket.
DeferredIndexFresh ==
    \A pair \in itemsToRemove : pair[1] \in buckets[pair[2]]

\* No wakeup is lost: a thread asleep on _write_condition still has something to
\* wait for (a queued write or one being applied), and no stop was requested.
NoLostWakeup ==
    \A r \in Readers : reader[r] = "blocked" =>
        /\ ~stopRequested
        /\ IsWritePending \/ ~MutexFree

\* The container implements frozen reads with held-back writes.
Snapshot == INSTANCE SnapshotReads WITH
    content <- <<buckets, currentBucketIdx>>,
    active <- Reading,
    pending <- IsWritePending,
    stopped <- stopRequested

ImplementsSnapshotReads == Snapshot!Spec

\* A queued write is applied in the end, however many tasks come to read: a
\* pending write keeps new readers out until the last one has applied it
\* (unless a stop lets readers in again).
QueuedWritesApplied == IsWritePending ~> (~IsWritePending \/ stopRequested)
=============================================================================
