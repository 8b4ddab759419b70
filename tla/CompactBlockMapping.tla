------------------------ MODULE CompactBlockMapping ------------------------
(***************************************************************************)
(* BtcCompactBlockMappingTask: finds, for the compact ids of a block, the  *)
(* transactions of the pool of those not seen in blocks.  The task holds   *)
(* the pool (SafeBucketContainer) while one sub task per bucket looks up   *)
(* its hashes (BtcCompactTxMappingSubTask).  The sub tasks share the map   *)
(* from compact ids to positions, the placeholders of the block, the       *)
(* vector of missing positions and an atomic counter, and read the maps of *)
(* the TransactionService, which the main thread changes meanwhile without *)
(* a lock.                                                                 *)
(*                                                                         *)
(* A short id is abstracted to the hash it was read from, and a hash of    *)
(* the map has one; prefilled transactions, which need no mapping, are     *)
(* left out of the block.  A wait that throws is part of TaskPool.         *)
(***************************************************************************)
EXTENDS Integers, Sequences, FiniteSets

CONSTANTS
    Tasks,           \* mapping task objects, each with its sub tasks
    Hashes,          \* transaction hashes
    NoHash,          \* NULL_TX_SID
    CompactBlocks,   \* the blocks that arrive: the compact ids and to_compact_id,
                     \* which takes its keys from the header of the block
    StartKnown,      \* the transactions the service starts with, one per bucket
    BucketCount, BucketCapacity, MaxPending,   \* of the pool
    CounterSize      \* stands for 2^64, the size of the shared counter

ASSUME MappingAssumption ==
    /\ NoHash \notin Hashes
    /\ StartKnown \subseteq Hashes
    /\ IsFiniteSet(StartKnown) /\ Cardinality(StartKnown) <= BucketCount
    /\ IsFiniteSet(Tasks) /\ IsFiniteSet(Hashes)
    /\ BucketCount \in Nat \ {0} /\ {BucketCapacity, MaxPending} \subseteq Nat
    /\ CounterSize \in Nat
    /\ \A b \in CompactBlocks :
          /\ Len(b.ids) \in Nat /\ DOMAIN b.compactOf = Hashes
          /\ BucketCount * Cardinality(Hashes) + Len(b.ids) < CounterSize

VARIABLES
    buckets, itemsToAdd, itemsToRemove, readerCount,   \* the pool
    currentBucketIdx, stopRequested, reader,
    known,         \* the keys of tx_hash_to_short_ids
    withContents,  \* the keys of tx_hash_to_contents
    job,           \* per task: its thread and the data its sub tasks share
    sub            \* per task and bucket: the sub task

Pool == INSTANCE SafeBucketContainer WITH Items <- Hashes, Readers <- Tasks

poolVars == <<buckets, itemsToAdd, itemsToRemove, readerCount,
              currentBucketIdx, stopRequested, reader>>
serviceVars == <<known, withContents>>
vars == <<poolVars, serviceVars, job, sub>>

Positions(b) == 1 .. Len(b.ids)

\* CompactBlockDataService::parse: every placeholder is missing, nothing claimed.
Parsed(b) ==
    [pc |-> "acquire", block |-> b, claimed |-> {},
     types |-> [i \in Positions(b) |-> "missing"],
     sids |-> [i \in Positions(b) |-> NoHash],
     missing |-> <<>>, cells |-> <<>>, counter |-> 0]

NoBlock == [ids |-> <<>>, compactOf |-> [h \in Hashes |-> NoHash]]

IdleSub == [pc |-> "idle", given |-> {}, todo |-> {}, hash |-> NoHash,
            dup |-> FALSE, pos |-> 0, end |-> 0]

\* The pool starts with one transaction in each of its first buckets.
Init ==
    /\ \E spread \in [0 .. BucketCount - 1 -> SUBSET StartKnown] :
          /\ \A i \in DOMAIN spread : Cardinality(spread[i]) <= 1
          /\ \A i, j \in DOMAIN spread : i # j => spread[i] \cap spread[j] = {}
          /\ \A i, j \in DOMAIN spread : i < j /\ spread[i] = {} => spread[j] = {}
          /\ UNION {spread[i] : i \in DOMAIN spread} = StartKnown
          /\ buckets = spread
    /\ currentBucketIdx = IF StartKnown = {} THEN 0 ELSE Cardinality(StartKnown) - 1
    /\ itemsToAdd = <<>>
    /\ itemsToRemove = {}
    /\ readerCount = 0
    /\ stopRequested = FALSE
    /\ reader = [t \in Tasks |-> "idle"]
    /\ known = StartKnown
    /\ withContents \in SUBSET StartKnown
    /\ job = [t \in Tasks |-> [Parsed(NoBlock) EXCEPT !.pc = "idle"]]
    /\ sub = [t \in Tasks |-> [i \in Pool!BucketIdx |-> IdleSub]]

-----------------------------------------------------------------------------
(* The task.                                                               *)

\* init and the start of _execute.  A task that failed is not used again (a
\* bound: it could be, but its reader would still be counted).
Start(t, b) ==
    /\ job[t].pc \in {"idle", "done"}
    /\ job' = [job EXCEPT ![t] = Parsed(b)]
    /\ UNCHANGED <<poolVars, serviceVars, sub>>

\* acquire_tx_pool: acquire_read returns, or blocks and returns later.
Acquire(t) ==
    /\ job[t].pc = "acquire"
    /\ Pool!AcquireRead(t) \/ Pool!WakeUp(t)
    /\ job' = [job EXCEPT ![t].pc = IF reader'[t] = "reading" THEN "dispatch" ELSE @]
    /\ UNCHANGED <<serviceVars, sub>>

\* _dispatch passes over empty buckets, but enqueues one sub task at least.
Dispatched ==
    LET full == {i \in Pool!BucketIdx : buckets[i] # {}}
    IN  IF full = {} THEN {BucketCount - 1} ELSE full

Dispatch(t) ==
    /\ job[t].pc = "dispatch"
    /\ sub' = [sub EXCEPT ![t] = [i \in Pool!BucketIdx |->
                  IF i \in Dispatched
                  THEN [IdleSub EXCEPT !.pc = "next", !.given = buckets[i],
                                       !.todo = buckets[i]]
                  ELSE IdleSub]]
    /\ job' = [job EXCEPT ![t].pc = "wait"]
    /\ UNCHANGED <<poolVars, serviceVars>>

SubTasksDone(t) == \A i \in Pool!BucketIdx : sub[t][i].pc = "idle"

\* The position the compact map keeps for a compact id: the first one it has.
PosOf(b, c) ==
    CHOOSE i \in Positions(b) : b.ids[i] = c /\ \A j \in 1 .. i - 1 : b.ids[j] # c

CompactIdsIn(b) == {b.ids[i] : i \in Positions(b)}

\* std::sort: the n-th element is the one of rank n.
Rank(s, k) ==
    Cardinality({l \in DOMAIN s : s[l] < s[k] \/ (s[l] = s[k] /\ l <= k)})

Sorted(s) == [n \in DOMAIN s |-> s[CHOOSE k \in DOMAIN s : Rank(s, k) = n]]

\* The positions that the loop over the compact map finds missing, and one order to
\* push them in: which one does not matter, as they are sorted.
Scanned(j) ==
    {i \in {PosOf(j.block, c) : c \in CompactIdsIn(j.block)} : j.types[i] = "missing"}

AsSeq(S) ==
    CHOOSE s \in [1 .. Cardinality(S) -> S] : \A i \in S : \E n \in DOMAIN s : s[n] = i

\* missing_indices after the loop, which runs unless the counter says that
\* everything was found, and the sort.
MissingIndices(j) ==
    IF j.counter < Len(j.block.ids) THEN Sorted(j.missing \o AsSeq(Scanned(j)))
                                    ELSE j.missing

\* Fault variant: the totals are not compared.
AddsUpUnchecked(j) == TRUE

\* Fault variant: only a total that is too large is refused.
AddsUpAtMost(j) == (Len(MissingIndices(j)) + j.counter) % CounterSize <= Len(j.block.ids)

\* total_compact_processed = compact_tx_count, in the arithmetic of uint64_t.
AddsUp(j) == (Len(MissingIndices(j)) + j.counter) % CounterSize = Len(j.block.ids)

\* The end of _execute.  When the totals differ it throws, and the pool is not
\* released.
Count(t) ==
    /\ job[t].pc = "wait"
    /\ SubTasksDone(t)
    /\ job' = [job EXCEPT ![t].missing = MissingIndices(job[t]),
                          ![t].pc = IF AddsUp(job[t]) THEN "release" ELSE "failed"]
    /\ UNCHANGED <<poolVars, serviceVars, sub>>

\* on_finished_reading_tx_pool: release_read, step by step.
Release(t) ==
    /\ job[t].pc = "release"
    /\ Pool!ReleaseRead(t) \/ Pool!ApplyAdd(t) \/ Pool!ApplyRemovals(t)
    /\ job' = [job EXCEPT ![t].pc = IF reader'[t] = "idle" THEN "done" ELSE @]
    /\ UNCHANGED <<serviceVars, sub>>

-----------------------------------------------------------------------------
(* The sub task of a bucket.                                               *)

Goto(t, i, pc) == sub' = [sub EXCEPT ![t][i].pc = pc]

\* The loop takes the next hash, finds it in the map of hashes and its compact id
\* in the map of the block, and claims the position with compare_and_swap.
SubNext(t, i) ==
    /\ sub[t][i].pc = "next"
    /\ \E h \in sub[t][i].todo :
          LET c == job[t].block.compactOf[h]
              wanted == c \in CompactIdsIn(job[t].block)
              rest == [sub[t][i] EXCEPT !.todo = @ \ {h}]
          IN  \/ /\ h \notin known
                 /\ sub' = [sub EXCEPT ![t][i] = rest]
                 /\ UNCHANGED job
              \/ /\ h \in known /\ ~wanted
                 /\ sub' = [sub EXCEPT ![t][i] = [rest EXCEPT !.pc = "check"]]
                 /\ UNCHANGED job
              \/ /\ h \in known /\ wanted
                 /\ sub' = [sub EXCEPT ![t][i] =
                       [rest EXCEPT !.pc = "look", !.hash = h,
                                    !.pos = PosOf(job[t].block, c),
                                    !.dup = c \in job[t].claimed]]
                 /\ job' = [job EXCEPT ![t].claimed = @ \cup {c}]
    /\ UNCHANGED <<poolVars, serviceVars>>

\* The contents are looked up; push_back first reads the end of the vector.
SubLook(t, i) ==
    /\ sub[t][i].pc = "look"
    /\ sub' = [sub EXCEPT ![t][i].pc =
                              IF sub[t][i].dup \/ sub[t][i].hash \notin withContents
                              THEN "push" ELSE "fill",
                          ![t][i].end = Len(job[t].missing)]
    /\ UNCHANGED <<poolVars, serviceVars, job>>

\* push_back stores the position in the cell at the end that was read, and then the
\* new end: a push in between is lost.  A vector that is cut short by this and grows
\* again shows what its cells held before.
Stored(cells, end, pos) ==
    [n \in 1 .. (IF end < Len(cells) THEN Len(cells) ELSE end + 1) |->
        IF n = end + 1 THEN pos ELSE cells[n]]

SubPush(t, i) ==
    /\ sub[t][i].pc = "push"
    /\ LET cells == Stored(job[t].cells, sub[t][i].end, sub[t][i].pos)
       IN  job' = [job EXCEPT ![t].cells = cells,
                              ![t].missing = SubSeq(cells, 1, sub[t][i].end + 1)]
    /\ Goto(t, i, "empty")
    /\ UNCHANGED <<poolVars, serviceVars>>

\* The type and the short id of the placeholder are two assignments.
SubSetType(t, i) ==
    /\ sub[t][i].pc \in {"empty", "fill"}
    /\ job' = [job EXCEPT ![t].types[sub[t][i].pos] =
                              IF sub[t][i].pc = "fill" THEN "short_id" ELSE "missing"]
    /\ Goto(t, i, IF sub[t][i].pc = "fill" THEN "fillSid" ELSE "emptySid")
    /\ UNCHANGED <<poolVars, serviceVars>>

SubSetSid(t, i) ==
    /\ sub[t][i].pc \in {"emptySid", "fillSid"}
    /\ job' = [job EXCEPT ![t].sids[sub[t][i].pos] =
                              IF sub[t][i].pc = "fillSid" THEN sub[t][i].hash ELSE NoHash]
    /\ Goto(t, i, IF sub[t][i].pc = "fillSid" THEN "found"
                  ELSE IF sub[t][i].dup THEN "retract" ELSE "check")
    /\ UNCHANGED <<poolVars, serviceVars>>

\* fetch_add(1) for a transaction found, fetch_add(-1) for a duplicate.
SubCount(t, i) ==
    /\ sub[t][i].pc \in {"found", "retract"}
    /\ job' = [job EXCEPT ![t].counter =
                   (@ + (IF sub[t][i].pc = "found" THEN 1 ELSE CounterSize - 1)) % CounterSize]
    /\ Goto(t, i, "check")
    /\ UNCHANGED <<poolVars, serviceVars>>

\* The loop ends early once the counter has reached the size of the map.
SubCheck(t, i) ==
    /\ sub[t][i].pc = "check"
    /\ Goto(t, i, IF job[t].counter >= Cardinality(CompactIdsIn(job[t].block))
                  THEN "end" ELSE "next")
    /\ UNCHANGED <<poolVars, serviceVars, job>>

SubEnd(t, i) ==
    /\ sub[t][i].pc = "end" \/ (sub[t][i].pc = "next" /\ sub[t][i].todo = {})
    /\ sub' = [sub EXCEPT ![t][i] = IdleSub]
    /\ UNCHANGED <<poolVars, serviceVars, job>>

-----------------------------------------------------------------------------
(* The main thread: the calls of the service that matter to the tasks.     *)

\* Sha256ToShortIdsMap::operator[] on a new hash.
AddTransaction(h) ==
    /\ h \notin known
    /\ Pool!Insert(h)
    /\ known' = known \cup {h}
    /\ UNCHANGED <<withContents, job, sub>>

SetContents(h) ==
    /\ withContents' = withContents \cup {h}
    /\ UNCHANGED <<poolVars, known, job, sub>>

EraseFromPool(h) ==
    \/ Pool!Erase(h)
    \/ Pool!MutexFree /\ Pool!Holding(h) = {} /\ UNCHANGED poolVars

\* remove_transaction_by_hash: the map erases the hash from the pool as well; the
\* contents go whether the hash has short ids or not.
RemoveTransaction(h) ==
    /\ \/ h \in known /\ EraseFromPool(h)
       \/ h \in withContents \ known /\ UNCHANGED poolVars
    /\ known' = known \ {h}
    /\ withContents' = withContents \ {h}
    /\ UNCHANGED <<job, sub>>

\* track_seen_transaction
TrackSeen(h) ==
    /\ EraseFromPool(h)
    /\ UNCHANGED <<serviceVars, job, sub>>

-----------------------------------------------------------------------------
SubStep(t, i) ==
    \/ SubNext(t, i) \/ SubLook(t, i) \/ SubPush(t, i) \/ SubSetType(t, i)
    \/ SubSetSid(t, i) \/ SubCount(t, i) \/ SubCheck(t, i) \/ SubEnd(t, i)

TaskStep(t) ==
    \/ Acquire(t) \/ Dispatch(t) \/ Count(t) \/ Release(t)
    \/ \E i \in Pool!BucketIdx : SubStep(t, i)

ServiceStep(h) ==
    AddTransaction(h) \/ SetContents(h) \/ RemoveTransaction(h) \/ TrackSeen(h)

Next ==
    \/ \E t \in Tasks : TaskStep(t) \/ \E b \in CompactBlocks : Start(t, b)
    \/ \E h \in Hashes : ServiceStep(h)

Spec == Init /\ [][Next]_vars

-----------------------------------------------------------------------------
(* Properties.                                                             *)

Mapped(t) == job[t].pc \in {"release", "done"}

\* The values of the data the sub tasks share and of the sub tasks themselves.
TypeOK ==
    /\ known \subseteq Hashes /\ withContents \subseteq Hashes
    /\ \A t \in Tasks :
          /\ job[t].pc \in {"idle", "acquire", "dispatch", "wait", "release", "done", "failed"}
          /\ job[t].types \in [Positions(job[t].block) -> {"missing", "short_id"}]
          /\ job[t].sids \in [Positions(job[t].block) -> Hashes \cup {NoHash}]
          /\ job[t].missing \in Seq(Positions(job[t].block))
          /\ job[t].counter \in 0 .. CounterSize - 1

\* The bucket a sub task iterates without a lock is, until it ends, the bucket it
\* was given, whatever the main thread adds, removes or tracks and whichever other
\* task takes or releases the pool.
BucketsFrozen ==
    \A t \in Tasks : \A i \in Pool!BucketIdx :
        sub[t][i].pc # "idle" => buckets[i] = sub[t][i].given

\* No compact id is in the block twice.  (Of one that is, the compact map keeps the
\* first position only.  When its transaction is known without contents, that
\* position is pushed and scanned, the totals add up, and the second is forgotten.)
IdsDistinct(b) == \A i, k \in Positions(b) : b.ids[i] = b.ids[k] => i = k

\* A mapping that succeeds forgets no transaction of a block whose compact ids
\* differ: every position is filled or among the missing indices, also when hashes
\* collide, contents are missing, pushes are lost or the counter wraps around.
NoneForgotten ==
    \A t \in Tasks : Mapped(t) /\ IdsDistinct(job[t].block) =>
        \A i \in Positions(job[t].block) :
            \/ job[t].types[i] = "short_id"
            \/ \E n \in DOMAIN job[t].missing : job[t].missing[n] = i

\* No two transactions have the same compact id, by the keys of the block, and
\* none is in two buckets, as one may be that left the pool and came back.
WithoutCollision(b) ==
    /\ IdsDistinct(b)
    /\ \A g, h \in Hashes : b.compactOf[g] = b.compactOf[h] => g = h
    /\ \A i, k \in Pool!BucketIdx : i # k => buckets[i] \cap buckets[k] = {}

\* Without collisions, a mapping that succeeds is exact: the missing indices are
\* the positions that are not filled, in ascending order, each once (the recovered
\* transactions are filled in by that order), and a filled position has a
\* transaction with its compact id.
MappingExact ==
    \A t \in Tasks : Mapped(t) /\ reader[t] = "reading" /\ WithoutCollision(job[t].block) =>
        LET j == job[t] IN
        /\ \A m, n \in DOMAIN j.missing : m < n => j.missing[m] < j.missing[n]
        /\ {j.missing[n] : n \in DOMAIN j.missing}
              = {i \in Positions(j.block) : j.types[i] = "missing"}
        /\ \A i \in Positions(j.block) :
              j.types[i] = "short_id" =>
                  j.sids[i] # NoHash /\ j.block.compactOf[j.sids[i]] = j.block.ids[i]

\* The totals that _execute compares add up ("invalid compact short id
\* processing", btc_compact_block_mapping_task.cpp:112, is never thrown).
CountsAddUp == \A t \in Tasks : job[t].pc # "failed"
=============================================================================
