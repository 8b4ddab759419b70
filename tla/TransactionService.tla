------------------------- MODULE TransactionService -------------------------
(***************************************************************************)
(* service::TransactionService: the maps between transaction hashes, short *)
(* ids and contents, the window of blocks whose short ids wait for their   *)
(* final confirmation, the history of what was removed, and the pool of    *)
(* transactions not seen in blocks, which Sha256ToShortIdsMap keeps next   *)
(* to the hash map.                                                        *)
(*                                                                         *)
(* The main thread makes all the changes, one call at a time, so a call is *)
(* an action (of a message with several transactions, one transaction is   *)
(* one action).  The tasks that map compact blocks hold the pool between   *)
(* acquire_tx_pool and on_finished_reading_tx_pool, and a call that comes  *)
(* in between finds the pool frozen.  A call that returns early without    *)
(* changing anything is no action.  A reader that comes or goes while a    *)
(* call is under way is ordered before or after the call.                  *)
(***************************************************************************)
EXTENDS Integers, Sequences, FiniteSets

CONSTANTS
    Hashes,        \* transaction hashes
    ShortIds,      \* short ids, without NULL_TX_SID
    NullSid,       \* NULL_TX_SID
    Blocks,        \* block hashes
    FinalCounts,   \* values given to set_final_tx_confirmations_count
    MaxReaders     \* bound on the mapping tasks that read the pool at once

ASSUME ServiceAssumption ==
    /\ NullSid \notin ShortIds
    /\ FinalCounts \subseteq Nat
    /\ FinalCounts # {}
    /\ MaxReaders \in Nat

VARIABLES
    hashToSids,     \* tx_hash_to_short_ids
    sidToHash,      \* short_id_to_tx_hash
    contents,       \* the keys of tx_hash_to_contents
    assignTime,     \* the keys of short_id_to_assign_time
    seenInBlock,    \* short_ids_seen_in_block, in insertion order
    finalCount,     \* _final_tx_confirmations_count
    removedHashes,  \* the keys of tx_hash_to_time_removed
    removedSids,    \* the keys of short_id_to_time_removed
    pool,           \* tx_not_seen_in_blocks, below the capacity of a bucket
    poolAdds,       \* its _items_to_add
    poolRemoves,    \* its _items_to_remove
    poolReaders     \* its _reader_count

mapVars == <<hashToSids, sidToHash, assignTime>>
removedVars == <<removedHashes, removedSids>>
windowVars == <<seenInBlock, finalCount>>
poolVars == <<pool, poolAdds, poolRemoves, poolReaders>>
vars == <<mapVars, contents, windowVars, removedVars, poolVars>>

Init ==
    /\ hashToSids = [h \in {} |-> {}]
    /\ sidToHash = [s \in {} |-> {}]
    /\ contents = {}
    /\ assignTime = {}
    /\ seenInBlock = <<>>
    /\ finalCount \in FinalCounts
    /\ removedHashes = {}
    /\ removedSids = {}
    /\ pool = {}
    /\ poolAdds = {}
    /\ poolRemoves = {}
    /\ poolReaders = 0

\* has_short_id(tx_hash), has_short_id(short_id) and the short ids of a hash.
KnownHashes == DOMAIN hashToSids
KnownSids == DOMAIN sidToHash
SidsOf(h) == IF h \in KnownHashes THEN hashToSids[h] ELSE {}

-----------------------------------------------------------------------------
(* The pool of transactions not seen in blocks.  The whole pool fits into  *)
(* one bucket, so the order of the queued writes does not matter.          *)

PoolReading == poolReaders > 0

PoolInsert(hs) ==
    /\ pool' = IF PoolReading THEN pool ELSE pool \cup hs
    /\ poolAdds' = IF PoolReading THEN poolAdds \cup hs ELSE poolAdds
    /\ UNCHANGED <<poolRemoves, poolReaders>>

\* An erase of a hash that is not in the bucket, queued for addition or not,
\* does nothing.
PoolErase(hs) ==
    /\ pool' = IF PoolReading THEN pool ELSE pool \ hs
    /\ poolRemoves' = IF PoolReading THEN poolRemoves \cup (pool \cap hs) ELSE poolRemoves
    /\ UNCHANGED <<poolAdds, poolReaders>>

AcquireTxPool ==
    /\ poolReaders < MaxReaders
    /\ poolAdds = {} /\ poolRemoves = {}
    /\ poolReaders' = poolReaders + 1
    /\ UNCHANGED <<pool, poolAdds, poolRemoves, mapVars, contents, windowVars, removedVars>>

\* The last reader applies the additions, then the removals.
OnFinishedReadingTxPool ==
    /\ PoolReading
    /\ poolReaders' = poolReaders - 1
    /\ IF poolReaders' > 0
       THEN UNCHANGED <<pool, poolAdds, poolRemoves>>
       ELSE /\ pool' = (pool \cup poolAdds) \ poolRemoves
            /\ poolAdds' = {}
            /\ poolRemoves' = {}
    /\ UNCHANGED <<mapVars, contents, windowVars, removedVars>>

-----------------------------------------------------------------------------
\* Fault variant: a short id that is bound already is bound again.
BindRebinding(h, sids, touched) ==
    /\ hashToSids' = IF touched \/ sids # {}
                     THEN [k \in KnownHashes \cup {h} |->
                              IF k = h THEN SidsOf(h) \cup sids ELSE hashToSids[k]]
                     ELSE hashToSids
    /\ sidToHash' = [s \in KnownSids \cup sids |-> IF s \in sids THEN h ELSE sidToHash[s]]
    /\ PoolInsert({k \in {h} : k \notin KnownHashes /\ (touched \/ sids # {})})

-----------------------------------------------------------------------------
(* Short ids and contents.                                                 *)

\* tx_hash_to_short_ids[h] (which creates the entry, and then adds the hash to
\* the pool) followed by the assignment of those sids that are not bound yet.
\* touched: operator[] is evaluated even when no sid is left to assign.
Bind(h, sids, touched) ==
    LET fresh == sids \ KnownSids
        entered == touched \/ fresh # {}
    IN  /\ hashToSids' = IF entered
                         THEN [k \in KnownHashes \cup {h} |->
                                  IF k = h THEN SidsOf(h) \cup fresh ELSE hashToSids[k]]
                         ELSE hashToSids
        /\ sidToHash' = [s \in KnownSids \cup fresh |->
                            IF s \in fresh THEN h ELSE sidToHash[s]]
        /\ PoolInsert({k \in {h} : entered /\ k \notin KnownHashes})

\* assign_short_id for each of the sids: the assign time is stored even when
\* the short id was bound before, but never overwritten.
Assign(h, sids, touched) ==
    /\ Bind(h, sids, touched)
    /\ assignTime' = assignTime \cup sids

\* Fault variant: NULL_TX_SID is taken for a short id.
GivenNullToo(s) == {s}

\* What assign_short_id makes of the short id it is given: NULL_TX_SID is none.
Given(s) == {s} \ {NullSid}

AssignShortId(h, s) ==
    /\ Assign(h, Given(s), FALSE)
    /\ UNCHANGED <<contents, windowVars, removedVars>>

SetTransactionContents(h) ==
    /\ contents' = contents \cup {h}
    /\ UNCHANGED <<mapVars, windowVars, removedVars, poolVars>>

-----------------------------------------------------------------------------
(* Messages.                                                               *)

\* The answers of _tx_validation.transaction_validation.
ValidationStatuses ==
    {"valid_tx", "invalid_format", "invalid_signature", "invalid_low_fee", "reuse_sender_nonce"}

\* _msg_tx_build_tx_status looks for TX_STATUS_IGNORE_SEEN: the short id of the
\* message, if any, is bound and so is its content or, without content, its hash.
IgnoreSeen(h, s, hasContent) ==
    /\ s = NullSid \/ s \in KnownSids
    /\ h \in contents \/ (~hasContent /\ s \in KnownSids)

\* TX_STATUS_SEEN_HASH: a bound short id counts, whichever hash it is bound to.
SeenHash(h, s) ==
    \/ s \in KnownSids
    \/ h \in contents
    \/ s = NullSid /\ h \in KnownHashes

\* Only a message that brings new content and no short id is validated.
ValidationResults(h, s, hasContent) ==
    IF hasContent /\ h \notin contents /\ s = NullSid
    THEN ValidationStatuses
    ELSE {"valid_tx"}

\* process_transaction_msg past its early returns: not removed before, not timed
\* out, not ignored, and no status that rejects the transaction.  A transaction
\* whose fee is too low only keeps its contents.
ProcessTransactionMsg(h, s, hasContent) ==
    /\ h \notin removedHashes
    /\ ~IgnoreSeen(h, s, hasContent)
    /\ contents' = IF hasContent THEN contents \cup {h} ELSE contents
    /\ \E status \in ValidationResults(h, s, hasContent) :
          \/ /\ status = "invalid_low_fee"
             /\ UNCHANGED <<mapVars, poolVars>>
          \/ /\ status = "valid_tx"
             /\ Assign(h, Given(s), SeenHash(h, s))
    /\ UNCHANGED <<windowVars, removedVars>>

ProcessGatewayTransactionFromBdn(h, s, isCompact) ==
    /\ h \notin removedHashes
    /\ ~((s = NullSid \/ s \in KnownSids) /\ h \in contents)
    /\ ~((h \in contents \/ isCompact) /\ s \in KnownSids)
    /\ Assign(h, Given(s) \ KnownSids, FALSE)
    /\ contents' = IF isCompact THEN contents ELSE contents \cup {h}
    /\ UNCHANGED <<windowVars, removedVars>>

\* The contents are stored whatever the validation says: its status only goes
\* into the answer.
ProcessGatewayTransactionFromNode(h) ==
    /\ h \notin removedHashes
    /\ SetTransactionContents(h)

\* process_txs_msg (one short id per transaction) and process_tx_sync_message
\* (any number): neither asks whether the transaction was removed before.
ProcessTxs(h, sids, hasContent) ==
    /\ Assign(h, sids \ KnownSids, FALSE)
    /\ contents' = IF hasContent THEN contents \cup {h} ELSE contents
    /\ UNCHANGED <<windowVars, removedVars>>

-----------------------------------------------------------------------------
(* Removal.                                                                *)

\* Fault variant: the other short ids of the transaction stay bound.
ForgetOnlyTheSid(hs, sids) ==
    /\ sidToHash' = [s \in KnownSids \ sids |-> sidToHash[s]]
    /\ hashToSids' = [h \in KnownHashes \ hs |-> hashToSids[h]]
    /\ assignTime' = assignTime \ sids
    /\ contents' = contents \ hs
    /\ removedHashes' = removedHashes \cup hs
    /\ removedSids' = removedSids \cup sids

\* Fault variant: the contents stay.
ForgetKeepingContents(hs, sids) ==
    LET gone == sids \cup UNION {SidsOf(h) : h \in hs}
    IN  /\ sidToHash' = [s \in KnownSids \ gone |-> sidToHash[s]]
        /\ hashToSids' = [h \in KnownHashes \ hs |-> hashToSids[h]]
        /\ assignTime' = assignTime \ gone
        /\ contents' = contents
        /\ removedHashes' = removedHashes \cup hs
        /\ removedSids' = removedSids \cup gone

\* The transactions hs leave all the maps, with the short ids they were looked up
\* by and with their other short ids, and are entered into the history.
Forget(hs, sids) ==
    LET gone == sids \cup UNION {SidsOf(h) : h \in hs}
    IN  /\ sidToHash' = [s \in KnownSids \ gone |-> sidToHash[s]]
        /\ hashToSids' = [h \in KnownHashes \ hs |-> hashToSids[h]]
        /\ assignTime' = assignTime \ gone
        /\ contents' = contents \ hs
        /\ removedHashes' = removedHashes \cup hs
        /\ removedSids' = removedSids \cup gone

\* A hash the service does not know is entered into the history, too.
RemoveTransactionByHash(h) ==
    /\ Forget({h}, {})
    /\ PoolErase({h} \cap KnownHashes)
    /\ UNCHANGED windowVars

\* The hashes a call finds for the short ids it is given.
HashesOf(sids) == {sidToHash[s] : s \in sids \cap KnownSids}

RemoveTransactionByShortId(s) ==
    /\ Forget(HashesOf({s}), {s} \cap KnownSids)
    /\ PoolErase(HashesOf({s}) \cap KnownHashes)
    /\ UNCHANGED windowVars

-----------------------------------------------------------------------------
(* Blocks.                                                                 *)

TrackSeenTransaction(h) ==
    /\ PoolErase({h})
    /\ UNCHANGED <<mapVars, contents, windowVars, removedVars>>

TrackedBlocks == {seenInBlock[i].block : i \in DOMAIN seenInBlock}

\* emplace: a block that is tracked already keeps its place and its short ids.
Emplaced(b, sids) ==
    IF b \in TrackedBlocks
    THEN seenInBlock
    ELSE Append(seenInBlock, [block |-> b, sids |-> sids])

SidsSeenIn(window, b) ==
    UNION {window[i].sids : i \in {j \in DOMAIN window : window[j].block = b}}

\* Fault variant: no transaction ever becomes final.
TrackSeenShortIdsNoEviction(b, sids) ==
    /\ seenInBlock' = Emplaced(b, sids)
    /\ PoolErase(HashesOf(SidsSeenIn(seenInBlock', b)))
    /\ UNCHANGED <<mapVars, contents, finalCount, removedVars>>

\* The transactions of the block leave the pool.  Once the window holds as many
\* blocks as it takes to make a transaction final, the transactions of its oldest
\* block are removed and the block leaves the window.
TrackSeenShortIds(b, sids) ==
    LET window == Emplaced(b, sids)
        seen == HashesOf(SidsSeenIn(window, b))
        final == Head(window).sids
    IN  IF Len(window) >= finalCount
        THEN /\ Forget(HashesOf(final), final \cap KnownSids)
             /\ PoolErase(seen \cup (HashesOf(final) \cap KnownHashes))
             /\ seenInBlock' = Tail(window)
             /\ UNCHANGED finalCount
        ELSE /\ PoolErase(seen)
             /\ seenInBlock' = window
             /\ UNCHANGED <<mapVars, contents, finalCount, removedVars>>

OnBlockCleanedUp(b) ==
    /\ \E i \in DOMAIN seenInBlock :
          /\ seenInBlock[i].block = b
          /\ seenInBlock' = SubSeq(seenInBlock, 1, i - 1)
                                \o SubSeq(seenInBlock, i + 1, Len(seenInBlock))
    /\ UNCHANGED <<mapVars, contents, finalCount, removedVars, poolVars>>

SetFinalTxConfirmationsCount(n) ==
    /\ finalCount' = n
    /\ UNCHANGED <<mapVars, contents, seenInBlock, removedVars, poolVars>>

\* The history of removed transactions survives clear().
Clear ==
    /\ hashToSids' = [h \in {} |-> {}]
    /\ sidToHash' = [s \in {} |-> {}]
    /\ contents' = {}
    /\ assignTime' = {}
    /\ seenInBlock' = <<>>
    /\ PoolErase(Hashes)
    /\ UNCHANGED <<finalCount, removedVars>>

\* cleanup_removed_hashes_history and cleanup_removed_short_ids_history drop the
\* entries that are too old or too many; which ones, the clock decides.
CleanupRemovedHistory(hs, sids) ==
    /\ removedHashes' = removedHashes \ hs
    /\ removedSids' = removedSids \ sids
    /\ UNCHANGED <<mapVars, contents, windowVars, poolVars>>

-----------------------------------------------------------------------------
TransactionStep(h) ==
    \/ \E s \in ShortIds \cup {NullSid} : AssignShortId(h, s)
    \/ SetTransactionContents(h)
    \/ \E s \in ShortIds \cup {NullSid}, b \in BOOLEAN :
          \/ ProcessTransactionMsg(h, s, b)
          \/ ProcessGatewayTransactionFromBdn(h, s, b)
    \/ ProcessGatewayTransactionFromNode(h)
    \/ \E sids \in SUBSET ShortIds, b \in BOOLEAN : ProcessTxs(h, sids, b)
    \/ RemoveTransactionByHash(h)
    \/ TrackSeenTransaction(h)

BlockStep(b) ==
    \/ \E sids \in SUBSET ShortIds : TrackSeenShortIds(b, sids)
    \/ OnBlockCleanedUp(b)

Next ==
    \/ \E h \in Hashes : TransactionStep(h)
    \/ \E s \in ShortIds : RemoveTransactionByShortId(s)
    \/ \E b \in Blocks : BlockStep(b)
    \/ \E n \in FinalCounts : SetFinalTxConfirmationsCount(n)
    \/ Clear
    \/ \E hs \in SUBSET Hashes : CleanupRemovedHistory(hs, {})
    \/ \E sids \in SUBSET ShortIds : CleanupRemovedHistory({}, sids)
    \/ AcquireTxPool
    \/ OnFinishedReadingTxPool

Spec == Init /\ [][Next]_vars

-----------------------------------------------------------------------------
(* Properties.                                                             *)

\* The values of the containers of the service (struct Containers).
TypeOK ==
    /\ KnownHashes \subseteq Hashes
    /\ \A h \in KnownHashes : hashToSids[h] \subseteq ShortIds
    /\ KnownSids \subseteq ShortIds
    /\ \A s \in KnownSids : sidToHash[s] \in Hashes
    /\ contents \subseteq Hashes
    /\ assignTime \subseteq ShortIds
    /\ seenInBlock \in Seq([block : Blocks, sids : SUBSET ShortIds])
    /\ finalCount \in FinalCounts
    /\ removedHashes \subseteq Hashes
    /\ removedSids \subseteq ShortIds
    /\ pool \subseteq Hashes
    /\ poolAdds \subseteq Hashes
    /\ poolRemoves \subseteq Hashes
    /\ poolReaders \in 0 .. MaxReaders

\* tx_hash_to_short_ids and short_id_to_tx_hash are inverse to each other, across
\* duplicate short ids, removals by either key, evictions and resynchronisation:
\* compression (hash to short id) and decompression (short id to hash) agree.
MapsAgree ==
    /\ \A h \in KnownHashes : \A s \in hashToSids[h] : s \in KnownSids /\ sidToHash[s] = h
    /\ \A s \in KnownSids : sidToHash[s] \in KnownHashes /\ s \in hashToSids[sidToHash[s]]

\* Every bound short id has an assign time, and no assign time outlives its short
\* id, duplicates of a removed transaction included.
AssignTimesTracked == assignTime = KnownSids

\* No block is in the window twice, and its order is the one it was filled in.
WindowWithoutRepetition ==
    \A i, j \in DOMAIN seenInBlock : seenInBlock[i].block = seenInBlock[j].block => i = j

\* While a compact block is mapped every queued removal is of a transaction the
\* readers see, and nothing is queued once they are gone.
PoolQueuesSound ==
    /\ poolRemoves \subseteq pool
    /\ ~PoolReading => poolAdds = {} /\ poolRemoves = {}

\* What a step does to the short ids that stay bound, and to the transactions
\* that leave the map of hashes.
BoundSidsKept == \A s \in KnownSids \cap KnownSids' : sidToHash'[s] = sidToHash[s]

Cleared == KnownHashes' = {} /\ contents' = {} /\ seenInBlock' = <<>>

LeavesAsAWhole(h) ==
    /\ h \notin contents'
    /\ \A s \in hashToSids[h] : s \notin KnownSids'
    /\ Cleared \/ (h \in removedHashes' /\ hashToSids[h] \subseteq removedSids')

\* The hash a short id stands for never changes under it: to stand for another
\* transaction it must have been removed first.
ShortIdsStable == [][BoundSidsKept]_vars

\* A transaction leaves the service as a whole: with its entry go its contents and
\* all of its short ids, and unless the service is cleared the history remembers
\* the hash and every one of the short ids.
RemovedAsAWhole == [][\A h \in KnownHashes \ KnownHashes' : LeavesAsAWhole(h)]_vars

GrowsBelowCount == Len(seenInBlock') > Len(seenInBlock) => Len(seenInBlock') < finalCount'

\* The window of unconfirmed blocks only grows below the confirmation count, also
\* after the count was lowered or a block was tracked twice.
WindowBounded == [][GrowsBelowCount]_vars
=============================================================================
