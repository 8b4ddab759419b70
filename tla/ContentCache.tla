---------------------------- MODULE ContentCache ----------------------------
(***************************************************************************)
(* tx_hash_to_contents with the tracker of its bytes (MapWrapper and       *)
(* PTxContentsTracker), and the history of removed hashes with what the    *)
(* bindings do to it (Sha256ToTime; ShortIdToTime, for the removed short   *)
(* ids, is the same code).  A call is an action; the clock is in seconds   *)
(* and does not go back.                                                   *)
(***************************************************************************)
EXTENDS Integers, Sequences, FiniteSets, OrderedMaps

CONSTANTS
    TxHashes,     \* transaction hashes
    Sizes,        \* sizes of contents
    Expiration,   \* removed_hashes_expiration_time_s of the clean-up
    MaxItems,     \* max_items_count of the clean-up
    SizeMod,      \* 2^w of size_t
    MaxClock      \* bound on the clock and on the times that are written

ASSUME ContentsAssumption ==
    /\ Sizes \subseteq Nat
    /\ Expiration \in Nat
    /\ MaxItems \in Nat
    /\ SizeMod \in Nat \ {0}
    /\ MaxClock \in Nat

VARIABLES
    clock,      \* the clock: time_removed of the removals, now of the clean-up
    txContents, \* tx_hash_to_contents: size of the contents by hash
    bytes,      \* the tracker's _total_bytes_allocated
    removed,    \* tx_hash_to_time_removed
    replaced,   \* history: __setitem__ replaced contents since the last clear
    rewritten   \* history: the hashes in removed whose time __setitem__ wrote

contentsVars == <<clock, txContents, bytes, removed, replaced, rewritten>>

ContentsInit ==
    /\ clock = 0
    /\ txContents = [h \in {} |-> 0]
    /\ bytes = 0
    /\ removed = <<>>
    /\ replaced = FALSE
    /\ rewritten = {}

Stored == DOMAIN txContents

\* MapWrapper::emplace counts the value it is given, even one it does not keep.
EmplaceContents(h, size) ==
    /\ txContents' = [k \in Stored \cup {h} |-> IF k \in Stored THEN txContents[k] ELSE size]
    /\ bytes' = (bytes + size) % SizeMod
    /\ UNCHANGED <<clock, removed, replaced, rewritten>>

\* Fault variant: emplaced without asking.
SetTransactionContentsUnasked(h, size) == EmplaceContents(h, size)

\* set_transaction_contents asks before it emplaces.
SetTransactionContents(h, size) ==
    /\ h \notin Stored
    /\ EmplaceContents(h, size)

\* The binding's __setitem__: over contents that are there it writes past the
\* tracker.
ReplaceContents(h, size) ==
    /\ h \in Stored
    /\ txContents' = [txContents EXCEPT ![h] = size]
    /\ replaced' = TRUE
    /\ UNCHANGED <<clock, bytes, removed, rewritten>>

\* MapWrapper::erase and on_value_removed, in size_t.
RemovedBytes(h) == IF h \in Stored THEN (bytes - txContents[h]) % SizeMod ELSE bytes

EraseContents(h) ==
    /\ txContents' = [k \in Stored \ {h} |-> txContents[k]]
    /\ bytes' = RemovedBytes(h)

\* remove_transaction_by_hash, and by a short id of the hash: emplace keeps the
\* time of an earlier removal.
RemoveTransactionByHash(h) ==
    /\ EraseContents(h)
    /\ removed' = Emplaced(removed, h, clock)
    /\ UNCHANGED <<clock, replaced, rewritten>>

\* __delitem__ of the contents leaves the history alone.
DeleteContents(h) ==
    /\ EraseContents(h)
    /\ UNCHANGED <<clock, removed, replaced, rewritten>>

\* clear(), of the service and of the contents; the history stays.
Clear ==
    /\ txContents' = [h \in {} |-> 0]
    /\ bytes' = 0
    /\ replaced' = FALSE
    /\ UNCHANGED <<clock, removed, rewritten>>

Expired(i) == clock - removed[i].val > Expiration
TooMany(i) == Len(removed) - i + 1 > MaxItems

\* Fault variant: both conditions are needed.
ForgottenIfBoth(i) == Expired(i) /\ TooMany(i)

Forgotten(i) == Expired(i) \/ TooMany(i)

CleanupRemovedHashesHistory ==
    /\ removed' = FrontErased(removed, {i \in DOMAIN removed : Forgotten(i)})
    /\ rewritten' = rewritten \cap Keys(removed')
    /\ UNCHANGED <<clock, txContents, bytes, replaced>>

\* __setitem__ of the history, with any time.
SetTimeRemoved(h, time) ==
    /\ removed' = Assigned(removed, h, time)
    /\ rewritten' = rewritten \cup {h}
    /\ UNCHANGED <<clock, txContents, bytes, replaced>>

\* __delitem__ of the history, and pop of a hash that it has.
DeleteTimeRemoved(h) ==
    /\ removed' = Erased(removed, h)
    /\ rewritten' = rewritten \ {h}
    /\ UNCHANGED <<clock, txContents, bytes, replaced>>

ClearTimesRemoved ==
    /\ removed' = <<>>
    /\ rewritten' = {}
    /\ UNCHANGED <<clock, txContents, bytes, replaced>>

Advance ==
    /\ clock < MaxClock
    /\ clock' = clock + 1
    /\ UNCHANGED <<txContents, bytes, removed, replaced, rewritten>>

ContentsNext ==
    \/ \E h \in TxHashes, size \in Sizes :
          \/ SetTransactionContents(h, size)
          \/ ReplaceContents(h, size)
    \/ \E h \in TxHashes : RemoveTransactionByHash(h) \/ DeleteContents(h) \/ DeleteTimeRemoved(h)
    \/ \E h \in TxHashes, time \in 0..MaxClock : SetTimeRemoved(h, time)
    \/ Clear
    \/ ClearTimesRemoved
    \/ CleanupRemovedHashesHistory
    \/ Advance

ContentsSpec == ContentsInit /\ [][ContentsNext]_contentsVars

-----------------------------------------------------------------------------
\* The sum of the sizes, with the bytes counted one by one.
TotalSize(sizes) == Cardinality(UNION {{h} \X (1 .. sizes[h]) : h \in DOMAIN sizes})

\* The tracker's total, which the node reports as the memory of the contents, is
\* the size of the contents the map holds, through every order of stores,
\* removals and clears, unless __setitem__ replaced contents.
BytesExact == ~replaced => bytes = TotalSize(txContents) % SizeMod

\* An expired item that is left was overtaken by a rewritten time: its own or the
\* one in front, at which the clean-up stopped.
ExpiredForgotten ==
    \A i \in DOMAIN removed' :
        clock - removed'[i].val > Expiration =>
            \E j \in {1, i} : removed'[j].key \in rewritten

ForgetsOnlyWhatItMust ==
    \A i \in DOMAIN removed :
        \/ removed[i].key \in Keys(removed')
        \/ clock - removed[i].val > Expiration
        \/ Len(removed') = MaxItems
        \/ \E j \in DOMAIN removed : removed[j].key \in rewritten \ Keys(removed')

\* The clean-up of the history stops at the first item that has not expired.  It
\* leaves no expired hash all the same, and forgets a hash only if it has expired
\* or the history is still as long as it may be: one forgotten too early is taken
\* in again.  This rests on times that come in order.  The bindings write a time in
\* place, whatever was removed before and after, and only where they did can an
\* expired hash stay behind (its own time or the front one's was written), or a
\* hash go too early (together with one whose time was written).
HistoryCleaned ==
    [][CleanupRemovedHashesHistory => ExpiredForgotten /\ ForgetsOnlyWhatItMust]_contentsVars

=============================================================================
