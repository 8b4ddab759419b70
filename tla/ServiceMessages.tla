-------------------------- MODULE ServiceMessages --------------------------
(***************************************************************************)
(* The messages by which transaction services exchange their contents, as  *)
(* TransactionService writes and reads them: get_tx_sync_buffer and        *)
(* process_tx_sync_message, get_transactions_by_short_ids and              *)
(* process_txs_msg, and internal/block_confirmation_message.cpp.           *)
(*                                                                         *)
(* What a service knows is a record: contents, a function from hashes to   *)
(* bytes, and sidHash, a function from short ids to hashes.  A hash is     *)
(* SHA256_LEN bytes.                                                       *)
(***************************************************************************)
EXTENDS Buffers, Functions

HEADER_LENGTH == 20
NETWORK_NUM_LEN == 4
SHA256_LEN == 32
EXPIRATION_DATE_LEN == 4
TRANSACTION_FLAG_LEN == 2
NODE_ID_LENGTH == 16

Zeros(n) == [i \in 1..n |-> 0]
Uint32(n) == set_little_endian_value(n, 4)
Uint16(n) == set_little_endian_value(n, 2)
Uint32At(view, offset) == get_little_endian_value(view, offset, 4)
HashAt(view, offset) == BytesAt(view, offset, SHA256_LEN)

Service(contents, sidHash) == [contents |-> contents, sidHash |-> sidHash]
SidsOfHash(service, hash) == {s \in DOMAIN service.sidHash : service.sidHash[s] = hash}

(* set_transaction_contents keeps the contents a hash has, and             *)
(* assign_short_id the hash a short id is bound to.                        *)
(* Fault variant: the contents are replaced. *)
WithContentsReplaced(service, hash, bytes) ==
    [service EXCEPT !.contents = [h \in DOMAIN @ \cup {hash} |-> IF h = hash THEN bytes ELSE @[h]]]

WithContents(service, hash, bytes) ==
    IF hash \in DOMAIN service.contents THEN service
    ELSE [service EXCEPT !.contents = [h \in DOMAIN @ \cup {hash} |-> IF h = hash THEN bytes ELSE @[h]]]
WithSid(service, hash, sid) ==
    IF sid \in DOMAIN service.sidHash THEN service
    ELSE [service EXCEPT !.sidHash = [s \in DOMAIN @ \cup {sid} |-> IF s = sid THEN hash ELSE @[s]]]

(***************************************************************************)
(* Synchronisation of two services.                                        *)
(***************************************************************************)
(* The hashes in the order of the map, their short ids in that of the set. *)
get_tx_sync_buffer(service, order, sync_tx_content) ==
    LET entry(h) ==
          LET content == IF sync_tx_content THEN service.contents[h] ELSE << >>
              sids == SetToSortSeq(SidsOfHash(service, h), <)
          IN  h \o Uint32(Len(content)) \o content \o Zeros(EXPIRATION_DATE_LEN)
                \o Uint16(Len(sids)) \o FlattenSeq([i \in DOMAIN sids |-> Uint32(sids[i])])
                \o Zeros(TRANSACTION_FLAG_LEN * Len(sids))
    IN  Uint32(Len(order)) \o FlattenSeq([i \in DOMAIN order |-> entry(order[i])])

(* The message, from the header on.  Each entry is applied before the      *)
(* flags are copied, and copy_from_buffer throws when there is no byte     *)
(* left at the offset, flags to copy or not.                               *)
RECURSIVE SyncEntries(_, _, _, _)
SyncEntries(view, offset, count, acc) ==
    IF count = 0 \/ acc.throws THEN acc
    ELSE LET hash == HashAt(view, offset)
             content_length == Uint32At(view, offset + SHA256_LEN)
             content_offset == offset + SHA256_LEN + 4
             sids_offset == content_offset + content_length + EXPIRATION_DATE_LEN
             short_ids_count == get_little_endian_value(view, sids_offset, 2)
             sids == [i \in 1..short_ids_count |-> Uint32At(view, sids_offset + 2 + 4 * (i - 1))]
             flags_offset == sids_offset + 2 + 4 * short_ids_count
             flags_length == TRANSACTION_FLAG_LEN * short_ids_count
             stored == IF content_length > 0
                       THEN WithContents(acc.service, hash, BytesAt(view, content_offset, content_length))
                       ELSE acc.service
         IN  SyncEntries(view, flags_offset + flags_length, count - 1,
               [service |-> FoldLeft(LAMBDA s, sid : WithSid(s, hash, sid), stored, sids),
                throws |-> flags_offset >= view.size,
                answer |-> acc.answer \o hash \o Uint32(content_length) \o Uint32(short_ids_count)
                             \o FlattenSeq([i \in DOMAIN sids |-> Uint32(sids[i])])
                             \o BytesAt(view, flags_offset, flags_length)])

process_tx_sync_message(service, view) ==
    LET offset == HEADER_LENGTH + NETWORK_NUM_LEN
        tx_count == Uint32At(view, offset)
    IN  SyncEntries(view, offset + 4, tx_count,
                    [service |-> service, throws |-> FALSE, answer |-> Uint32(tx_count)])

(***************************************************************************)
(* Transactions asked for by their short ids.                              *)
(***************************************************************************)
\* The length and the number of the found ones, the found ones, the missing ones.
get_transactions_by_short_ids(service, view) ==
    LET count == Uint32At(view, 0)
        asked == [i \in 1..count |-> Uint32At(view, 4 * i)]
        bound(s) == s \in DOMAIN service.sidHash
        has(s) == IF bound(s) THEN service.sidHash[s] \in DOMAIN service.contents ELSE FALSE
        found == SelectSeq(asked, has)
        missing == SelectSeq(asked, LAMBDA s : ~has(s))
        foundBytes == FlattenSeq([i \in DOMAIN found |->
                          LET s == found[i]
                              hash == service.sidHash[s]
                              content == service.contents[hash]
                          IN  Uint32(s) \o hash \o Uint32(Len(content)) \o content])
        missingBytes == FlattenSeq([i \in DOMAIN missing |->
                            LET s == missing[i]
                            IN  Uint32(s) \o (IF bound(s) THEN <<1>> \o service.sidHash[s] ELSE <<0>>)])
    IN  Uint32(4 + Len(foundBytes)) \o Uint32(Len(found)) \o foundBytes
          \o Uint32(Len(missing)) \o missingBytes

StoresContents(service, hash, content_length) ==
    hash \notin DOMAIN service.contents /\ content_length > 0

RECURSIVE TxsEntries(_, _, _, _)
TxsEntries(view, offset, count, acc) ==
    IF count = 0 THEN acc
    ELSE LET short_id == Uint32At(view, offset)
             hash == HashAt(view, offset + 4)
             content_length == Uint32At(view, offset + 4 + SHA256_LEN)
             content_offset == offset + 8 + SHA256_LEN
             newSid == short_id \notin DOMAIN acc.service.sidHash
             newContent == StoresContents(acc.service, hash, content_length)
             assigned == WithSid(acc.service, hash, short_id)
         IN  TxsEntries(view, content_offset + content_length, count - 1,
               [service |-> IF newContent
                            THEN WithContents(assigned, hash, BytesAt(view, content_offset, content_length))
                            ELSE assigned,
                missing |-> acc.missing \o
                    (IF newSid \/ newContent
                     THEN <<[sid |-> short_id, hash |-> hash,
                             length |-> IF newContent THEN content_length ELSE 0]>>
                     ELSE << >>)])

process_txs_msg(service, view) ==
    LET txn_count == Uint32At(view, HEADER_LENGTH)
        result == TxsEntries(view, HEADER_LENGTH + 4, txn_count, [service |-> service, missing |-> << >>])
    IN  [service |-> result.service,
         answer |-> Uint16(Len(result.missing))
                      \o FlattenSeq([i \in DOMAIN result.missing |->
                             LET m == result.missing[i] IN Uint32(m.sid) \o m.hash \o Uint32(m.length)])]

(* BlockConfirmationMessage, as BlockConfirmationCleanupTask walks it. *)
ParseBlockConfirmation(view) ==
    LET sids == HEADER_LENGTH + NETWORK_NUM_LEN + SHA256_LEN + NODE_ID_LENGTH
        sid_count == Uint32At(view, sids)
        hashes == sids + 4 + 4 * sid_count
        hash_count == Uint32At(view, hashes)
    IN  [block_hash |-> HashAt(view, HEADER_LENGTH),
         short_ids |-> [i \in 1..sid_count |-> Uint32At(view, sids + 4 * i)],
         tx_hashes |-> [i \in 1..hash_count |-> HashAt(view, hashes + 4 + SHA256_LEN * (i - 1))]]
============================================================================
