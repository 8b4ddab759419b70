---------------------------- MODULE BtcMessages ----------------------------
(***************************************************************************)
(* Bitcoin messages at the byte level: utils/protocols/bitcoin/* and the   *)
(* bytes that the Bitcoin block tasks read and write.  How the tasks share *)
(* the work among threads is in BlockCompression, BlockDecompression and   *)
(* CompactBlockMapping.                                                    *)
(*                                                                         *)
(* A hash is the bytes that are hashed.                                    *)
(***************************************************************************)
EXTENDS ShortIds

BTC_SHORT_ID_INDICATOR == 255
BTC_BLOCK_LENGTH_OFFSET == 16
BTC_HDR_COMMON_OFFSET == 24
BTC_BLOCK_HDR_SIZE == 80
BTC_BLOCK_TX_COUNT_OFFSET == BTC_HDR_COMMON_OFFSET + BTC_BLOCK_HDR_SIZE
BTC_SHORT_NONCE_SIZE == 8
BTC_COMPACT_BLOCK_TX_COUNT_OFFSET == BTC_BLOCK_TX_COUNT_OFFSET + BTC_SHORT_NONCE_SIZE
BTC_TX_VERSION_SIZE == 4
BTC_PREV_BLOCK_OFFSET == BTC_HDR_COMMON_OFFSET + BTC_TX_VERSION_SIZE
BTC_TX_PREV_OUTPUT_SIZE == 36
BTC_TXIN_SEQUENCE_SIZE == 4
BTC_TXOUT_VALUE_SIZE == 8
BTC_TX_LOCK_TIME_SIZE == 4
BTC_COMPACT_SHORT_ID_SIZE == 6
btc_offset_diff == 8

(***************************************************************************)
(* Transactions.                                                           *)
(***************************************************************************)
get_segwit(view, offset) ==
    LET is_segwit == BytesAt(view, offset, 2) = <<0, 1>>
    IN  [is |-> is_segwit, offset |-> IF is_segwit THEN offset + 2 ELSE offset]

(* BtcTxInBlock::get_next_tx_offset: inputs, outputs and, with the marker, *)
(* a stack of witnesses for each input.                                    *)
SkipTxIn(view, offset) == SkipVarBytes(view, offset + BTC_TX_PREV_OUTPUT_SIZE) + BTC_TXIN_SEQUENCE_SIZE
SkipTxOut(view, offset) == SkipVarBytes(view, offset + BTC_TXOUT_VALUE_SIZE)
SkipStack(view, offset) == RepeatCounted(LAMBDA o : SkipVarBytes(view, o), get_varint(view, offset))
OutputsEnd(view, in_end) == RepeatCounted(LAMBDA o : SkipTxOut(view, o), get_varint(view, in_end))

TxEnds(view, is_segwit, in_count, witness_offset) ==
    [witness |-> witness_offset,
     next |-> BTC_TX_LOCK_TIME_SIZE + IF is_segwit
                                      THEN Repeat(LAMBDA o : SkipStack(view, o), in_count, witness_offset)
                                      ELSE witness_offset]
BtcTxFrom(view, is_segwit, tx_in) ==
    TxEnds(view, is_segwit, tx_in.value,
           OutputsEnd(view, RepeatCounted(LAMBDA o : SkipTxIn(view, o), tx_in)))
AfterMarker(view, segwit) == BtcTxFrom(view, segwit.is, get_varint(view, segwit.offset))
BtcNextTx(view, offset) == AfterMarker(view, get_segwit(view, offset + BTC_TX_VERSION_SIZE))

(* Fault variant: the hash covers the witnesses as well. *)
btc_get_tx_idWhole(view, offset, witness_offset, end) == BytesAt(view, offset, end - offset)

(* Version, inputs and outputs, lock time: not the marker and the witnesses. *)
btc_get_tx_id(view, offset, witness_offset, end) ==
    LET body == get_segwit(view, offset + BTC_TX_VERSION_SIZE).offset
    IN  BytesAt(view, offset, BTC_TX_VERSION_SIZE)
          \o BytesAt(view, body, witness_offset - body)
          \o BytesAt(view, end - BTC_TX_LOCK_TIME_SIZE, BTC_TX_LOCK_TIME_SIZE)

(***************************************************************************)
(* Blocks.                                                                 *)
(***************************************************************************)
btc_generate_block_hash(view) == BytesAt(view, BTC_HDR_COMMON_OFFSET, BTC_BLOCK_HDR_SIZE)

btc_get_prev_block_hash(view) == Reverse(BytesAt(view, BTC_PREV_BLOCK_OFFSET, 32))

(* count transactions from offset on. *)
BtcTxAt(view, offset, tx) ==
    [bytes |-> BytesAt(view, offset, tx.next - offset),
     hash |-> btc_get_tx_id(view, offset, tx.witness, tx.next)]

RECURSIVE BtcTxs(_, _, _)
BtcTxsFrom(view, offset, count, tx) ==
    <<BtcTxAt(view, offset, tx)>> \o BtcTxs(view, tx.next, count - 1)
BtcTxs(view, offset, count) ==
    IF count = 0 THEN << >> ELSE BtcTxsFrom(view, offset, count, BtcNextTx(view, offset))

\* BtcBlockCompressionTask::_execute
CompressedBtcBlock(header, txs, known) ==
    WithShortIds(header \o TxBytes(txs, known, BTC_SHORT_ID_INDICATOR), TxShortIds(txs, known))
CompressCounted(view, known, tx_count) ==
    CompressedBtcBlock(BytesAt(view, 0, tx_count.offset), BtcTxs(view, tx_count.offset, tx_count.value), known)
CompressBtcBlock(view, known) == CompressCounted(view, known, get_varint(view, BTC_BLOCK_TX_COUNT_OFFSET))

(* BxBtcBlockMessage::get_next_tx_offset, for count transactions: a short  *)
(* one is its indicator, and the first byte of a full one is one of its    *)
(* version.  _dispatch throws when the short ids have run out.             *)
BtcNextFull(view, offset) ==
    BtcNextTx(SubView(view, view.size - btc_offset_diff, btc_offset_diff), offset - btc_offset_diff).next
      + btc_offset_diff

RECURSIVE DecompressBtcTxs(_, _, _, _, _)
FullBtcTx(view, offset, next, count, short_ids, contents) ==
    <<BytesAt(view, offset, next - offset)>> \o DecompressBtcTxs(view, next, count - 1, short_ids, contents)
DecompressBtcTxs(view, offset, count, short_ids, contents) ==
    IF count = 0 THEN << >>
    ELSE IF ViewAt(view, offset) # BTC_SHORT_ID_INDICATOR
    THEN FullBtcTx(view, offset, BtcNextFull(view, offset), count, short_ids, contents)
    ELSE IF short_ids = << >> THEN <<Throw>>
    ELSE <<contents[Head(short_ids)]>> \o DecompressBtcTxs(view, offset + 1, count - 1, Tail(short_ids), contents)

\* BxBtcBlockMessage::deserialize_short_ids
BtcShortIds(view) == DeserializeShortIds(view, get_little_endian_value(view, 0, 8))

\* BtcBlockDecompressionTask: _parse_block_header and _execute
DecompressCounted(view, contents, short_ids, tx_count) ==
    IF short_ids = Throw THEN Throw
    ELSE WithTxs(BytesAt(view, btc_offset_diff, tx_count.offset),
                 DecompressBtcTxs(view, tx_count.offset + btc_offset_diff, tx_count.value, short_ids, contents),
                 << >>)
DecompressBtcBlock(view, contents) ==
    DecompressCounted(view, contents, BtcShortIds(view),
                      get_varint(SubView(view, view.size - btc_offset_diff, btc_offset_diff),
                                 BTC_BLOCK_TX_COUNT_OFFSET))

\* BxBtcBlockMessage::get_original_block_size
get_original_block_size(view) ==
    get_little_endian_value(view, btc_offset_diff + BTC_BLOCK_LENGTH_OFFSET, 4) + BTC_HDR_COMMON_OFFSET

(***************************************************************************)
(* Compact blocks.                                                         *)
(***************************************************************************)
Placeholder(type, contents, sid, cmpt) ==
    [type |-> type, contents |-> contents, sid |-> sid, cmpt |-> cmpt]

\* CompactBlockDataService::_fill_compact_ids: count compact ids from offset on
FillCompactIds(view, offset, count) ==
    [i \in 1..count |->
        Placeholder("missing_compact_id", << >>, 0,
                    BytesAt(view, offset + BTC_COMPACT_SHORT_ID_SIZE * (i - 1), BTC_COMPACT_SHORT_ID_SIZE))]

(* The loop of CompactBlockDataService::parse: count prefilled             *)
(* transactions from offset on, each behind as many compact ids as its     *)
(* difference holds sizes of one; then the compact ids that are left.      *)
PrefilledOf(tx, known) ==
    IF tx.hash \in DOMAIN known THEN Placeholder("short_id", tx.bytes, known[tx.hash], << >>)
    ELSE Placeholder("content", tx.bytes, 0, << >>)

RECURSIVE ParsePlaceholders(_, _, _, _, _, _)
ParsePrefilled(view, offset, tx, compact_diff, count, compact_offset, compact_left, known) ==
    FillCompactIds(view, compact_offset, compact_diff)
      \o <<PrefilledOf(BtcTxAt(view, offset, tx), known)>>
      \o ParsePlaceholders(view, tx.next, count - 1,
                           compact_offset + BTC_COMPACT_SHORT_ID_SIZE * compact_diff,
                           compact_left - compact_diff, known)
ParseDiff(view, diff, count, compact_offset, compact_left, known) ==
    ParsePrefilled(view, diff.offset, BtcNextTx(view, diff.offset), diff.value \div BTC_COMPACT_SHORT_ID_SIZE,
                   count, compact_offset, compact_left, known)
ParsePlaceholders(view, offset, count, compact_offset, compact_left, known) ==
    IF count = 0 THEN FillCompactIds(view, compact_offset, compact_left)
    ELSE ParseDiff(view, get_varint(view, offset), count, compact_offset, compact_left, known)

\* CompactBlockDataService::parse
ParseFrom(view, compact, pre_filled, known) ==
    ParsePlaceholders(view, pre_filled.offset, pre_filled.value, compact.offset, compact.value, known)
ParseCompactIds(view, compact, known) ==
    ParseFrom(view, compact, get_varint(view, compact.offset + BTC_COMPACT_SHORT_ID_SIZE * compact.value), known)
ParseCompactBlock(view, known) ==
    ParseCompactIds(view, get_varint(view, BTC_COMPACT_BLOCK_TX_COUNT_OFFSET), known)

(* The placeholders after the mapping: found maps a compact id to the      *)
(* short id and the contents the sub tasks found for it.                   *)
MapPlaceholders(placeholders, found) ==
    [i \in DOMAIN placeholders |->
        LET p == placeholders[i]
        IN  IF p.type = "missing_compact_id" /\ p.cmpt \in DOMAIN found
            THEN Placeholder("short_id", found[p.cmpt].contents, found[p.cmpt].sid, p.cmpt)
            ELSE p]

MissingIndices(placeholders) ==
    SelectSeq([i \in DOMAIN placeholders |-> i], LAMBDA i : placeholders[i].type = "missing_compact_id")

(* Both walks over the placeholders take the recovered transactions in     *)
(* order: _fill_block_transactions and the sub task's _execute.            *)
ContentOf(placeholders, recovered, i) ==
    IF placeholders[i].type = "missing_compact_id"
    THEN recovered[Len(SelectSeq(MissingIndices(placeholders), LAMBDA j : j <= i))]
    ELSE placeholders[i].contents

(* A stand-in for the first bytes of the double SHA-256 of a payload. *)
PayloadChecksum(payload) == set_little_endian_value(Len(payload) + payload[1], 4)

(* BtcCompactBlockCompressionTask::_set_header, _fill_block_transactions   *)
(* and _set_output_buffer, with the sub task's length and checksum of the  *)
(* payload.  The hash of the compressed block is taken before the offset   *)
(* of the short ids, the length, the checksum and the short ids are set.   *)
CompactOutput(header, payload, txs, short_ids, magic, blockType) ==
    WithShortIds(magic \o blockType \o set_little_endian_value(Len(payload), 4) \o PayloadChecksum(payload)
                   \o header \o txs, short_ids)
CompressCompactBlock(view, placeholders, recovered, magic, blockType) ==
    LET header == BytesAt(view, BTC_HDR_COMMON_OFFSET, BTC_BLOCK_HDR_SIZE) \o set_varint(Len(placeholders))
        content(i) == ContentOf(placeholders, recovered, i)
        is_short(i) == placeholders[i].type = "short_id"
        written(i) == IF is_short(i) THEN <<BTC_SHORT_ID_INDICATOR>> ELSE content(i)
        sid(i) == IF is_short(i) THEN <<placeholders[i].sid>> ELSE << >>
        all(part(_)) == FlattenSeq([i \in DOMAIN placeholders |-> part(i)])
    IN  CompactOutput(header, header \o all(content), all(written), all(sid), magic, blockType)
============================================================================
