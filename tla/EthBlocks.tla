----------------------------- MODULE EthBlocks -----------------------------
(***************************************************************************)
(* Ethereum blocks at the byte level: EthBlockMessage, EthBlockHeader,     *)
(* BxEthBlockMessage, the bytes of EthBlockCompressionTask::_execute and   *)
(* of EthBlockDecompressionTask::_set_output_buffer, and                   *)
(* TransactionService::eth_block_to_json.  How the tasks share the work is *)
(* in BlockCompression and BlockDecompression.                             *)
(***************************************************************************)
EXTENDS EthMessages, ShortIds

(* EthBlockMessage::parse.  The trailer is all that follows the            *)
(* transactions, to the end of the buffer.                                 *)
EthBlockParts(view, msg, header, txn) ==
    [header |-> SubView(view, ItemEnd(header) - msg.offset, msg.offset),
     prev_hash |-> BytesAt(view, consume_length_prefix(view, header.offset).offset, SHA256_BINARY_SIZE),
     txn_offset |-> txn.offset,
     txn_end_offset |-> ItemEnd(txn),
     trailer |-> SubView(view, view.size - ItemEnd(txn), ItemEnd(txn))]

HeaderOf(view, msg) == consume_length_prefix(view, msg.offset)
TxnsOf(view, msg) == consume_length_prefix(view, ItemEnd(HeaderOf(view, msg)))
ParseEthBlockIn(view, msg) == EthBlockParts(view, msg, HeaderOf(view, msg), TxnsOf(view, msg))
ParseEthBlock(view) == ParseEthBlockIn(view, consume_length_prefix(view, 0))

(* BxEthBlockMessage::parse: the offset of the short ids comes first. *)
BxEthBlockParts(view, short_ids_offset, msg, header, txn) ==
    [header |-> SubView(view, ItemEnd(header) - msg.offset, msg.offset),
     txn_offset |-> txn.offset,
     txn_end_offset |-> ItemEnd(txn),
     trailer |-> SubView(view, short_ids_offset - ItemEnd(txn), ItemEnd(txn)),
     short_ids_offset |-> short_ids_offset]

ParseBxEthBlockIn(view, msg) ==
    BxEthBlockParts(view, get_little_endian_value(view, 0, 8), msg, HeaderOf(view, msg), TxnsOf(view, msg))
ParseBxEthBlock(view) == ParseBxEthBlockIn(view, consume_length_prefix(view, 8))

(***************************************************************************)
(* Compression.                                                            *)
(***************************************************************************)
FullTx(content) ==
    LET prefix == get_length_prefix_str(Len(content))
    IN  get_length_prefix_list(1 + Len(prefix) + Len(content)) \o <<ETH_FULL_TX_INDICATOR>> \o prefix \o content

(* known[h] is the short id of the transaction with hash h. *)
CompressTx(content, hash, known) ==
    IF hash \in DOMAIN known
    THEN [bytes |-> <<ETH_RLP_OF_SHORT_TX, ETH_SHORT_ID_INDICATOR, ETH_SHORT_ID_INDICATOR>>,
          short_ids |-> <<known[hash]>>]
    ELSE [bytes |-> FullTx(content), short_ids |-> << >>]

Joined(first, rest) == [bytes |-> first.bytes \o rest.bytes, short_ids |-> first.short_ids \o rest.short_ids]

RECURSIVE CompressTxs(_, _, _, _)
CompressTxsFrom(view, tx_from, end, known, item) ==
    Joined(CompressTx(BytesAt(view, tx_from, ItemEnd(item) - tx_from), TxHashed(view, tx_from, item), known),
           CompressTxs(view, ItemEnd(item), end, known))
CompressTxs(view, tx_from, end, known) ==
    IF tx_from >= end THEN [bytes |-> << >>, short_ids |-> << >>]
    ELSE CompressTxsFrom(view, tx_from, end, known, consume_length_prefix(view, tx_from))

AsRlpList(content) == get_length_prefix_list(Len(content)) \o content

(* The message from _starting_offset on.  The hash of the compressed block *)
(* covers it up to the number of short ids.                                *)
BlockWith(msg, txs) == AsRlpList(ViewBytes(msg.header) \o AsRlpList(txs) \o ViewBytes(msg.trailer))
CompressedEthBlock(msg, txs) == WithShortIds(BlockWith(msg, txs.bytes), txs.short_ids)
CompressParsedBlock(view, known, msg) ==
    CompressedEthBlock(msg, CompressTxs(view, msg.txn_offset, msg.txn_end_offset, known))
CompressEthBlock(view, known) == CompressParsedBlock(view, known, ParseEthBlock(view))

(***************************************************************************)
(* Decompression.                                                          *)
(***************************************************************************)
(* get_next_tx_offset of BxEthBlockMessage, and the content of a full      *)
(* transaction behind its indicator.  contents[s] is what short id s names; *)
(* _dispatch throws when the short ids have run out.                       *)
RECURSIVE DecompressTxs(_, _, _, _, _)
FullContent(view, full) == BytesAt(view, full.offset, full.length)
DecompressTxsFrom(view, end, short_ids, contents, item) ==
    IF ViewAt(view, item.offset) # ETH_SHORT_ID_INDICATOR
    THEN <<FullContent(view, consume_length_prefix(view, item.offset + 1))>>
           \o DecompressTxs(view, ItemEnd(item), end, short_ids, contents)
    ELSE IF short_ids = << >> THEN <<Throw>>
    ELSE <<contents[Head(short_ids)]>> \o DecompressTxs(view, ItemEnd(item), end, Tail(short_ids), contents)
DecompressTxs(view, offset, end, short_ids, contents) ==
    IF offset >= end THEN << >>
    ELSE DecompressTxsFrom(view, end, short_ids, contents, consume_length_prefix(view, offset))

FilledBlock(msg, txs) == IF Throw \in Range(txs) THEN Throw ELSE BlockWith(msg, FlattenSeq(txs))
DecompressParsedBlock(view, contents, msg, short_ids) ==
    IF short_ids = Throw THEN Throw
    ELSE FilledBlock(msg, DecompressTxs(view, msg.txn_offset, msg.txn_end_offset, short_ids, contents))
DecompressBlockAt(view, contents, msg) ==
    DecompressParsedBlock(view, contents, msg, DeserializeShortIds(view, msg.short_ids_offset))
DecompressEthBlock(view, contents) == DecompressBlockAt(view, contents, ParseBxEthBlock(view))

(***************************************************************************)
(* EthBlockHeader and the JSON of a block.                                 *)
(***************************************************************************)
HeaderFields == <<"prev_hash", "uncles_hash", "coinbase", "state_root", "transaction_root",
                  "receipt_root", "bloom", "difficulty", "block_number", "gas_limit", "gas_used",
                  "timestamp", "extra_data", "mix_hash", "nonce">>

HeaderHashes == {"prev_hash", "uncles_hash", "mix_hash"}
HeaderInts == {"difficulty", "block_number", "gas_limit", "gas_used", "timestamp", "nonce"}

HeaderField(field, rlp) ==
    IF field \in HeaderHashes THEN as_rlp_string(rlp)
    ELSE IF field \in HeaderInts THEN as_int(rlp)
    ELSE as_vector(rlp)
HeaderFrom(list) ==
    [f \in Range(HeaderFields) |->
        HeaderField(f, list[CHOOSE i \in DOMAIN HeaderFields : HeaderFields[i] = f])]
EthBlockHeader(view) == HeaderFrom(get_rlp_list(RlpAt(view, 0)))

RECURSIVE JsonTxs(_, _, _)
JsonTxs(view, from, end) ==
    IF from >= end THEN << >>
    ELSE <<to_json(decode(view, from))>> \o JsonTxs(view, ItemEnd(consume_length_prefix(view, from)), end)

RECURSIVE JsonUncles(_, _, _)
JsonUnclesFrom(view, from, end, next) ==
    <<EthBlockHeader(SubView(view, next - from, from))>> \o JsonUncles(view, next, end)
JsonUncles(view, from, end) ==
    IF from >= end THEN << >> ELSE JsonUnclesFrom(view, from, end, ItemEnd(consume_length_prefix(view, from)))

(* The walk over the uncles ends at the length of their list. *)
JsonOf(view, msg, uncles) ==
    [header |-> EthBlockHeader(msg.header),
     transactions |-> JsonTxs(view, msg.txn_offset, msg.txn_end_offset),
     uncles |-> JsonUncles(view, uncles.offset, uncles.length)]
JsonOfParsed(view, msg) == JsonOf(view, msg, consume_length_prefix(view, msg.trailer.from))
eth_block_to_json(view) == JsonOfParsed(view, ParseEthBlock(view))
============================================================================
