---------------------------- MODULE OntMessages ----------------------------
(***************************************************************************)
(* Ontology messages at the byte level: utils/protocols/ontology/*, the    *)
(* base64 of utils/encoding and the bytes that the Ontology block and      *)
(* consensus tasks read and write.  How the tasks share the work among     *)
(* threads is in BlockCompression and BlockDecompression.                  *)
(*                                                                         *)
(* A hash is the bytes that are hashed.  A character of a base64 text is   *)
(* its index in the encoding table, and the padding is 64.                 *)
(***************************************************************************)
EXTENDS ShortIds

ONT_TX_DEPLOY_TYPE_INDICATOR == 208
ONT_TX_INVOKE_TYPE_INDICATOR == 209
ONT_SHORT_ID_INDICATOR == 255
ONT_HDR_COMMON_OFF == 24
ONT_TX_VERSION_SIZE == 4
ONT_BLOCK_TIME_HEIGHT_CONS_DATA_LEN == 16
ONT_BLOCK_NEXT_BOOKKEEPER_LEN == 20
ONT_BOOKKEEPER_LEN == 33
ONT_BLOCK_LENGTH_OFFSET == 16
ONT_BX_MERKLE_ROOT_OFFSET == 9
ONT_HASH_SIZE == 32
ont_offset_diff == 8 + 1 + ONT_HASH_SIZE

(***************************************************************************)
(* Transactions.                                                           *)
(***************************************************************************)
(* The offset after the part of the transaction its hash covers. *)
HashedEnd(view, payload, tx_type) ==
    CASE tx_type = ONT_TX_DEPLOY_TYPE_INDICATOR ->
           Repeat(LAMBDA o : SkipVarBytes(view, o), 5, SkipVarBytes(view, payload) + 1)
      [] tx_type = ONT_TX_INVOKE_TYPE_INDICATOR -> SkipVarBytes(view, payload)
      [] OTHER -> payload
get_tx_type(view, offset) ==
    get_varint(view, HashedEnd(view, offset + 42, ViewAt(view, offset + 1))).offset

ont_get_tx_id(view, offset) == BytesAt(view, offset, get_tx_type(view, offset) - offset)

(* get_next_tx_offset of the three messages: behind the signatures. *)
OntNextTx(view, offset) ==
    RepeatCounted(LAMBDA o : SkipVarBytes(view, SkipVarBytes(view, o)),
                  get_varint(view, get_tx_type(view, offset)))

RECURSIVE OntTxs(_, _, _)
OntTxsFrom(view, offset, count, next) ==
    <<[bytes |-> BytesAt(view, offset, next - offset), hash |-> ont_get_tx_id(view, offset)]>>
      \o OntTxs(view, next, count - 1)
OntTxs(view, offset, count) ==
    IF count = 0 THEN << >> ELSE OntTxsFrom(view, offset, count, OntNextTx(view, offset))

(* OntMessageParser: the message is one transaction. *)
ont_parse_transactions_message(view) ==
    <<[hash |-> ont_get_tx_id(view, ONT_HDR_COMMON_OFF), length |-> view.size - ONT_HDR_COMMON_OFF,
       offset |-> ONT_HDR_COMMON_OFF]>>

(***************************************************************************)
(* Blocks.                                                                 *)
(***************************************************************************)
(* From the version of a block: the end of what its hash covers, and the   *)
(* offset of the number of transactions.                                   *)
SkipBookkeepers(view, offset) ==
    RepeatCounted(LAMBDA o : get_varint(view, o).offset + ONT_BOOKKEEPER_LEN, get_varint(view, offset))
SkipSigData(view, offset) == RepeatCounted(LAMBDA o : SkipVarBytes(view, o), get_varint(view, offset))
HeaderEnds(view, hashed) ==
    [hashed |-> hashed, tx_count |-> SkipSigData(view, SkipBookkeepers(view, hashed))]
OntHeader(view, start) ==
    HeaderEnds(view, SkipVarBytes(view, start + ONT_TX_VERSION_SIZE + 3 * ONT_HASH_SIZE
                                          + ONT_BLOCK_TIME_HEIGHT_CONS_DATA_LEN)
                       + ONT_BLOCK_NEXT_BOOKKEEPER_LEN)

\* the constructor of OntBlockMessage
OntBlockMessage(view) == OntHeader(view, ONT_HDR_COMMON_OFF)

ont_generate_block_hash(view) ==
    BytesAt(view, ONT_HDR_COMMON_OFF, OntBlockMessage(view).hashed - ONT_HDR_COMMON_OFF)

ont_get_prev_block_hash(view) ==
    Reverse(BytesAt(view, ONT_HDR_COMMON_OFF + ONT_TX_VERSION_SIZE, ONT_HASH_SIZE))

get_block_size(view, offset) ==
    get_little_endian_value(view, offset + ONT_BLOCK_LENGTH_OFFSET, 4) + ONT_HDR_COMMON_OFF

get_merkle_root(view) == BytesAt(view, get_block_size(view, 0) - ONT_HASH_SIZE, ONT_HASH_SIZE)

\* OntBlockCompressionTask::_execute
CompressedOntBlock(header, txs, known) ==
    WithShortIds(header \o TxBytes(txs, known, ONT_SHORT_ID_INDICATOR), TxShortIds(txs, known))
CompressOntFrom(view, known, count_offset) ==
    CompressedOntBlock(<<0>> \o get_merkle_root(view) \o BytesAt(view, 0, count_offset + 4),
                       OntTxs(view, count_offset + 4, get_little_endian_value(view, count_offset, 4)), known)
CompressOntBlock(view, known) == CompressOntFrom(view, known, OntBlockMessage(view).tx_count)

(* get_next_tx_offset of BxOntBlockMessage and BxOntConsensusMessage for   *)
(* count transactions.  Behind the last short id, the block task throws    *)
(* and the consensus task reads past the vector.                           *)
RECURSIVE DecompressOntTxs(_, _, _, _, _)
FullOntTx(view, offset, next, count, short_ids, contents) ==
    <<BytesAt(view, offset, next - offset)>> \o DecompressOntTxs(view, next, count - 1, short_ids, contents)
DecompressOntTxs(view, offset, count, short_ids, contents) ==
    IF count = 0 THEN << >>
    ELSE IF ViewAt(view, offset) # ONT_SHORT_ID_INDICATOR
    THEN FullOntTx(view, offset, OntNextTx(view, offset), count, short_ids, contents)
    ELSE IF short_ids = << >> THEN <<Throw>>
    ELSE <<contents[Head(short_ids)]>> \o DecompressOntTxs(view, offset + 1, count - 1, Tail(short_ids), contents)

\* BxOntBlockMessage::deserialize_short_ids
OntShortIds(view) == DeserializeShortIds(view, get_little_endian_value(view, 0, 8))

\* OntBlockDecompressionTask: _parse_block_header and _execute
DecompressOntFrom(view, contents, short_ids, count_offset) ==
    IF short_ids = Throw THEN Throw
    ELSE WithTxs(BytesAt(view, ont_offset_diff, count_offset + 4),
                 DecompressOntTxs(view, ont_offset_diff + count_offset + 4,
                                  get_little_endian_value(view, ont_offset_diff + count_offset, 4),
                                  short_ids, contents),
                 BytesAt(view, ONT_BX_MERKLE_ROOT_OFFSET, ONT_HASH_SIZE))
DecompressOntBlock(view, contents) ==
    DecompressOntFrom(view, contents, OntShortIds(view),
                      OntBlockMessage(SubView(view, view.size - ont_offset_diff, ont_offset_diff)).tx_count)

ont_get_original_block_size(view) == get_block_size(view, ont_offset_diff)

(***************************************************************************)
(* base64.                                                                 *)
(***************************************************************************)
BASE64_PADDING == 64

(* in_len - 2 wraps around for fewer than two characters: the loop runs    *)
(* past the text.                                                          *)
base64_encode(data) ==
    LET in_len == Len(data)
        at(i) == data[i + 1]
        groups == (in_len - 2 + 2) \div 3
        triple(i) == <<at(i) \div 4, (at(i) % 4) * 16 + at(i + 1) \div 16,
                       (at(i + 1) % 16) * 4 + at(i + 2) \div 64, at(i + 2) % 64>>
        i == 3 * groups
    IN  IF in_len < 2 THEN Throw
        ELSE FlattenSeq([g \in 1..groups |-> triple(3 * (g - 1))])
               \o (CASE i = in_len - 1 ->
                          <<at(i) \div 4, (at(i) % 4) * 16, BASE64_PADDING, BASE64_PADDING>>
                     [] i = in_len - 2 ->
                          <<at(i) \div 4, (at(i) % 4) * 16 + at(i + 1) \div 16, (at(i + 1) % 16) * 4,
                            BASE64_PADDING>>
                     [] OTHER -> << >>)

(* At offset 0, the only one used.  The buffer is as long as a text        *)
(* without padding needs; behind out_len it is zero.                       *)
base64_decode(input) ==
    LET in_len == Len(input)
        value(i) == IF input[i] = BASE64_PADDING THEN 0 ELSE input[i]
        size == (in_len \div 4) * 3
        out_len == size - (IF input[in_len] = BASE64_PADDING THEN 1 ELSE 0)
                        - (IF input[in_len - 1] = BASE64_PADDING THEN 1 ELSE 0)
        byte(j) == LET g == 4 * (j \div 3)
                   IN  CASE j % 3 = 0 -> value(g + 1) * 4 + value(g + 2) \div 16
                         [] j % 3 = 1 -> (value(g + 2) % 16) * 16 + value(g + 3) \div 4
                         [] j % 3 = 2 -> (value(g + 3) % 4) * 64 + value(g + 4)
    IN  IF in_len % 4 # 0 THEN Throw
        ELSE [j \in 1..size |-> IF j <= out_len THEN byte(j - 1) ELSE 0]

(***************************************************************************)
(* Consensus messages.                                                     *)
(***************************************************************************)
(* JSON text: the type, the length and the base64 text of the payload.     *)
encode_json(type, len, payload) == <<type>> \o set_little_endian_value(len, 4) \o payload
decode_json(text) ==
    [type |-> Head(text), len |-> get_little_endian_value(Whole(text), 1, 4),
     payload |-> SubSeq(text, 6, Len(text))]

\* OntConsensusMessage::parse
ConsensusFixed == ONT_HDR_COMMON_OFF + 12 + ONT_HASH_SIZE + 2
ConsensusParts(view, payload, json, block, block_msg, header) ==
    [header_offset |-> payload.offset, type |-> json.type, len |-> json.len, block |-> block,
     prev_hash |-> Reverse(BytesAt(block, block_msg.offset + ONT_TX_VERSION_SIZE, ONT_HASH_SIZE)),
     hash |-> BytesAt(block, block_msg.offset, header.hashed - block_msg.offset),
     tx_count |-> get_little_endian_value(block, header.tx_count, 4),
     tx_offset |-> header.tx_count + 4,
     owner |-> BytesAt(view, AfterBytes(payload), view.size - AfterBytes(payload)),
     tail |-> BytesAt(block, AfterBytes(block_msg), json.len - AfterBytes(block_msg))]
ConsensusBlock(view, payload, json, block, block_msg) ==
    ConsensusParts(view, payload, json, block, block_msg, OntHeader(block, block_msg.offset))
ConsensusDecoded(view, payload, json, block) ==
    ConsensusBlock(view, payload, json, block, get_varint(block, 0))
ConsensusJson(view, payload, json) == ConsensusDecoded(view, payload, json, Whole(base64_decode(json.payload)))
ConsensusPayload(view, payload) ==
    IF view.size < AfterBytes(payload) THEN Throw
    ELSE ConsensusJson(view, payload, decode_json(BytesAt(view, payload.offset, payload.value)))
ParseConsensus(view) ==
    IF view.size < ConsensusFixed THEN Throw
    ELSE ConsensusPayload(view, get_varint(view, ConsensusFixed))

Sized(bytes) == set_little_endian_value(Len(bytes), 4) \o bytes

(* A stand-in for the SHA-256 of a block's header. *)
BlockDigest(hashed) == [i \in 1..32 |-> hashed[i]]

(* OntConsensusBlockCompressionTask::_execute; copy_from_buffer throws for *)
(* an empty view.                                                          *)
CompressedConsensus(view, msg, known) ==
    IF msg = Throw THEN Throw
    ELSE IF msg.tail = << >> \/ msg.owner = << >> THEN Throw
    ELSE CompressedOntBlock(
            <<1>> \o BlockDigest(msg.hash) \o set_little_endian_value(msg.tx_count, 4)
              \o Sized(msg.tail) \o Sized(msg.owner) \o Sized(BytesAt(view, 0, msg.header_offset))
              \o <<msg.type>> \o set_little_endian_value(msg.len, 4)
              \o Sized(BytesAt(msg.block, 0, msg.tx_offset)),
            OntTxs(msg.block, msg.tx_offset, msg.tx_count), known)
CompressConsensus(view, known) == CompressedConsensus(view, ParseConsensus(view), known)

\* BxOntConsensusMessage::parse
PartAt(view, offset) == BytesAt(view, offset + 4, get_little_endian_value(view, offset, 4))
AfterPart(view, offset) == offset + 4 + get_little_endian_value(view, offset, 4)
BxConsensusParts(view, tail, owner, payload_header, type) ==
    [short_ids_offset |-> get_little_endian_value(view, 0, 8),
     block_hash |-> BytesAt(view, 9, ONT_HASH_SIZE),
     tx_count |-> get_little_endian_value(view, tail - 4, 4),
     tail |-> PartAt(view, tail), owner |-> PartAt(view, owner), payload_header |-> PartAt(view, payload_header),
     type |-> ViewAt(view, type), len |-> get_little_endian_value(view, type + 1, 4),
     header |-> PartAt(view, type + 5), tx_offset |-> AfterPart(view, type + 5)]
BxConsensusFrom(view, tail, owner, payload_header) ==
    BxConsensusParts(view, tail, owner, payload_header, AfterPart(view, payload_header))
BxConsensusOwner(view, tail, owner) == BxConsensusFrom(view, tail, owner, AfterPart(view, owner))
BxConsensusTail(view, tail) == BxConsensusOwner(view, tail, AfterPart(view, tail))
ParseBxConsensus(view) == BxConsensusTail(view, 8 + 1 + ONT_HASH_SIZE + 4)

\* BxOntConsensusMessage::deserialize_short_ids
ConsensusShortIds(view, msg) == DeserializeShortIds(view, msg.short_ids_offset)

(* OntConsensusBlockDecompressionTask::_execute.  The length of the JSON   *)
(* text is the one in the copied header.                                   *)
Reencoded(msg, decoded) ==
    IF decoded = Throw THEN Throw
    ELSE msg.payload_header \o encode_json(msg.type, msg.len, base64_encode(decoded)) \o msg.owner
DecompressConsensusFrom(view, contents, msg, short_ids) ==
    IF short_ids = Throw THEN Throw
    ELSE Reencoded(msg, WithTxs(msg.header,
                                DecompressOntTxs(view, msg.tx_offset, msg.tx_count, short_ids, contents),
                                msg.tail))
DecompressConsensusIn(view, contents, msg) ==
    DecompressConsensusFrom(view, contents, msg, ConsensusShortIds(view, msg))
DecompressConsensus(view, contents) == DecompressConsensusIn(view, contents, ParseBxConsensus(view))
============================================================================
