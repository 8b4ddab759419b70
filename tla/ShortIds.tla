------------------------------ MODULE ShortIds ------------------------------
(***************************************************************************)
(* The frame all compressed blocks share: the offset of the short ids in   *)
(* the first eight bytes, and the short ids behind the block.              *)
(***************************************************************************)
EXTENDS Buffers

(* deserialize_short_ids: the count and that many ids, if there is room. *)
ShortIdsAt(view, offset, count) ==
    IF offset + 4 * count > view.size THEN Throw
    ELSE [i \in 1..count |-> get_little_endian_value(view, offset + 4 * (i - 1), 4)]

DeserializeShortIds(view, short_ids_offset) ==
    ShortIdsAt(view, short_ids_offset + 4, get_little_endian_value(view, short_ids_offset, 4))

SerializeShortIds(short_ids) ==
    set_little_endian_value(Len(short_ids), 4)
      \o FlattenSeq([i \in DOMAIN short_ids |-> set_little_endian_value(short_ids[i], 4)])

(* _set_output_buffer: content is what lies between the offset and the ids. *)
WithShortIds(content, short_ids) ==
    set_little_endian_value(8 + Len(content), 8) \o content \o SerializeShortIds(short_ids)

(* What the Bitcoin and Ontology tasks write for transactions, which are   *)
(* records of their bytes and their hash, and the short ids: known maps a  *)
(* hash to its short id.                                                   *)
TxBytes(txs, known, indicator) ==
    FlattenSeq([i \in DOMAIN txs |-> IF txs[i].hash \in DOMAIN known THEN <<indicator>> ELSE txs[i].bytes])
TxShortIds(txs, known) ==
    LET sid(tx) == IF tx.hash \in DOMAIN known THEN <<known[tx.hash]>> ELSE << >>
    IN  FlattenSeq([i \in DOMAIN txs |-> sid(txs[i])])

(* A decompressed block of transactions, one of which may have failed. *)
WithTxs(header, txs, trailer) == IF Throw \in Range(txs) THEN Throw ELSE header \o FlattenSeq(txs) \o trailer
============================================================================
