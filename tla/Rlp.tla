-------------------------------- MODULE Rlp --------------------------------
(***************************************************************************)
(* RLP: utils/encoding/rlp_encoder.h, rlp_encoder.cpp and rlp.cpp.         *)
(*                                                                         *)
(* An item's prefix says whether it is a byte, a string or a list and how  *)
(* long its value is.  consume_length_prefix reads one prefix;             *)
(* get_length_prefix writes one; class Rlp is one item of a buffer and     *)
(* get_rlp_list the items of a list.  An exception is the item Bad.        *)
(***************************************************************************)
EXTENDS Buffers

RLP_BYTE == 1
RLP_STRING == 2
RLP_LIST == 3

RLP_STR_ENCODING_TYPE == 128
RLP_LIST_ENCODING_TYPE == 192

Bad == [type |-> 0, length |-> 0, offset |-> 0]
Failed(item) == item.type = 0
Item(type, length, offset) == [type |-> type, length |-> length, offset |-> offset]

(***************************************************************************)
(* Writing.                                                                *)
(***************************************************************************)
(* 1, 2, 3 or 4, and 8 for everything longer. *)
get_length_bytes_size(word) ==
    IF Len(word) = 0 THEN 1 ELSE IF Len(word) <= 4 THEN Len(word) ELSE 8

set_big_endian_rlp_value(word, length) == set_big_endian_value(word, length)

get_length_prefix(length, encoding_type) ==
    LET word == WordOf(length)
        length_size == get_length_bytes_size(word)
    IN  IF length < 56
        THEN <<encoding_type + length>>
        ELSE <<encoding_type + 56 - 1 + length_size>> \o set_big_endian_rlp_value(word, length_size)

get_length_prefix_str(length) == get_length_prefix(length, RLP_STR_ENCODING_TYPE)
get_length_prefix_list(length) == get_length_prefix(length, RLP_LIST_ENCODING_TYPE)

encode_int(word) ==
    LET length_size == get_length_bytes_size(word)
        small == Len(word) = 0 \/ (Len(word) = 1 /\ word[1] < 128)
    IN  (IF small THEN << >> ELSE get_length_prefix_str(length_size))
          \o set_big_endian_rlp_value(word, length_size)

(***************************************************************************)
(* Reading.                                                                *)
(***************************************************************************)
(* A value of more than 64 bits keeps its low 64. *)
get_big_endian_rlp_value(view, offset, length) ==
    Word(Padded(get_big_endian_value(view, offset, length), 8))

(* The chunks of eight bytes from the front, and what is left over. *)
RECURSIVE get_big_endian_rlp_large_value(_, _, _)
get_big_endian_rlp_large_value(view, offset, length) ==
    IF length > 8
    THEN <<get_big_endian_value(view, offset, 8)>>
           \o get_big_endian_rlp_large_value(view, offset + 8, length - 8)
    ELSE <<get_big_endian_rlp_value(view, offset, length)>>

(* Fault variant: a short length in the long form is accepted. *)
LongPrefixAnyLength(view, offset, ll, type) ==
    IF ViewAt(view, offset + 1) = 0 THEN Bad
    ELSE Item(type, NumberOf(get_big_endian_rlp_value(view, offset + 1, ll)), offset + 1 + ll)

LongItem(type, length, offset) == IF length < 56 THEN Bad ELSE Item(type, length, offset)

LongPrefix(view, offset, ll, type) ==
    IF ViewAt(view, offset + 1) = 0 THEN Bad
    ELSE LongItem(type, NumberOf(get_big_endian_rlp_value(view, offset + 1, ll)), offset + 1 + ll)

PrefixOf(view, offset, b0) ==
    CASE b0 < 128 -> Item(RLP_BYTE, 1, offset)
      [] b0 \in 128..183 ->
           IF b0 = 129 /\ ViewAt(view, offset + 1) < 128
           THEN Bad
           ELSE Item(RLP_STRING, b0 - 128, offset + 1)
      [] b0 \in 184..191 -> LongPrefix(view, offset, b0 - 183, RLP_STRING)
      [] b0 \in 192..247 -> Item(RLP_LIST, b0 - 192, offset + 1)
      [] b0 \in 248..255 -> LongPrefix(view, offset, b0 - 247, RLP_LIST)

consume_length_prefix(view, offset) ==
    IF offset >= view.size THEN Bad ELSE PrefixOf(view, offset, ViewAt(view, offset))

(* The offset after an item. *)
ItemEnd(p) == p.offset + p.length

ItemInt(view, p) == IF Failed(p) THEN Throw ELSE get_big_endian_rlp_value(view, p.offset, p.length)
decode_int(view, offset) == ItemInt(view, consume_length_prefix(view, offset))

(***************************************************************************)
(* class Rlp: val is an offset into the buffer for an item built from one, *)
(* and relative to start for an item of get_rlp_list.                      *)
(***************************************************************************)
RlpItem(view, p, origin, start) ==
    [view |-> view, type |-> p.type, length |-> p.length, val |-> p.offset - origin, start |-> start]

RlpAt(view, start) == RlpItem(view, consume_length_prefix(view, start), 0, start)

(* The items from offset to end, the first one with prefix p; one that     *)
(* does not parse ends the list.                                           *)
RECURSIVE RlpItems(_, _, _)
RlpItemsFrom(view, offset, end, p) ==
    <<RlpItem(view, p, offset, offset)>>
      \o (IF Failed(p) THEN << >> ELSE RlpItems(view, ItemEnd(p), end))
RlpItems(view, offset, end) ==
    IF offset >= end THEN << >>
    ELSE RlpItemsFrom(view, offset, end, consume_length_prefix(view, offset))

ItemsOf(rlp) == RlpItems(rlp.view, rlp.val, rlp.val + rlp.length)
get_rlp_list(rlp) == ItemsOf(IF rlp.length = 0 THEN RlpAt(rlp.view, rlp.start) ELSE rlp)

ListFailed(list) == \E i \in DOMAIN list : Failed(list[i])

PastEnd(rlp) == rlp.start + rlp.val + rlp.length > rlp.view.size

as_rlp_string(rlp) ==
    IF PastEnd(rlp) THEN Throw
    ELSE BytesAt(rlp.view, rlp.start + rlp.val, rlp.length)

(* vector() of the view: from the start of the buffer, not of the view. *)
as_vector(rlp) ==
    IF PastEnd(rlp) THEN Throw
    ELSE RawVector(rlp.view, rlp.start + rlp.val, rlp.length)

as_large_int(rlp) ==
    IF PastEnd(rlp) THEN Throw
    ELSE get_big_endian_rlp_large_value(rlp.view, rlp.start + rlp.val, rlp.length)

(* Of a value of more than eight bytes, the last chunk. *)
as_int(rlp) ==
    IF PastEnd(rlp) THEN Throw
    ELSE IF rlp.val > 0
         THEN Last(get_big_endian_rlp_large_value(rlp.view, rlp.start + rlp.val, rlp.length))
         ELSE decode_int(rlp.view, rlp.start)
============================================================================
