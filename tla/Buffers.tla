------------------------------ MODULE Buffers ------------------------------
(***************************************************************************)
(* Bytes, views and fixed-width integers: utils/common/buffer_view.cpp and *)
(* buffer_helper.h, and the variable-length integer of                     *)
(* btc_message_helper.h that the Ontology messages use as well.            *)
(*                                                                         *)
(* A buffer is a sequence of bytes and offsets count from 0 as in the      *)
(* code.  A length or a count is a number.  A 64-bit value is the sequence *)
(* of its significant bytes, the most significant one first (zero is the   *)
(* empty sequence), because TLC's integers are narrower than the code's.   *)
(***************************************************************************)
EXTENDS Integers, Sequences, FiniteSets, SequencesExt

CONSTANT Throw   \* what an exception leaves behind: no value

(* A number past the end of every buffer: what a length of more than three *)
(* significant bytes stands for.                                           *)
Huge == 2^30

(***************************************************************************)
(* BufferView: size bytes of buf from offset from on.  operator[] adds     *)
(* from and does not look at size; vector(offset, length) adds neither.    *)
(***************************************************************************)
View(buf, from, size) == [buf |-> buf, from |-> from, size |-> size]
Whole(buf) == View(buf, 0, Len(buf))
SubView(view, length, from) == View(view.buf, view.from + from, length)

ViewAt(view, idx) == view.buf[view.from + idx + 1]
RawVector(view, offset, length) == SubSeq(view.buf, offset + 1, offset + length)
ViewBytes(view) == SubSeq(view.buf, view.from + 1, view.from + view.size)
(* memcpy(..., &view[offset], length) *)
BytesAt(view, offset, length) ==
    SubSeq(view.buf, view.from + offset + 1, view.from + offset + length)

(***************************************************************************)
(* Integers in bytes.                                                      *)
(***************************************************************************)
(* The significant bytes of a big-endian run of bytes. *)
Word(bytes) ==
    IF \A i \in DOMAIN bytes : bytes[i] = 0
    THEN << >>
    ELSE LET first == CHOOSE i \in DOMAIN bytes :
                         bytes[i] # 0 /\ \A j \in 1..(i - 1) : bytes[j] = 0
         IN  SubSeq(bytes, first, Len(bytes))

NumberOf(word) ==
    IF Len(word) > 3 THEN Huge
    ELSE FoldLeft(LAMBDA acc, b : 256 * acc + b, 0, word)

WordOf(n) == Word(<<(n \div 2^24) % 256, (n \div 2^16) % 256, (n \div 2^8) % 256, n % 256>>)

(* The low size bytes of a word, most significant first. *)
Padded(word, size) ==
    [i \in 1..size |-> LET k == Len(word) - size + i IN IF k < 1 THEN 0 ELSE word[k]]

set_little_endian_value(n, size) == Reverse(Padded(WordOf(n), size))

get_little_endian_value(view, offset, size) ==
    NumberOf(Word(Reverse(BytesAt(view, offset, size))))

(* value_size of the type's bytes, from the most significant one of them on. *)
set_big_endian_value(word, value_size) == Padded(word, value_size)

get_big_endian_value(view, offset, value_size) == Word(BytesAt(view, offset, value_size))

(***************************************************************************)
(* btc_message_helper.h: get_varint and set_varint.                        *)
(***************************************************************************)
BTC_VARINT_BYTE_MAX_SIZE == 253
BTC_VARINT_SHORT_MAX_SIZE == 65535
BTC_VARINT_SHORT_INDICATOR == 253
BTC_VARINT_INT_INDICATOR == 254
BTC_VARINT_LONG_INDICATOR == 255

(* The bytes behind the first one. *)
VarintSize(typ) ==
    CASE typ = BTC_VARINT_LONG_INDICATOR -> 8
      [] typ = BTC_VARINT_INT_INDICATOR -> 4
      [] typ = BTC_VARINT_SHORT_INDICATOR -> 2
      [] OTHER -> 0

VarintOf(view, offset, size) ==
    [value |-> IF size = 0 THEN ViewAt(view, offset) ELSE get_little_endian_value(view, offset + 1, size),
     offset |-> offset + 1 + size]

get_varint(view, offset) == VarintOf(view, offset, VarintSize(ViewAt(view, offset)))

(* The fourth form, for values past 32 bits, is out of the modelled numbers. *)
set_varint(value) ==
    IF value < BTC_VARINT_BYTE_MAX_SIZE THEN set_little_endian_value(value, 1)
    ELSE IF value <= BTC_VARINT_SHORT_MAX_SIZE
         THEN <<BTC_VARINT_SHORT_INDICATOR>> \o set_little_endian_value(value, 2)
         ELSE <<BTC_VARINT_INT_INDICATOR>> \o set_little_endian_value(value, 4)

(* A run of bytes behind its varint length: the offset after it. *)
AfterBytes(varint) == varint.offset + varint.value
SkipVarBytes(view, offset) == AfterBytes(get_varint(view, offset))

(* A walk over a buffer: n steps from offset, or as many as a varint says. *)
Repeat(step(_), n, offset) == FoldLeft(LAMBDA o, i : step(o), offset, [i \in 1..n |-> i])
RepeatCounted(step(_), varint) == Repeat(step, varint.value, varint.offset)
============================================================================
