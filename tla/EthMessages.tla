---------------------------- MODULE EthMessages ----------------------------
(***************************************************************************)
(* Ethereum messages at the byte level: utils/protocols/ethereum/*, the    *)
(* bytes EthBlockCompressionTask and EthBlockDecompressionTask write, and  *)
(* TransactionService::eth_block_to_json.                                  *)
(*                                                                         *)
(* A hash is the bytes that are hashed.  JSON is a record of what is       *)
(* printed under each key.                                                 *)
(***************************************************************************)
EXTENDS Rlp

ETH_TX_TYPE_0 == 0
ETH_TX_TYPE_2 == 2
EIP155_CHAIN_ID_OFFSET == 35
ETH_ADDRESS_LEN == 20
ETH_FULL_TX_INDICATOR == 1
ETH_SHORT_ID_INDICATOR == 128
ETH_RLP_OF_SHORT_TX == 194
SHA256_BINARY_SIZE == 32

(* ETH_TYPE_<n>_<field>_IDX: the fields of a transaction, by type, in order. *)
TxFields(type) ==
    CASE type = 0 -> <<"nonce", "gas_price", "gas_limit", "to", "value", "data", "v", "r", "s">>
      [] type = 1 -> <<"chain_id", "nonce", "gas_price", "gas_limit", "to", "value", "data",
                       "access_list", "y_parity", "r", "s">>
      [] type = 2 -> <<"chain_id", "nonce", "max_priority_fee_per_gas", "max_fee_per_gas",
                       "start_gas", "to", "value", "data", "access_list", "y_parity", "r", "s">>

FieldIndex(type, field) == CHOOSE i \in DOMAIN TxFields(type) : TxFields(type)[i] = field

LowByte(word) == IF word = << >> THEN 0 ELSE Last(word)

(***************************************************************************)
(* EthTxMessage.                                                           *)
(***************************************************************************)
(* uint8_t((v - 35) / 2) of the odd one of v and v - 1, all in a byte. *)
Odd(byte) == IF byte % 2 = 0 THEN (byte - 1) % 256 ELSE byte
HalfByte(d) == IF d >= 0 THEN d \div 2 ELSE (-((-d) \div 2)) % 256
LegacyChainId(v) == HalfByte(Odd(LowByte(v)) - EIP155_CHAIN_ID_OFFSET)

ReadField(field, rlp) ==
    CASE field \in {"to", "r", "s", "access_list"} -> as_vector(rlp)
      [] field = "data" -> as_rlp_string(rlp)
      [] field = "value" -> as_large_int(rlp)
      [] field \in {"chain_id", "y_parity"} -> <<LowByte(as_int(rlp))>>
      [] OTHER -> as_int(rlp)

(* The members a type does not read are set to these. *)
UnusedFields(type, read) ==
    CASE type = 0 -> [chain_id |-> <<LegacyChainId(read["v"])>>, access_list |-> << >>, y_parity |-> <<0>>]
      [] type = 1 -> [v |-> << >>]
      [] type = 2 -> [v |-> << >>, gas_price |-> read["max_fee_per_gas"], gas_limit |-> << >>]

Members(read, unused) ==
    [g \in DOMAIN read \cup DOMAIN unused |-> IF g \in DOMAIN unused THEN unused[g] ELSE read[g]]

DecodedFields(type, list, read, hash, next) ==
    IF \E f \in DOMAIN read : read[f] = Throw THEN Throw
    ELSE [type |-> type, list |-> list, hash |-> hash, next |-> next,
          f |-> Members(read, UnusedFields(type, read))]

Decoded(type, list, hash, next) ==
    DecodedFields(type, list, [f \in Range(TxFields(type)) |-> ReadField(f, list[FieldIndex(type, f)])],
                  hash, next)

(* A receipt is left alone: the caller is given the offset it started with. *)
Receipt(offset) == [type |-> -1, next |-> offset]

(* An element past the end of _rlp_list is read. *)
Undefined == [type |-> -2, next |-> 0]

(* keccak_sha3 reads what it is told to: what lies behind the buffer is no *)
(* byte of it.                                                             *)
(* Fault variant: the type byte in front is not counted. *)
HashInputShort(view, from, length) == BytesAt(view, from, length - 1)

HashInput(view, from, length) ==
    [i \in 1..length |-> IF view.from + from + i <= Len(view.buf) THEN ViewAt(view, from + i - 1) ELSE 256]

(* The list of a transaction's fields.  offset is where the message's      *)
(* transaction starts, from and length are what the hash covers.           *)
DecodeList(view, offset, type, rlp, list, from, length) ==
    IF ListFailed(list) THEN Throw
    ELSE IF type = 0 /\ Len(list) < 8 THEN Receipt(offset)
    ELSE IF Len(list) < Len(TxFields(type)) THEN Undefined
    ELSE Decoded(type, list, HashInput(view, from, length), rlp.val + rlp.length)

DecodeTyped(view, offset, type, rlp, from, extra) ==
    IF Failed(rlp) THEN Throw
    ELSE DecodeList(view, offset, type, rlp, get_rlp_list(rlp), from, rlp.length + rlp.val - rlp.start + extra)

(* A transaction in a string: the type is its first byte, and is hashed    *)
(* with the list, except for a legacy transaction.                         *)
DecodeWrapped(view, offset, typeAt, type) ==
    IF type > ETH_TX_TYPE_2 THEN Throw
    ELSE DecodeTyped(view, offset, type, RlpAt(view, typeAt + 1),
                     IF type = ETH_TX_TYPE_0 THEN typeAt + 1 ELSE typeAt, 1)

DecodeOuter(view, offset, outer) ==
    IF Failed(outer) \/ (outer.type = RLP_STRING /\ outer.length < 1) THEN Throw
    ELSE IF outer.type = RLP_LIST THEN DecodeTyped(view, offset, ETH_TX_TYPE_0, outer, offset, 0)
    ELSE DecodeWrapped(view, offset, outer.val, ViewAt(view, outer.val))

decode(view, offset) == DecodeOuter(view, offset, RlpAt(view, offset))

(* The integers are read unchecked: only the address' length can fail. *)
deserialize(tx) == Len(tx.f["to"]) <= ETH_ADDRESS_LEN

AtLeast(word, n) == Len(word) > 1 \/ (Len(word) = 1 /\ word[1] >= n)

(* fields are the bytes from the first field to the last signed one. *)
Unsigned(tx, fields) ==
    IF tx.type = ETH_TX_TYPE_0
    THEN IF AtLeast(tx.f["v"], EIP155_CHAIN_ID_OFFSET)
         THEN get_length_prefix_list(Len(fields) + 3) \o fields \o tx.f["chain_id"] \o <<128, 128>>
         ELSE get_length_prefix_list(Len(fields)) \o fields
    ELSE <<tx.type>> \o get_length_prefix_list(Len(fields)) \o fields

BytesFromTo(first, last) ==
    BytesAt(first.view, first.start, last.start + last.val + last.length - first.start)

get_unsigned_msg(tx) ==
    Unsigned(tx, BytesFromTo(Head(tx.list),
                    tx.list[FieldIndex(tx.type, IF tx.type = 0 THEN "data" ELSE "access_list")]))

(* Signature::encode_signature: r and s at the ends of their halves, and   *)
(* the parity.  For a v from 27 to 35 the parity is v - 27.                *)
MAX_R_SIZE == 32
SIGNATURE_LEN == 65
InsertedAt(seq, at, bytes) == SubSeq(seq, 1, at) \o bytes \o SubSeq(seq, at + 1, Len(seq))

Parity(tx) ==
    IF tx.type # ETH_TX_TYPE_0 THEN tx.f["y_parity"][1]
    ELSE IF AtLeast(tx.f["v"], EIP155_CHAIN_ID_OFFSET + 1) THEN (LowByte(tx.f["v"]) + 1) % 2
    ELSE (LowByte(tx.f["v"]) - 27) % 256

encode_signature(tx) ==
    LET zeros == [i \in 1..SIGNATURE_LEN |-> 0]
        withR == InsertedAt(zeros, MAX_R_SIZE - Len(tx.f["r"]), tx.f["r"])
        withS == InsertedAt(withR, 2 * MAX_R_SIZE - Len(tx.f["s"]), tx.f["s"])
    IN  IF tx.type = ETH_TX_TYPE_0 /\ Parity(tx) > 1 THEN Throw
        ELSE SubSeq(withS, 1, SIGNATURE_LEN - 1) \o <<Parity(tx)>>

(* _access_list_json: one entry for each item of the list's contents. *)
Strings(list) == [i \in DOMAIN list |-> as_rlp_string(list[i])]
AccessEntry(view, pair) ==
    [address |-> as_rlp_string(pair[1]), storageKeys |-> Strings(get_rlp_list(RlpAt(view, pair[2].start)))]

RECURSIVE AccessEntries(_, _)
AccessEntriesFrom(view, entry) ==
    <<AccessEntry(view, get_rlp_list(entry))>> \o AccessEntries(view, entry.length + entry.val)
AccessEntries(view, from) ==
    IF from >= view.size THEN << >> ELSE AccessEntriesFrom(view, RlpAt(view, from))

(* to_hex_string prints an unsigned char of every element: of the 64-bit   *)
(* chunks of the value, the low byte.                                      *)
HexOfChunks(chunks) == [i \in DOMAIN chunks |-> LowByte(chunks[i])]

(* The keys to_json prints, by type, and the member behind each. *)
GasKeys == [gasPrice |-> "gas_price", gas |-> "gas_limit"]
ListKeys == [v |-> "y_parity", chainId |-> "chain_id", accessList |-> "access_list"]

(* Fault variant: the two fees of a type 2 transaction change places. *)
FeeKeysSwapped ==
    [maxPriorityFeePerGas |-> "max_fee_per_gas", maxFeePerGas |-> "max_priority_fee_per_gas",
     startGas |-> "gas_limit"]

FeeKeys ==
    [maxPriorityFeePerGas |-> "max_priority_fee_per_gas", maxFeePerGas |-> "max_fee_per_gas",
     startGas |-> "gas_limit"]

JsonKeys(type) ==
    [nonce |-> "nonce", to |-> "to", value |-> "value", data |-> "data", r |-> "r", s |-> "s"]
      @@ CASE type = 0 -> GasKeys @@ [v |-> "v"]
           [] type = 1 -> GasKeys @@ ListKeys
           [] type = 2 -> FeeKeys @@ ListKeys

Printed(key, member) ==
    CASE key = "value" -> HexOfChunks(member)
      [] key = "accessList" -> AccessEntries(Whole(member), 0)
      [] key = "v" -> Word(Padded(member, 2))
      [] OTHER -> member
to_json(tx) == [k \in DOMAIN JsonKeys(tx.type) |-> Printed(k, tx.f[JsonKeys(tx.type)[k]])]

(***************************************************************************)
(* EthTxsMessage and EthMessageParser: the transactions of a message, with *)
(* their contents decoded and without.                                     *)
(***************************************************************************)
RECURSIVE DecodeTxs(_, _, _)
DecodeTxsFrom(view, offset, end, tx) ==
    IF tx = Throw THEN <<Throw>>
    ELSE IF tx.next = offset THEN <<Throw>>
    ELSE <<tx>> \o DecodeTxs(view, tx.next, end)
DecodeTxs(view, offset, end) ==
    IF offset >= end THEN << >> ELSE DecodeTxsFrom(view, offset, end, decode(view, offset))

DecodeTxsIn(view, p) == DecodeTxs(view, p.offset, ItemEnd(p))
DecodeTxsMessage(view) == DecodeTxsIn(view, consume_length_prefix(view, 0))

ParsedTx(hash, length, offset) == [hash |-> hash, length |-> length, offset |-> offset]

(* What the hash of the transaction at offset with prefix p covers. *)
TxHashed(view, offset, p) ==
    IF p.type = RLP_LIST THEN BytesAt(view, offset, ItemEnd(p) - offset) ELSE BytesAt(view, p.offset, p.length)

RECURSIVE ParseTxs(_, _, _)
ParseTxsFrom(view, offset, end, p) ==
    IF Failed(p) THEN <<Throw>>
    ELSE <<ParsedTx(TxHashed(view, offset, p), ItemEnd(p) - offset, offset)>> \o ParseTxs(view, ItemEnd(p), end)
ParseTxs(view, offset, end) ==
    IF offset >= end THEN << >> ELSE ParseTxsFrom(view, offset, end, consume_length_prefix(view, offset))

ParseTxsIn(view, p) == ParseTxs(view, p.offset, ItemEnd(p))
eth_parse_transactions_message(view) == ParseTxsIn(view, consume_length_prefix(view, 0))
============================================================================
