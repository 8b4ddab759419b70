---------------------------- MODULE NodeMessages ----------------------------
(***************************************************************************)
(* The messages as the blockchains' nodes write them: the reference        *)
(* encodings that the readers and writers of utils/protocols are checked   *)
(* against.  Nothing here translates code of the repository; the           *)
(* definitions follow what that code expects to read, and use the RLP      *)
(* rules without the functions of rlp_encoder.h.                           *)
(***************************************************************************)
EXTENDS Buffers

Fill(byte, n) == [i \in 1..n |-> byte]
LittleEndian(n, size) == [i \in 1..size |-> (n \div 256^(i - 1)) % 256]
VarInt(n) == IF n < 253 THEN <<n>> ELSE <<253>> \o LittleEndian(n, 2)
VarBytes(bytes) == VarInt(Len(bytes)) \o bytes
Flatten(seq, enc(_)) == FlattenSeq([i \in DOMAIN seq |-> enc(seq[i])])

(***************************************************************************)
(* Ethereum.  A transaction is a record with its type and, in order, its   *)
(* fields: byte strings, and for the access list its entries.              *)
(***************************************************************************)
RlpPrefix(base, n) ==
    IF n < 56 THEN <<base + n>>
    ELSE IF n < 256 THEN <<base + 56, n>>
    ELSE <<base + 57, n \div 256, n % 256>>
RlpString(bytes) ==
    IF Len(bytes) = 1 /\ bytes[1] < 128 THEN bytes ELSE RlpPrefix(128, Len(bytes)) \o bytes
RlpList(items) == LET body == FlattenSeq(items) IN RlpPrefix(192, Len(body)) \o body

AccessList(entries) ==
    RlpList([i \in DOMAIN entries |->
        RlpList(<<RlpString(entries[i].address),
                  RlpList([k \in DOMAIN entries[i].storageKeys |-> RlpString(entries[i].storageKeys[k])])>>)])

EthFields(tx) == [i \in DOMAIN tx.fields |->
                     IF i = tx.accessAt THEN AccessList(tx.fields[i]) ELSE RlpString(tx.fields[i])]

(* What the hash of a transaction covers, and its form in messages and     *)
(* blocks: wrapped says that a legacy transaction comes as a string.       *)
EthTxHashed(tx) == (IF tx.type = 0 THEN << >> ELSE <<tx.type>>) \o RlpList(EthFields(tx))
EthTxBytes(tx) ==
    IF tx.type = 0 /\ ~tx.wrapped THEN EthTxHashed(tx)
    ELSE RlpString((IF tx.type = 0 THEN <<0>> ELSE << >>) \o EthTxHashed(tx))

(* What the sender signed (EIP-155 for a v from 35 on). *)
EthTxSigned(tx) ==
    LET unsigned == SubSeq(EthFields(tx), 1, Len(tx.fields) - 3)
        v == NumberOf(tx.fields[Len(tx.fields) - 2])
    IN  IF tx.type # 0 THEN <<tx.type>> \o RlpList(unsigned)
        ELSE IF v >= 35
             THEN RlpList(unsigned \o <<RlpString(WordOf((v - 35) \div 2)), <<128>>, <<128>>>>)
             ELSE RlpList(unsigned)

(* The fields' names in JSON, in their order. *)
EthJsonOrder(type) ==
    CASE type = 0 -> <<"nonce", "gasPrice", "gas", "to", "value", "data", "v", "r", "s">>
      [] type = 1 -> <<"chainId", "nonce", "gasPrice", "gas", "to", "value", "data", "accessList", "v", "r", "s">>
      [] type = 2 -> <<"chainId", "nonce", "maxPriorityFeePerGas", "maxFeePerGas", "startGas", "to", "value",
                       "data", "accessList", "v", "r", "s">>

(* The header is the list of its fields; uncles are headers. *)
EthHeader(fields) == RlpList([i \in DOMAIN fields |-> RlpString(fields[i])])
EthBlock(header, txs, uncles) ==
    RlpList(<<EthHeader(header), RlpList([i \in DOMAIN txs |-> EthTxBytes(txs[i])]),
              RlpList([i \in DOMAIN uncles |-> EthHeader(uncles[i])]), <<1>>>>)

(***************************************************************************)
(* Bitcoin.  A transaction has scripts for its inputs and outputs and, for *)
(* a segregated witness, a stack of byte strings for each input.           *)
(***************************************************************************)
BtcVersion(tx) == <<tx.version, 0, 0, 0>>
BtcBody(tx) ==
    VarInt(Len(tx.ins)) \o Flatten(tx.ins, LAMBDA s : Fill(7, 36) \o VarBytes(s) \o Fill(255, 4))
      \o VarInt(Len(tx.outs)) \o Flatten(tx.outs, LAMBDA s : Fill(9, 8) \o VarBytes(s))
BtcTx(tx) ==
    BtcVersion(tx) \o (IF tx.witness = << >> THEN << >> ELSE <<0, 1>>) \o BtcBody(tx)
      \o Flatten(tx.witness, LAMBDA stack : VarInt(Len(stack)) \o Flatten(stack, VarBytes))
      \o <<tx.lock, 0, 0, 0>>
BtcTxHashed(tx) == BtcVersion(tx) \o BtcBody(tx) \o <<tx.lock, 0, 0, 0>>

BtcMagic == <<249, 190, 180, 217>>
BtcBlockType == <<98, 108, 111, 99, 107, 0, 0, 0, 0, 0, 0, 0>>
(* Stands for the first four bytes of the double hash. *)
Checksum(payload) == LittleEndian(Len(payload) + payload[1], 4)
BtcHeader == <<4, 0, 0, 0>> \o [i \in 1..76 |-> i]

BtcBlock(txs) ==
    LET payload == BtcHeader \o VarInt(Len(txs)) \o Flatten(txs, BtcTx)
    IN  BtcMagic \o BtcBlockType \o LittleEndian(Len(payload), 4) \o Checksum(payload) \o payload

(* The compact id of a transaction; txs[i] is prefilled for i in prefilled, *)
(* and its index is given as the number of compact ids before it since the *)
(* last one (BIP 152).                                                     *)
CompactId(tx) == <<tx.lock, 1, 2, 3, 4, 5>>
BtcCompactBlock(txs, prefilled) ==
    LET indices == [i \in DOMAIN txs |-> i]
        compact == SelectSeq(indices, LAMBDA i : i \notin prefilled)
        full == SelectSeq(indices, LAMBDA i : i \in prefilled)
        before(k) == full[k] - (IF k = 1 THEN 0 ELSE full[k - 1]) - 1
    IN  BtcMagic \o Fill(0, 20) \o BtcHeader \o Fill(6, 8)
          \o VarInt(Len(compact)) \o Flatten(compact, LAMBDA i : CompactId(txs[i]))
          \o VarInt(Len(full))
          \o FlattenSeq([k \in DOMAIN full |-> VarInt(before(k)) \o BtcTx(txs[full[k]])])

(***************************************************************************)
(* Ontology.  A deployment has six strings, an invocation one.             *)
(***************************************************************************)
OntTxHashed(tx) ==
    <<tx.version, IF tx.deploy THEN 208 ELSE 209>> \o Fill(tx.nonce, 40)
      \o (IF tx.deploy THEN VarBytes(tx.code) \o <<1>> \o FlattenSeq([i \in 1..5 |-> VarBytes(tx.code)])
          ELSE VarBytes(tx.code))
      \o VarInt(0)
OntTx(tx) ==
    OntTxHashed(tx) \o VarInt(Len(tx.sigs)) \o Flatten(tx.sigs, LAMBDA s : VarBytes(s) \o VarBytes(s))

OntHeaderHashed == <<0, 0, 0, 0>> \o [i \in 1..112 |-> i] \o VarBytes(Fill(3, 5)) \o Fill(8, 20)
OntBlockBody(txs) ==
    OntHeaderHashed \o VarInt(1) \o VarBytes(Fill(2, 33)) \o VarInt(2) \o VarBytes(<<1>>) \o VarBytes(<<1, 2>>)
      \o LittleEndian(Len(txs), 4) \o Flatten(txs, OntTx)
OntBlock(txs) ==
    LET payload == OntBlockBody(txs) \o Fill(17, 32)
    IN  Fill(5, 16) \o LittleEndian(Len(payload), 4) \o Fill(4, 4) \o payload

(* base64 by its definition: six bits of the text at a time. *)
Base64(bytes) ==
    LET bit(k) == IF k \div 8 < Len(bytes) THEN (bytes[k \div 8 + 1] \div 2^(7 - (k % 8))) % 2 ELSE 0
        six(c) == 32 * bit(6*c) + 16 * bit(6*c + 1) + 8 * bit(6*c + 2) + 4 * bit(6*c + 3)
                    + 2 * bit(6*c + 4) + bit(6*c + 5)
        chars == (8 * Len(bytes) + 5) \div 6
    IN  [c \in 1..(4 * ((Len(bytes) + 2) \div 3)) |-> IF c <= chars THEN six(c - 1) ELSE 64]

(* A consensus message: the block behind its length and a tail, as JSON. *)
OntConsensus(txs, tail, owner) ==
    LET decoded == VarBytes(OntBlockBody(txs)) \o tail
        json == <<7>> \o LittleEndian(Len(decoded), 4) \o Base64(decoded)
    IN  Fill(5, 70) \o VarBytes(json) \o owner
============================================================================
