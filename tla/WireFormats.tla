---------------------------- MODULE WireFormats ----------------------------
(***************************************************************************)
(* Messages on their way: a node's message is read or compressed, and what *)
(* was written is decompressed or processed by another gateway.  job says  *)
(* what is being done and with which input, wire is what was written and   *)
(* out what came of reading it.  The inputs are the nodes' encodings of    *)
(* NodeMessages.                                                           *)
(*                                                                         *)
(* A block comes with the set of positions whose transactions both         *)
(* gateways know under a short id.                                         *)
(***************************************************************************)
EXTENDS EthBlocks, BtcMessages, OntMessages, ServiceMessages, NodeMessages

CONSTANTS
    None,
    RlpInputs,       \* bytes, and how many of them are in the view
    Ints,            \* 64-bit values
    EthMessages_,    \* sequences of Ethereum transactions
    EthBlockInputs,  \* header, transactions and uncles
    BtcBlockInputs,  \* sequences of Bitcoin transactions
    CompactInputs,   \* the ones that nodes send as compact blocks
    OntBlockInputs,  \* sequences of Ontology transactions
    ConsensusTails,  \* what follows the block in a consensus message
    Senders, Receivers,   \* what two services know
    Trailers         \* what follows the entries of a message

VARIABLES job, wire, out,
          bufferLength   \* _length of the compact compression task's output
vars == <<job, wire, out, bufferLength>>

Idle == [kind |-> "idle"]

Init == job = Idle /\ wire = None /\ out = None /\ bufferLength = 0

(* The jobs share nothing: those that do not use the compact task's output *)
(* are begun before it has one.                                            *)
Begin(newJob, written) ==
    /\ job = Idle
    /\ bufferLength = 0
    /\ job' = newJob
    /\ wire' = written
    /\ UNCHANGED <<out, bufferLength>>

Complete(kind, result) ==
    /\ job.kind = kind
    /\ out = None
    /\ out' = result
    /\ UNCHANGED <<job, wire, bufferLength>>

Finish ==
    /\ out # None
    /\ job' = Idle /\ wire' = None /\ out' = None
    /\ UNCHANGED bufferLength

Done(kind) == job.kind = kind /\ out # None

(* The short ids of the known transactions, and their contents. *)
Sid(i) == 100 + i
KnownOf(txs, known, hashed(_)) ==
    [h \in {hashed(txs[i]) : i \in known} |-> Sid(CHOOSE i \in known : hashed(txs[i]) = h)]
ContentsOf(txs, known, bytes(_)) == [s \in {Sid(i) : i \in known} |-> bytes(txs[s - 100])]

-----------------------------------------------------------------------------
(* RLP.                                                                    *)

ReadPrefix(input) ==
    Begin([kind |-> "prefix", input |-> input], input.bytes)
ReadPrefixDone ==
    Complete("prefix", consume_length_prefix(View(wire, 0, job.input.size), 0))

EncodeInt(word) == Begin([kind |-> "int", word |-> word], encode_int(word))
DecodeInt == Complete("int", decode_int(Whole(wire), 0))

-----------------------------------------------------------------------------
(* Ethereum.                                                               *)

EthTxMessage(txs) ==
    Begin([kind |-> "ethtxs", txs |-> txs], RlpList([i \in DOMAIN txs |-> EthTxBytes(txs[i])]))
ReadEthTxMessage ==
    Complete("ethtxs", [decoded |-> DecodeTxsMessage(Whole(wire)),
                        parsed |-> eth_parse_transactions_message(Whole(wire))])

NodeEthBlock(b) == EthBlock(b.header, b.txs, b.uncles)

CompressEth(b, known) ==
    Begin([kind |-> "eth", block |-> b, known |-> known],
          CompressEthBlock(Whole(NodeEthBlock(b)), KnownOf(b.txs, known, EthTxHashed)))
DecompressEth ==
    Complete("eth", DecompressEthBlock(Whole(wire), ContentsOf(job.block.txs, job.known, EthTxBytes)))

EthJson(b) == Begin([kind |-> "json", block |-> b], NodeEthBlock(b))
PrintEthJson == Complete("json", eth_block_to_json(Whole(wire)))

-----------------------------------------------------------------------------
(* Bitcoin.                                                                *)

CompressBtc(txs, known) ==
    Begin([kind |-> "btc", txs |-> txs, known |-> known],
          CompressBtcBlock(Whole(BtcBlock(txs)), KnownOf(txs, known, BtcTxHashed)))
DecompressBtc ==
    Complete("btc", DecompressBtcBlock(Whole(wire), ContentsOf(job.txs, job.known, BtcTx)))

(* What a fresh task makes of a compact block: the node is asked for the   *)
(* transactions at the missing positions.                                  *)
FoundIn(txs, candidates) ==
    [c \in {CompactId(txs[i]) : i \in candidates} |->
        LET i == CHOOSE i \in candidates : CompactId(txs[i]) = c
        IN  [sid |-> Sid(i), contents |-> BtcTx(txs[i])]]
Recovered(txs, missing) == [k \in DOMAIN missing |-> BtcTx(txs[missing[k]])]
CompressPlaceholders(txs, view, placeholders) ==
    CompressCompactBlock(view, placeholders, Recovered(txs, MissingIndices(placeholders)),
                         BtcMagic, BtcBlockType)
CompressCompactView(txs, prefilled, known, view) ==
    CompressPlaceholders(txs, view,
        MapPlaceholders(ParseCompactBlock(view, KnownOf(txs, known, BtcTxHashed)),
                        FoundIn(txs, known \ prefilled)))
CompactBytes(txs, prefilled, known) ==
    CompressCompactView(txs, prefilled, known, Whole(BtcCompactBlock(txs, prefilled)))

(* clear() zeroes the bytes of the last output and keeps its length; only  *)
(* resize, for the short ids, cuts it.                                     *)
OverOldOutput(bytes, shortIds, oldLength) ==
    IF shortIds > 0 \/ oldLength <= Len(bytes) THEN bytes ELSE bytes \o Zeros(oldLength - Len(bytes))

CompressCompact(txs, prefilled, known) ==
    /\ job = Idle
    /\ job' = [kind |-> "compact", txs |-> txs, prefilled |-> prefilled, known |-> known]
    /\ wire' = OverOldOutput(CompactBytes(txs, prefilled, known), Cardinality(known), bufferLength)
    /\ bufferLength' = Len(wire')
    /\ UNCHANGED out
DecompressCompact ==
    Complete("compact", DecompressBtcBlock(Whole(wire), ContentsOf(job.txs, job.known, BtcTx)))

-----------------------------------------------------------------------------
(* Ontology.                                                               *)

CompressOnt(txs, known) ==
    Begin([kind |-> "ont", txs |-> txs, known |-> known],
          CompressOntBlock(Whole(OntBlock(txs)), KnownOf(txs, known, OntTxHashed)))
DecompressOnt ==
    Complete("ont", DecompressOntBlock(Whole(wire), ContentsOf(job.txs, job.known, OntTx)))

OwnerAndSignature == Fill(12, 6)

CompressConsensusMessage(txs, tail, known) ==
    Begin([kind |-> "consensus", txs |-> txs, tail |-> tail, known |-> known],
          CompressConsensus(Whole(OntConsensus(txs, tail, OwnerAndSignature)),
                            KnownOf(txs, known, OntTxHashed)))
DecompressConsensusMessage ==
    /\ wire # Throw
    /\ Complete("consensus", DecompressConsensus(Whole(wire), ContentsOf(job.txs, job.known, OntTx)))
(* copy_from_buffer of an empty tail. *)
ConsensusRefused ==
    /\ job.kind = "consensus"
    /\ wire = Throw
    /\ Complete("consensus", Throw)

-----------------------------------------------------------------------------
(* Services.                                                               *)

Sync(sender, receiver, order, withContent, trailer) ==
    Begin([kind |-> "sync", sender |-> sender, receiver |-> receiver, order |-> order,
           withContent |-> withContent, trailer |-> trailer],
          Fill(3, HEADER_LENGTH + NETWORK_NUM_LEN) \o get_tx_sync_buffer(sender, order, withContent) \o trailer)
ReceiveSync == Complete("sync", process_tx_sync_message(job.receiver, Whole(wire)))

AskForShortIds(sender, receiver, asked) ==
    Begin([kind |-> "ask", sender |-> sender, receiver |-> receiver, asked |-> asked],
          get_transactions_by_short_ids(sender, Whole(Uint32(Len(asked)) \o Flatten(asked, Uint32))))
(* The found transactions, behind a header, are a message of their own. *)
FoundLength == Uint32At(Whole(wire), 0)
ReceiveTxs ==
    Complete("ask", process_txs_msg(job.receiver,
                        Whole(Fill(3, HEADER_LENGTH) \o BytesAt(Whole(wire), 4, FoundLength))))

Confirm(hash, sids, hashes) ==
    Begin([kind |-> "confirm", hash |-> hash, sids |-> sids, hashes |-> hashes],
          Fill(3, HEADER_LENGTH) \o hash \o Fill(5, 4) \o Fill(6, 16) \o LittleEndian(Len(sids), 4)
            \o Flatten(sids, LAMBDA s : LittleEndian(s, 4)) \o LittleEndian(Len(hashes), 4)
            \o FlattenSeq(hashes) \o <<1>>)
ReadConfirmation == Complete("confirm", ParseBlockConfirmation(Whole(wire)))

-----------------------------------------------------------------------------
Next ==
    \/ \E input \in RlpInputs : ReadPrefix(input)
    \/ ReadPrefixDone
    \/ \E word \in Ints : EncodeInt(word)
    \/ DecodeInt
    \/ \E txs \in EthMessages_ : EthTxMessage(txs)
    \/ ReadEthTxMessage
    \/ \E b \in EthBlockInputs : \E known \in SUBSET DOMAIN b.txs : CompressEth(b, known)
    \/ DecompressEth
    \/ \E b \in EthBlockInputs : EthJson(b)
    \/ PrintEthJson
    \/ \E txs \in BtcBlockInputs : \E known \in SUBSET DOMAIN txs : CompressBtc(txs, known)
    \/ DecompressBtc
    \/ \E txs \in CompactInputs : \E prefilled, known \in SUBSET DOMAIN txs :
          CompressCompact(txs, prefilled, known)
    \/ DecompressCompact
    \/ \E txs \in OntBlockInputs : \E known \in SUBSET DOMAIN txs : CompressOnt(txs, known)
    \/ DecompressOnt
    \/ \E txs \in OntBlockInputs, tail \in ConsensusTails : \E known \in SUBSET DOMAIN txs :
          CompressConsensusMessage(txs, tail, known)
    \/ DecompressConsensusMessage
    \/ ConsensusRefused
    \/ \E sender \in Senders, receiver \in Receivers, withContent \in BOOLEAN, trailer \in Trailers :
          \E order \in SetToSeqs(DOMAIN sender.contents) : Sync(sender, receiver, order, withContent, trailer)
    \/ ReceiveSync
    \/ \E sender \in Senders, receiver \in Receivers :
          \E asked \in SetToSeqs(DOMAIN sender.sidHash \cup {99}) : AskForShortIds(sender, receiver, asked)
    \/ ReceiveTxs
    \/ \E sender \in Senders : \E sids \in SetToSeqs(DOMAIN sender.sidHash),
                                   hashes \in SetToSeqs(DOMAIN sender.contents) :
          Confirm(Fill(77, 32), sids, hashes)
    \/ ReadConfirmation
    \/ Finish

Spec == Init /\ [][Next]_vars

-----------------------------------------------------------------------------
(* Properties.                                                             *)

(* The short ids behind a compressed block. *)
WrittenShortIds == DeserializeShortIds(Whole(wire), get_little_endian_value(Whole(wire), 0, 8))
SidsInOrder(known) == LET order == SetToSortSeq(known, <) IN [k \in DOMAIN order |-> Sid(order[k])]

BoundaryLengths == {0, 1, 55, 56, 255, 256, 257}
SmallByteAsString == wire[1] = 129 /\ wire[2] < 128
AcceptedCanonical ==
    Done("prefix") =>
       IF Failed(out)
       THEN job.input.size = 0 \/ SmallByteAsString
            \/ \A n \in BoundaryLengths, base \in {128, 192} : ~IsPrefix(RlpPrefix(base, n), wire)
       ELSE out.type # RLP_BYTE /\ out.length < 65536 =>
              LET base == IF out.type = RLP_STRING THEN 128 ELSE 192
              IN  /\ SubSeq(wire, 1, out.offset) = RlpPrefix(base, out.length)
                  /\ get_length_prefix(out.length, base) = RlpPrefix(base, out.length)

IntRoundTrip ==
    Done("int") =>
       /\ out = job.word
       /\ Len(job.word) \in (1..4) \cup {8} => wire = RlpString(job.word)

(* consume_length_prefix accepts the shortest form of a length and no      *)
(* other: what it accepts is what get_length_prefix writes, and what it    *)
(* refuses in a view that is not empty is no prefix a node writes.         *)
(* decode_int reads back what encode_int wrote, at every width, and the    *)
(* words of one to four and of eight bytes are written as nodes write      *)
(* them.                                                                   *)
RlpCanonical == AcceptedCanonical /\ IntRoundTrip

WrappedLegacy(tx) == tx.type = 0 /\ tx.wrapped
TwoParsersAgree ==
    Done("ethtxs") =>
       /\ Len(out.decoded) = Len(job.txs) /\ Len(out.parsed) = Len(job.txs)
       /\ \A i \in DOMAIN job.txs :
             LET d == out.decoded[i]
                 p == out.parsed[i]
             IN  /\ d.next = p.offset + p.length
                 /\ BytesAt(Whole(wire), p.offset, p.length) = EthTxBytes(job.txs[i])
                 /\ WrappedLegacy(job.txs[i]) <=>
                       EthTxHashed(job.txs[i]) # d.hash /\ EthTxHashed(job.txs[i]) # p.hash
                 /\ d.hash = p.hash <=> ~WrappedLegacy(job.txs[i])

(* v of a legacy transaction. *)
VOf(tx) == NumberOf(tx.fields[7])
SignatureOf(tx) ==
    LET n == Len(tx.fields)
        v == NumberOf(tx.fields[n - 2])
        parity == IF tx.type # 0 THEN v ELSE IF v >= 35 THEN (v - 35) % 2 ELSE v - 27
    IN  Padded(tx.fields[n - 1], 32) \o Padded(tx.fields[n], 32) \o <<parity>>
SignedExact ==
    Done("ethtxs") =>
       \A i \in DOMAIN job.txs :
          LET tx == job.txs[i]
          IN  /\ get_unsigned_msg(out.decoded[i]) # EthTxSigned(tx)
                    <=> tx.type = 0 /\ (VOf(tx) \in {35, 36} \/ VOf(tx) > 256)
              /\ encode_signature(out.decoded[i]) =
                    IF tx.type = 0 /\ VOf(tx) = 35 THEN Throw ELSE SignatureOf(tx)

(* EthTxsMessage, which decodes, and EthMessageParser, which does not,     *)
(* find the same transactions under the same hashes, and these are the     *)
(* nodes'. The exception is a legacy transaction inside a string, for      *)
(* which the two differ and neither has the node's hash. get_unsigned_msg  *)
(* rebuilds what the sender signed, except for a legacy transaction with a *)
(* v above 256, whose chain id decode computes in a byte, and with a v of  *)
(* 35 or 36, whose chain id of zero is written as the byte zero.           *)
(* encode_signature puts r, s and the parity where the recovery of the     *)
(* sender expects them, and throws at a v of 35.                           *)
EthTransactionsExact == TwoParsersAgree /\ SignedExact

(* Where field i starts in the bytes of a header. *)
FieldAt(header, i) ==
    Len(EthHeader(header)) - Len(Flatten(SubSeq(header, i + 1, Len(header)), RlpString)) - Len(header[i])
PrintedHeader(json, header, block) ==
    \A i \in DOMAIN HeaderFields :
       LET field == HeaderFields[i]
       IN  json[field] = CASE field \in HeaderHashes -> header[i]
                           [] field \in HeaderInts -> Word(header[i])
                           [] OTHER -> SubSeq(block, FieldAt(header, i) + 1, FieldAt(header, i) + Len(header[i]))
PrintedTx(json, tx) ==
    /\ DOMAIN json = Range(EthJsonOrder(tx.type))
    /\ \A i \in DOMAIN tx.fields :
          LET key == EthJsonOrder(tx.type)[i]
          IN  CASE key = "startGas" -> TRUE
                [] key = "value" -> (Word(json[key]) = tx.fields[i]) <=> (Len(tx.fields[i]) <= 1)
                [] OTHER -> json[key] = tx.fields[i]
(* The bytes from uncle k on; behind them is one byte more. *)
UnclesFrom(b, k) == Flatten(SubSeq(b.uncles, k, Len(b.uncles)), EthHeader)
UncleStart(b, k) == Len(NodeEthBlock(b)) - 1 - Len(UnclesFrom(b, k))

(* eth_block_to_json prints the hashes and the integers of the header, all *)
(* transactions and their fields, except the gas limit of type 2; of a     *)
(* value longer than a byte it does not print the bytes. For the miner,    *)
(* the roots, the bloom filter and the extra data it prints the bytes that *)
(* lie at the field's offset counted from the start of the block and not   *)
(* of the header, as BufferView::vector does not add the view's own. Of    *)
(* the uncles it prints, in order and by the same rule, exactly those that *)
(* start before the byte of the block whose offset is their common length. *)
(* The base fee, which is printed but never set, is left out.              *)
JsonExplained ==
    Done("json") =>
       /\ PrintedHeader(out.header, job.block.header, wire)
       /\ Len(out.transactions) = Len(job.block.txs)
       /\ \A i \in DOMAIN out.transactions : PrintedTx(out.transactions[i], job.block.txs[i])
       /\ DOMAIN out.uncles =
             {k \in DOMAIN job.block.uncles : UncleStart(job.block, k) < Len(UnclesFrom(job.block, 1))}
       /\ \A k \in DOMAIN out.uncles : PrintedHeader(out.uncles[k], job.block.uncles[k], wire)

EthRoundTrip ==
    Done("eth") =>
       /\ out = NodeEthBlock(job.block)
       /\ WrittenShortIds = SidsInOrder({i \in job.known : ~WrappedLegacy(job.block.txs[i])})

BtcRoundTrip ==
    Done("btc") =>
       /\ WrittenShortIds = SidsInOrder(job.known)
       /\ get_original_block_size(Whole(wire)) = Len(BtcBlock(job.txs))
       /\ out = IF \E i \in DOMAIN job.txs \ job.known : job.txs[i].version = BTC_SHORT_ID_INDICATOR
                THEN Throw ELSE BtcBlock(job.txs)

CompactRoundTrip ==
    Done("compact") =>
       (out = BtcBlock(job.txs)) <=> (\E k \in 0..Len(job.txs) : job.prefilled = 1..k)

OntRoundTrip ==
    Done("ont") =>
       /\ out = OntBlock(job.txs)
       /\ WrittenShortIds = SidsInOrder(job.known)
       /\ ont_get_original_block_size(Whole(wire)) = Len(out)

ConsensusRoundTrip ==
    Done("consensus") =>
       out = IF job.tail = << >> THEN Throw ELSE OntConsensus(job.txs, job.tail, OwnerAndSignature)

(* A block that one gateway compresses and another decompresses is the     *)
(* node's block again, whichever transactions are known, and every known   *)
(* one went as its short id, in the order of the block. Three exceptions:  *)
(* an unknown Bitcoin transaction whose version starts with the byte that  *)
(* marks a short id, so that its block is refused; a compact block whose   *)
(* prefilled transactions are not the first ones, as parse divides their   *)
(* distances by the size of a compact id (what the task's output held      *)
(* before makes no difference); a consensus message without a tail, which  *)
(* is refused.                                                             *)
BlocksRoundTrip ==
    EthRoundTrip /\ BtcRoundTrip /\ CompactRoundTrip /\ OntRoundTrip /\ ConsensusRoundTrip

(* What a service knows once it learnt the short ids sids and the contents *)
(* of the hashes from another: what it had is as it was.                   *)
Learnt(own, other, sids, hashes) ==
    Service([h \in DOMAIN own.contents \cup hashes |->
                IF h \in DOMAIN own.contents THEN own.contents[h] ELSE other.contents[h]],
            [s \in DOMAIN own.sidHash \cup sids |->
                IF s \in DOMAIN own.sidHash THEN own.sidHash[s] ELSE other.sidHash[s]])

SyncFaithful ==
    Done("sync") =>
       LET stored == Range(job.order)
       IN  /\ out.service = Learnt(job.receiver, job.sender,
                                   {s \in DOMAIN job.sender.sidHash : job.sender.sidHash[s] \in stored},
                                   IF job.withContent THEN stored ELSE {})
           /\ out.throws <=> (job.trailer = << >> /\ SidsOfHash(job.sender, Last(job.order)) = {})

Answered(s) ==
    s \in DOMAIN job.sender.sidHash /\ job.sender.sidHash[s] \in DOMAIN job.sender.contents
QueriesExact ==
    Done("ask") =>
       LET learnt == {s \in Range(job.asked) : Answered(s)}
       IN  out.service = Learnt(job.receiver, job.sender, learnt, {job.sender.sidHash[s] : s \in learnt})

ConfirmationRead ==
    Done("confirm") =>
       out = [block_hash |-> job.hash, short_ids |-> job.sids, tx_hashes |-> job.hashes]

(* A synchronisation teaches the receiver the short ids of the sender's    *)
(* transactions that have contents (those of the others are not sent) and, *)
(* when asked for, these contents. What the receiver had stays: a short id *)
(* keeps its hash and a hash its contents, also where the sender has       *)
(* others. The message is refused, after it was applied, exactly when      *)
(* nothing follows a last transaction without short ids. Of the short ids  *)
(* asked for, the receiver learns exactly those whose transactions the     *)
(* sender has, with the contents it lacks. The cleanup of a confirmed      *)
(* block finds the short ids and the hashes of the confirmation.           *)
ServicesAgree == SyncFaithful /\ QueriesExact /\ ConfirmationRead
============================================================================
