---------------------------- MODULE SenderNonces ----------------------------
(***************************************************************************)
(* The sender nonces that EthTransactionValidator keeps for the service,   *)
(* to refuse a transaction of a sender and nonce that passed shortly       *)
(* before, unless it pays enough more.                                     *)
(*                                                                         *)
(* Of the rest of the service the module has the set of transactions that  *)
(* are not new: those with contents in the maps and those in the history   *)
(* of removed ones.  The node calls the service from one thread, so a call *)
(* is an action; a call that changes nothing is no action.  The clock is   *)
(* in seconds and does not go back.                                        *)
(***************************************************************************)
EXTENDS Integers, Sequences, OrderedMaps

CONSTANTS
    Txs,          \* transactions
    Sender,       \* Sender[tx]: the sender and nonce that sign it
    Price,        \* Price[tx]: its gas price
    Form,         \* Form[tx]: "good", or what the parser or the signature says
    MinFee,       \* min_tx_network_fee
    Settings,     \* [age, num, den]: values of set_sender_nonce_reuse_setting
    MaxTime,      \* bound on the clock
    MaxPasses     \* bound on the transactions that pass the nonce check

ASSUME NoncesAssumption ==
    /\ Price \in [Txs -> Nat]
    /\ Form \in [Txs -> {"good", "invalid_format", "invalid_signature"}]
    /\ MinFee \in Nat
    /\ Settings \subseteq [age : Nat \ {0}, num : Nat, den : Nat \ {0}]
    /\ Settings # {}
    /\ MaxTime \in Nat
    /\ MaxPasses \in Nat

VARIABLES
    now,        \* the clock: current_time of the calls, never 0
    known,      \* transactions with contents, or in the history of removed ones
    nonces,     \* sender_nonce_map: deadline and price by sender and nonce
    setting,    \* _allowed_time and _allowed_gas_price_factor
    passed,     \* history: the transactions that passed the check, in order
    clearedAt   \* history: the time of the last clear_sender_nonce

noncesVars == <<now, known, nonces, setting, passed, clearedAt>>

NoncesInit ==
    /\ now = 1
    /\ known = {}
    /\ nonces = <<>>
    /\ setting \in Settings
    /\ passed = <<>>
    /\ clearedAt = 0

-----------------------------------------------------------------------------
\* (uint64_t)(curr_gas_price * factor)
Scaled(price, s) == (price * s.num) \div s.den

RefusesOn(item, tx, time) ==
    time < item.val.deadline /\ Price[tx] < item.val.price

Reused(tx, time) ==
    /\ time > 0
    /\ Sender[tx] \in Keys(nonces)
    /\ RefusesOn(nonces[Position(nonces, Sender[tx])], tx, time)

\* transaction_validation.  The path from a blockchain node gives a time of 0,
\* which leaves the nonces out.
TransactionValidation(tx, time) ==
    CASE Form[tx] # "good" -> Form[tx]
      [] Form[tx] = "good" /\ Price[tx] < MinFee -> "invalid_low_fee"
      [] OTHER -> IF Reused(tx, time) THEN "reuse_sender_nonce" ELSE "valid_tx"

Entry(tx) == [deadline |-> now + setting.age, price |-> Scaled(Price[tx], setting)]

Pass(tx) == [tx |-> tx, time |-> now, setting |-> setting, cleared |-> clearedAt]

\* Fault variant: a pass is not registered.
RegisterNothing(tx) ==
    /\ passed' = Append(passed, Pass(tx))
    /\ UNCHANGED nonces

\* emplace keeps the deadline and the price of a sender and nonce that is in the
\* map, whether they are over or not.
RegisterNonce(tx) ==
    /\ nonces' = Emplaced(nonces, Sender[tx], Entry(tx))
    /\ passed' = Append(passed, Pass(tx))

\* process_transaction_msg with contents, for a transaction that is new.  With a
\* short id it is not validated; without one, a refusal or a bad form ends the
\* call, and a fee that is too low stores the contents but not the nonce.
ProcessTransactionMsg(tx, hasShortId) ==
    LET status == IF hasShortId THEN "valid_tx" ELSE TransactionValidation(tx, now)
    IN  /\ tx \notin known
        /\ status \in {"valid_tx", "invalid_low_fee"}
        /\ known' = known \cup {tx}
        /\ IF status = "valid_tx" /\ ~hasShortId
           THEN Len(passed) < MaxPasses /\ RegisterNonce(tx)
           ELSE UNCHANGED <<nonces, passed>>
        /\ UNCHANGED <<now, setting, clearedAt>>

\* process_gateway_transaction_from_node stores the contents whatever the
\* validation answers.
ProcessGatewayTransactionFromNode(tx) ==
    /\ tx \notin known
    /\ TransactionValidation(tx, 0) # "reuse_sender_nonce"
    /\ known' = known \cup {tx}
    /\ UNCHANGED <<now, nonces, setting, passed, clearedAt>>

\* A transaction leaves the maps with clear(), or the history with its clean-up:
\* it is new again, and its nonce is still registered.
BecomeNew(tx) ==
    /\ tx \in known
    /\ known' = known \ {tx}
    /\ UNCHANGED <<now, nonces, setting, passed, clearedAt>>

SetSenderNonceReuseSetting(s) ==
    /\ setting' = s
    /\ UNCHANGED <<now, known, nonces, passed, clearedAt>>

\* Fault variant: an entry is kept for the second in which it is over.
OverLate(i) == nonces[i].val.deadline < now

Over(i) == nonces[i].val.deadline <= now

\* clear_sender_nonce erases from the front up to the first entry that is not over.
ClearSenderNonce ==
    /\ nonces' = FrontErased(nonces, {i \in DOMAIN nonces : Over(i)})
    /\ clearedAt' = now
    /\ UNCHANGED <<now, known, setting, passed>>

Tick ==
    /\ now < MaxTime
    /\ now' = now + 1
    /\ UNCHANGED <<known, nonces, setting, passed, clearedAt>>

NoncesNext ==
    \/ \E tx \in Txs :
          \/ \E b \in BOOLEAN : ProcessTransactionMsg(tx, b)
          \/ ProcessGatewayTransactionFromNode(tx)
          \/ BecomeNew(tx)
    \/ \E s \in Settings : SetSenderNonceReuseSetting(s)
    \/ ClearSenderNonce
    \/ Tick

NoncesSpec == NoncesInit /\ [][NoncesNext]_noncesVars

-----------------------------------------------------------------------------
Against(tx, pass) ==
    /\ Sender[pass.tx] = Sender[tx]
    /\ now < pass.time + pass.setting.age
    /\ Price[tx] < Scaled(Price[pass.tx], pass.setting)

RefusalJustified ==
    \A tx \in Txs :
        TransactionValidation(tx, now) = "reuse_sender_nonce"
            => \E i \in DOMAIN passed : Against(tx, passed[i])

\* The entry of an earlier pass of the same sender and nonce may have been in the
\* map when pass i was made, so that emplace did not register it.
Shadowed(i) ==
    \E j \in 1..(i - 1) :
        /\ Sender[passed[j].tx] = Sender[passed[i].tx]
        /\ \/ passed[j].time + passed[j].setting.age > passed[i].cleared
           \/ \E k \in 1..(i - 1) : passed[k].setting # passed[j].setting

ReuseRefused ==
    \A tx \in Txs, i \in DOMAIN passed :
        /\ Form[tx] = "good"
        /\ Price[tx] >= MinFee
        /\ Against(tx, passed[i])
        /\ ~Shadowed(i)
        => TransactionValidation(tx, now) = "reuse_sender_nonce"

\* A transaction is refused only if one of the same sender and nonce passed
\* shortly before and it pays too little more, by the setting at that time.  And
\* then it is refused, through every clear_sender_nonce and every change of the
\* setting in between, if that one registered its nonce: one that found an older
\* entry in the map, over or not, did not.
NoncesRefused == RefusalJustified /\ ReuseRefused

\* An entry that was over at the last clear_sender_nonce is left only behind one
\* that was not, which takes a change of the setting.
OverNoncesCleared ==
    \A j \in DOMAIN nonces :
        nonces[j].val.deadline <= clearedAt
            => \E i \in 1..(j - 1) :
                  /\ nonces[i].val.deadline > clearedAt
                  /\ \E k, l \in DOMAIN passed : passed[k].setting # passed[l].setting

=============================================================================
