-------------------------- MODULE BlockCompression --------------------------
(***************************************************************************)
(* The block compression tasks: each transaction of a block is replaced by *)
(* a one-byte flag and its short id, or copied in full when it has no      *)
(* short id, when its short id is too young or when compression is off     *)
(* (the short id then counts as ignored).                                  *)
(*                                                                         *)
(* BtcBlockCompressionTask and OntBlockCompressionTask split the block over *)
(* sub tasks and collect their results in order; the Ethereum and the       *)
(* Ontology consensus tasks do the work of a single worker themselves.     *)
(* Workers read the transaction service without a lock while the thread    *)
(* that owns it assigns and removes short ids, so every call a worker makes *)
(* on the service is a step of its own.  A task object is used for block   *)
(* after block, and the caller may keep the output of an earlier one.      *)
(*                                                                         *)
(* A transaction is its hash, a block a sequence of them; the headers      *)
(* around the transactions are in EthBlocks, BtcMessages and OntMessages.  *)
(* What the pool does with the tasks, failures of sub tasks included, is   *)
(* in TaskPool; a block that makes _dispatch throw ends the use of the     *)
(* task object here.                                                       *)
(***************************************************************************)
EXTENDS Integers, Sequences, FiniteSets

CONSTANTS
    Protocols,   \* the task classes: "btc", "ont", "eth", "consensus"
    Hashes,      \* transactions
    Sids,        \* short ids
    HashOf,      \* the transaction a short id stands for while it is bound
    Blocks,      \* the blocks to compress: sequences of transactions
    PoolSize,    \* threads of the sub pool
    MinimalTx,   \* _minimal_tx_count
    StartBound,  \* short ids that are bound at first
    MaxBlocks,   \* bound: blocks a task object is used for
    MaxChanges   \* bound: changes of the service

Flag == "short id flag"   \* an entry of the output that is no transaction

ASSUME BlockCompressionAssumption ==
    /\ Protocols \subseteq {"btc", "ont", "eth", "consensus"}
    /\ Flag \notin Hashes
    /\ HashOf \in [Sids -> Hashes]
    /\ StartBound \subseteq Sids
    /\ \A b \in Blocks : b \in Seq(Hashes)
    /\ {PoolSize, MinimalTx} \subseteq Nat \ {0}

VARIABLES
    bound,     \* short ids that are bound
    old,       \* short ids assigned longer ago than min_tx_age_seconds
    task,      \* the task object
    worker,    \* its sub tasks; worker 0 is the task itself for eth and consensus
    kept,      \* the caller's pointer to an output: whether it is held and is to the
               \* task's buffer, what it showed when taken, its contents once apart
    crashed,   \* an iterator to no element has been dereferenced
    wasOld,    \* short ids that have been old at some time (for AgeRespected)
    changes    \* changes of the service so far

vars == <<bound, old, task, worker, kept, crashed, wasOld, changes>>

Workers == 0 .. PoolSize - 1
Split == {"btc", "ont"}
Nothing == <<>>

\* Sub task fields: what it reads, what it has produced, where it is in the loop.
NewWorker == [pc |-> "idle", todo |-> <<>>, ready |-> FALSE,
              out |-> <<>>, shortIds |-> <<>>, ignored |-> <<>>]

Init ==
    /\ bound = StartBound
    /\ old \in SUBSET bound
    /\ \E p \in Protocols :
          task = [proto |-> p, pc |-> "idle", block |-> <<>>, enabled |-> FALSE,
                  count |-> 0, idx |-> 0, out |-> <<>>, shortIds |-> <<>>,
                  ignored |-> <<>>, blocks |-> 0]
    /\ worker = [w \in Workers |-> NewWorker]
    /\ kept = [held |-> FALSE, same |-> FALSE, taken |-> Nothing, apart |-> Nothing]
    /\ crashed = FALSE
    /\ wasOld = old
    /\ changes = 0

\* The short ids of a transaction: tx_hash_to_short_ids.
SidsOf(h) == {s \in bound : HashOf[s] = h}

-----------------------------------------------------------------------------
(* init: the caller gives the task object another block.                    *)

\* The entries in the buffer of _output_buffer; a task that works alone writes them
\* there itself.
Buffer == IF task.proto \in Split \/ task.pc # "dispatch" THEN task.out ELSE worker[0].out

UseCount == IF kept.held /\ kept.same THEN 2 ELSE 1

\* Fault variant: the buffer is reset whoever holds it.
OutputOfAlways == kept

\* A buffer that somebody else holds stays with him and the task makes a new one;
\* any other is kept and reset.
OutputOf ==
    IF UseCount > 1 THEN [kept EXCEPT !.same = FALSE, !.apart = Buffer] ELSE kept

InitTask(b, on, ignored) ==
    /\ task.pc \in {"idle", "done"}
    /\ task.blocks < MaxBlocks
    /\ task' = [task EXCEPT !.pc = "dispatch", !.block = b, !.enabled = on,
                            !.count = 0, !.idx = 0, !.out = <<>>, !.shortIds = <<>>,
                            !.ignored = ignored, !.blocks = @ + 1]
    /\ kept' = OutputOf
    /\ UNCHANGED <<bound, old, crashed, wasOld, changes>>

\* _init_sub_tasks clears the offsets of the sub tasks.
ClearOffsets == worker' = [w \in Workers |-> [worker[w] EXCEPT !.todo = <<>>]]

\* A task that works alone starts at once, with its own vectors.
StartAlone(b, ignored) ==
    worker' = [worker EXCEPT ![0] = [NewWorker EXCEPT !.pc = "look", !.todo = b,
                                                      !.ignored = ignored]]

BtcInit(b, on) == task.proto = "btc" /\ InitTask(b, on, <<>>) /\ ClearOffsets

OntInit(b, on) == task.proto = "ont" /\ InitTask(b, on, <<>>) /\ ClearOffsets

EthInit(b, on) ==
    task.proto = "eth" /\ InitTask(b, on, <<>>) /\ StartAlone(b, <<>>)

\* init of the consensus task does not clear _ignored_short_ids.
ConsensusInit(b, on) ==
    /\ task.proto = "consensus"
    /\ InitTask(b, on, task.ignored)
    /\ StartAlone(b, task.ignored)

-----------------------------------------------------------------------------
(* _dispatch.                                                              *)

Larger(a, b) == IF a > b THEN a ELSE b
Smaller(a, b) == IF a < b THEN a ELSE b

BulkSize == Larger(Len(task.block) \div PoolSize, Larger(PoolSize, MinimalTx))

\* The sub task the next transaction goes to.
Target == Smaller(task.count \div BulkSize, PoolSize - 1)

\* Fault variant: a sub task is given all the offsets of the block.
EnqueuedWithAll(ws, w) ==
    [ws EXCEPT ![w].pc = "look", ![w].todo = task.block, ![w].out = <<>>,
               ![w].shortIds = <<>>, ![w].ignored = <<>>]

\* init of a Bitcoin sub task clears the short ids and the output, but not
\* _ignored_short_ids; that of an Ontology sub task clears all three.
BtcEnqueued(ws, w) ==
    [ws EXCEPT ![w].pc = "look", ![w].out = <<>>, ![w].shortIds = <<>>]

OntEnqueued(ws, w) ==
    [ws EXCEPT ![w].pc = "look", ![w].out = <<>>, ![w].shortIds = <<>>,
               ![w].ignored = <<>>]

Enqueued(ws, w) == IF task.proto = "btc" THEN BtcEnqueued(ws, w) ELSE OntEnqueued(ws, w)

\* One round of the loop: the offsets of the transaction go to its sub task, and
\* the sub task before it is enqueued when the index moves on.
DispatchNext ==
    /\ task.pc = "dispatch"
    /\ task.count < Len(task.block)
    /\ LET pushed == [worker EXCEPT ![Target].todo = Append(@, task.block[task.count + 1])] IN
       worker' = IF Target > task.idx THEN Enqueued(pushed, task.idx) ELSE pushed
    /\ task' = [task EXCEPT !.count = @ + 1, !.idx = Target]
    /\ UNCHANGED <<bound, old, kept, crashed, wasOld, changes>>

\* The last one is enqueued after the loop, also of an empty block.
DispatchLast ==
    /\ task.pc = "dispatch"
    /\ task.count = Len(task.block)
    /\ worker' = Enqueued(worker, task.idx)
    /\ task' = [task EXCEPT !.pc = "collect", !.count = task.idx, !.idx = 0]
    /\ UNCHANGED <<bound, old, kept, crashed, wasOld, changes>>

\* get_next_tx_offset finds the block malformed.
DispatchThrows ==
    /\ task.pc = "dispatch"
    /\ task.count < Len(task.block)
    /\ task' = [task EXCEPT !.pc = "failed"]
    /\ UNCHANGED <<bound, old, worker, kept, crashed, wasOld, changes>>

BtcDispatch == task.proto = "btc" /\ (DispatchNext \/ DispatchLast \/ DispatchThrows)

OntDispatch == task.proto = "ont" /\ (DispatchNext \/ DispatchLast \/ DispatchThrows)

-----------------------------------------------------------------------------
(* The loop over the transactions of a worker.                              *)

Current(w) == Head(worker[w].todo)

Becomes(w, fields) == worker' = [worker EXCEPT ![w] = fields]

\* The transaction is done with: on to the next.
Advance(r) == [r EXCEPT !.pc = "look", !.todo = Tail(@)]

CopiedInFull(w) == Advance([worker[w] EXCEPT !.out = Append(@, Current(w))])

\* The first has_short_id.  Without one the assign time stays 0: long ago.
Look(w) ==
    /\ worker[w].pc = "look"
    /\ worker[w].todo # <<>>
    /\ Becomes(w, [worker[w] EXCEPT
          !.pc = IF SidsOf(Current(w)) # {} THEN "age" ELSE "again",
          !.ready = TRUE])
    /\ UNCHANGED <<bound, old, task, kept, crashed, wasOld, changes>>

\* Ethereum keeps the first answer.
LookOnce(w) ==
    /\ worker[w].pc = "look"
    /\ worker[w].todo # <<>>
    /\ Becomes(w, IF SidsOf(Current(w)) # {}
                  THEN [worker[w] EXCEPT !.pc = "age"]
                  ELSE CopiedInFull(w))
    /\ UNCHANGED <<bound, old, task, kept, crashed, wasOld, changes>>

\* get_short_id and get_short_id_assign_time: of a transaction that has been
\* removed in between there is nothing to dereference.
ReadAge(w, next) ==
    /\ worker[w].pc = "age"
    /\ \/ /\ SidsOf(Current(w)) = {}
          /\ crashed' = TRUE
          /\ UNCHANGED worker
       \/ /\ \E s \in SidsOf(Current(w)) :
                Becomes(w, [worker[w] EXCEPT !.pc = next, !.ready = s \in old])
          /\ UNCHANGED crashed
    /\ UNCHANGED <<bound, old, task, kept, wasOld, changes>>

Use(w) == IF task.enabled /\ worker[w].ready THEN "take" ELSE "ignore"

\* The second has_short_id of all but Ethereum, and the decision.
LookAgain(w) ==
    /\ worker[w].pc = "again"
    /\ Becomes(w, IF SidsOf(Current(w)) = {} THEN CopiedInFull(w)
                  ELSE [worker[w] EXCEPT !.pc = Use(w)])
    /\ UNCHANGED <<bound, old, task, kept, crashed, wasOld, changes>>

\* Fault variant: whatever is bound is used.
DecideWithoutAge(w) ==
    /\ worker[w].pc = "decide"
    /\ Becomes(w, [worker[w] EXCEPT !.pc = IF task.enabled THEN "take" ELSE "ignore"])
    /\ UNCHANGED <<bound, old, task, kept, crashed, wasOld, changes>>

Decide(w) ==
    /\ worker[w].pc = "decide"
    /\ Becomes(w, [worker[w] EXCEPT !.pc = Use(w)])
    /\ UNCHANGED <<bound, old, task, kept, crashed, wasOld, changes>>

\* Fault variant: the flag is written and the short id left out.
TakeFlagOnly(r, s) == Advance([r EXCEPT !.out = Append(@, Flag)])

\* A flag in the output, the short id in the vector.
TakeShortId(r, s) ==
    Advance([r EXCEPT !.out = Append(@, Flag), !.shortIds = Append(@, s)])

IgnoreShortId(r, s) ==
    Advance([r EXCEPT !.out = Append(@, Head(r.todo)), !.ignored = Append(@, s)])

\* The last get_short_id: the set may have changed since the first.
Write(w) ==
    /\ worker[w].pc \in {"take", "ignore"}
    /\ \/ /\ SidsOf(Current(w)) = {}
          /\ crashed' = TRUE
          /\ UNCHANGED worker
       \/ /\ \E s \in SidsOf(Current(w)) :
                Becomes(w, IF worker[w].pc = "take" THEN TakeShortId(worker[w], s)
                           ELSE IgnoreShortId(worker[w], s))
          /\ UNCHANGED crashed
    /\ UNCHANGED <<bound, old, task, kept, wasOld, changes>>

Finished(w) == worker[w].pc = "look" /\ worker[w].todo = <<>>

BtcSubExecute(w) ==
    task.proto = "btc" /\ (Look(w) \/ ReadAge(w, "again") \/ LookAgain(w) \/ Write(w))

OntSubExecute(w) ==
    task.proto = "ont" /\ (Look(w) \/ ReadAge(w, "again") \/ LookAgain(w) \/ Write(w))

EthTransactions(w) ==
    task.proto = "eth" /\ (LookOnce(w) \/ ReadAge(w, "decide") \/ Decide(w) \/ Write(w))

ConsensusTransactions(w) ==
    task.proto = "consensus" /\ (Look(w) \/ ReadAge(w, "again") \/ LookAgain(w) \/ Write(w))

-----------------------------------------------------------------------------
(* The results.                                                            *)

\* Fault variant: sub tasks are collected as they finish.
CollectableInAnyOrder(w) == Finished(w)

\* wait is called on one sub task after the other.
Collectable(w) == Finished(w) /\ w = task.idx

\* _on_sub_task_completed.
Collect(w) ==
    /\ task.pc = "collect"
    /\ task.idx <= task.count
    /\ Collectable(w)
    /\ task' = [task EXCEPT !.idx = @ + 1, !.out = @ \o worker[w].out,
                            !.shortIds = @ \o worker[w].shortIds,
                            !.ignored = @ \o worker[w].ignored]
    /\ worker' = [worker EXCEPT ![w].pc = "idle"]
    /\ UNCHANGED <<bound, old, kept, crashed, wasOld, changes>>

BtcCollect(w) == task.proto = "btc" /\ Collect(w)

OntCollect(w) == task.proto = "ont" /\ Collect(w)

\* _set_output_buffer: the length and the short ids complete the message.
Finish ==
    /\ task.pc = "collect"
    /\ task.idx > task.count
    /\ task' = [task EXCEPT !.pc = "done"]
    /\ UNCHANGED <<bound, old, worker, kept, crashed, wasOld, changes>>

BtcFinish == task.proto = "btc" /\ Finish

OntFinish == task.proto = "ont" /\ Finish

FinishAlone ==
    /\ task.pc = "dispatch"
    /\ Finished(0)
    /\ task' = [task EXCEPT !.pc = "done", !.out = worker[0].out,
                            !.shortIds = worker[0].shortIds,
                            !.ignored = worker[0].ignored]
    /\ worker' = [worker EXCEPT ![0].pc = "idle"]
    /\ UNCHANGED <<bound, old, kept, crashed, wasOld, changes>>

EthFinish == task.proto = "eth" /\ FinishAlone

ConsensusFinish == task.proto = "consensus" /\ FinishAlone

\* The caller takes bx_block(), a shared pointer to the task's buffer, ...
KeepOutput ==
    /\ task.pc = "done"
    /\ ~kept.held
    /\ kept' = [held |-> TRUE, same |-> TRUE, taken |-> Buffer, apart |-> Nothing]
    /\ UNCHANGED <<bound, old, task, worker, crashed, wasOld, changes>>

\* ... and lets go of it at any time.
DropOutput ==
    /\ kept.held
    /\ kept' = [held |-> FALSE, same |-> FALSE, taken |-> Nothing, apart |-> Nothing]
    /\ UNCHANGED <<bound, old, task, worker, crashed, wasOld, changes>>

-----------------------------------------------------------------------------
(* The transaction service meanwhile.                                      *)

Change == changes < MaxChanges /\ changes' = changes + 1

AssignShortId(s) ==
    /\ Change
    /\ s \notin bound
    /\ bound' = bound \cup {s}
    /\ UNCHANGED <<old, task, worker, kept, crashed, wasOld>>

RemoveTransaction(h) ==
    /\ Change
    /\ SidsOf(h) # {}
    /\ bound' = bound \ SidsOf(h)
    /\ old' = old \ SidsOf(h)
    /\ UNCHANGED <<task, worker, kept, crashed, wasOld>>

\* min_tx_age_seconds pass.
Age(s) ==
    /\ Change
    /\ s \in bound \ old
    /\ old' = old \cup {s}
    /\ wasOld' = wasOld \cup {s}
    /\ UNCHANGED <<bound, task, worker, kept, crashed>>

-----------------------------------------------------------------------------
Next ==
    /\ ~crashed
    /\ \/ \E b \in Blocks, on \in BOOLEAN :
             BtcInit(b, on) \/ OntInit(b, on) \/ EthInit(b, on) \/ ConsensusInit(b, on)
       \/ BtcDispatch \/ OntDispatch
       \/ \E w \in Workers :
             \/ BtcSubExecute(w) \/ OntSubExecute(w)
             \/ EthTransactions(w) \/ ConsensusTransactions(w)
             \/ BtcCollect(w) \/ OntCollect(w)
       \/ BtcFinish \/ OntFinish \/ EthFinish \/ ConsensusFinish
       \/ KeepOutput \/ DropOutput
       \/ \E s \in Sids : AssignShortId(s) \/ Age(s)
       \/ \E h \in Hashes : RemoveTransaction(h)

Spec == Init /\ [][Next]_vars

-----------------------------------------------------------------------------
(* Properties.                                                             *)

\* The number of flags in the first n entries of an output.
FlagsUpTo(out, n) == Cardinality({i \in 1 .. n : out[i] = Flag})

\* What a peer makes of a compressed block: the flags stand for the short ids in
\* the order of the list.
Expanded(out, sids) ==
    [i \in DOMAIN out |->
        IF out[i] = Flag THEN HashOf[sids[FlagsUpTo(out, i)]] ELSE out[i]]

IgnoredOfThisBlock ==
    \A i \in DOMAIN task.ignored :
        \E k \in DOMAIN task.block :
            task.block[k] = HashOf[task.ignored[i]] /\ task.out[k] # Flag

\* A completed block stands for exactly the transactions it was made from, in
\* their order, with no short id too many: whatever the order in which the sub
\* tasks ran and whatever happened to the service between two of their reads.
\* The ignored short ids are of transactions of this block that were copied in
\* full.  (The Bitcoin sub tasks and the consensus task also report those of
\* earlier blocks.)
ResultExact ==
    task.pc = "done" =>
        /\ Len(task.shortIds) = FlagsUpTo(task.out, Len(task.out))
        /\ Expanded(task.out, task.shortIds) = task.block
        /\ task.proto \in {"ont", "eth"} => IgnoredOfThisBlock

\* The Ethereum task uses no short id that never reached min_tx_age_seconds, of
\* transactions with one short id.  (The others ask has_short_id twice; one that
\* is assigned in between passes with the assign time 0.)
AgeRespected ==
    task.proto = "eth" =>
        \A i \in DOMAIN worker[0].shortIds :
            LET s == worker[0].shortIds[i] IN
            (\A t \in Sids : HashOf[t] = HashOf[s] => t = s) => s \in wasOld

\* What the caller's pointer shows: the buffer the task writes to while it is the
\* same one.
Seen == IF kept.same THEN Buffer ELSE kept.apart

\* A caller goes on seeing the output it took, for as long as it holds it, while
\* the task object is reset and writes the next blocks: init must find out by
\* use_count whether the buffer is still its own.
KeptOutputStays == kept.held => Seen = kept.taken
=============================================================================
