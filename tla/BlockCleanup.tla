---------------------------- MODULE BlockCleanup ----------------------------
(***************************************************************************)
(* The cleanup tasks: what a confirmed block contains leaves the           *)
(* transaction service.                                                    *)
(*                                                                         *)
(* The Bitcoin and Ontology tasks let sub tasks collect the hashes of the   *)
(* block, those that are unknown and the short ids of the others, on the   *)
(* threads of the sub pool; cleanup, called by the owner of the service     *)
(* after the task completed, removes the hashes.  The sub tasks push into   *)
(* the same three vectors without a lock.  The confirmation task does all   *)
(* its work in cleanup: first by short ids, then by hashes, then the block  *)
(* leaves the window of blocks whose transactions await removal.           *)
(*                                                                         *)
(* A push_back is two steps: the end of the vector is read, then the        *)
(* element is stored and the end advanced.                                  *)
(***************************************************************************)
EXTENDS Integers, Sequences, FiniteSets, SequencesExt

CONSTANTS
    Protocols,     \* the task classes: "btc", "ont", "confirmation"
    Hashes,        \* transactions
    Sids,          \* short ids
    HashOf,        \* the transaction of a short id while it is bound
    SizeOf,        \* the size of the contents of a transaction
    StartBound,    \* short ids that are bound at first
    Blocks,        \* the blocks to clean up: sequences of transactions
    Confirmations, \* the messages of the confirmation task: [block, sids, hashes]
    PoolSize,      \* threads of the sub pool
    MinimalTx,     \* _minimal_tx_count
    MaxBlocks,     \* bound: blocks a task object is used for
    MaxChanges     \* bound: changes of the service

ASSUME BlockCleanupAssumption ==
    /\ Protocols \subseteq {"btc", "ont", "confirmation"}
    /\ IsFiniteSet(Hashes) /\ IsFiniteSet(Sids)
    /\ HashOf \in [Sids -> Hashes]
    /\ SizeOf \in [Hashes -> Nat]
    /\ StartBound \subseteq Sids
    /\ \A b \in Blocks : b \in Seq(Hashes)
    /\ \A c \in Confirmations : c.sids \in Seq(Sids) /\ c.hashes \in Seq(Hashes)
    /\ {PoolSize, MinimalTx} \subseteq Nat \ {0}

VARIABLES
    entries,   \* the hashes tx_hash_to_short_ids has an entry for
    bound,     \* short ids that are bound: the sets of those entries
    contents,  \* transactions whose contents are there
    window,    \* blocks of short_ids_seen_in_block
    task,      \* the task object
    vec,       \* _all_tx_hashes, _unknown_tx_hashes, _short_ids
    worker,    \* the sub tasks of the block
    crashed,   \* "no", or why memory has been used that is no longer there
    raced,     \* two sub tasks were in a push_back to the same vector
    lost,      \* transactions removed since the block was given to the task
    changes    \* changes of the service so far

service == <<entries, bound, contents, window>>
vars == <<entries, bound, contents, window, task, vec, worker, crashed, raced, lost, changes>>

Workers == 0 .. PoolSize - 1
Vectors == {"all", "unknown", "sids"}
Garbage == "garbage"
EmptyVectors == [v \in Vectors |-> <<>>]
SidsOf(h) == {s \in bound : HashOf[s] = h}

\* todo: the transactions of the sub task; left: short ids still to push; pushes:
\* what is still to be pushed for the current one; pos: the end of the vector read.
NewWorker == [pc |-> "idle", todo |-> <<>>, left |-> {}, pushes |-> <<>>, pos |-> 0]

NoBlock == [block |-> "none", sids |-> <<>>, hashes |-> <<>>]

Init ==
    /\ bound = StartBound
    /\ entries = {HashOf[s] : s \in StartBound}
    /\ contents = entries
    /\ window = {c.block : c \in Confirmations}
    /\ \E p \in Protocols :
          task = [proto |-> p, pc |-> "idle", block |-> <<>>, msg |-> NoBlock, count |-> 0,
                  idx |-> 0, total |-> 0, threw |-> FALSE, blocks |-> 0]
    /\ vec = EmptyVectors
    /\ worker = [w \in Workers |-> NewWorker]
    /\ crashed = "no" /\ raced = FALSE /\ lost = {} /\ changes = 0

Running(w) == worker[w].pc \notin {"idle", "completed", "failed"}

-----------------------------------------------------------------------------
(* init.                                                                   *)

\* Sub tasks of a block that made the task throw may still push.
InitTask(b, m, total) ==
    /\ task.pc \in {"idle", "cleaned", "failed"}
    /\ task.blocks < MaxBlocks
    /\ task' = [task EXCEPT !.pc = "execute", !.block = b, !.msg = m, !.count = 0,
                            !.idx = 0, !.total = total, !.blocks = @ + 1]
    /\ vec' = EmptyVectors
    /\ crashed' = IF \E w \in Workers : Running(w) THEN "vectors_cleared" ELSE crashed
    /\ worker' = [w \in Workers |-> NewWorker]
    /\ raced' = FALSE
    /\ lost' = {}
    /\ UNCHANGED <<service, changes>>

\* Bitcoin leaves _total_content_removed as it was.
BtcInit(b) == task.proto = "btc" /\ InitTask(b, NoBlock, task.total)

OntInit(b) == task.proto = "ont" /\ InitTask(b, NoBlock, 0)

ConfirmationInit(c) == task.proto = "confirmation" /\ InitTask(<<>>, c, 0)

-----------------------------------------------------------------------------
(* _execute: the transactions are handed out and the sub tasks waited for. *)

Larger(a, b) == IF a > b THEN a ELSE b
Smaller(a, b) == IF a < b THEN a ELSE b

BulkSize == Larger(Len(task.block) \div PoolSize, Larger(PoolSize, MinimalTx))
NextIdx == Smaller(task.count \div BulkSize, PoolSize - 1)

\* The offsets collected so far, the current transaction included, go to a new
\* sub task when the index moves on.
DispatchNext ==
    /\ task.pc = "execute"
    /\ task.count < Len(task.block)
    /\ LET pushed == [worker EXCEPT ![task.idx].todo = Append(@, task.block[task.count + 1])] IN
       worker' = IF NextIdx > task.idx THEN [pushed EXCEPT ![task.idx].pc = "look"] ELSE pushed
    /\ task' = [task EXCEPT !.count = @ + 1, !.idx = NextIdx]
    /\ UNCHANGED <<service, vec, crashed, raced, lost, changes>>

DispatchLast ==
    /\ task.pc = "execute"
    /\ task.count = Len(task.block)
    /\ worker' = [worker EXCEPT ![task.idx].pc = "look"]
    /\ task' = [task EXCEPT !.pc = "wait"]
    /\ UNCHANGED <<service, vec, crashed, raced, lost, changes>>

\* get_next_tx_offset finds the block malformed.
DispatchThrows ==
    /\ task.pc = "execute"
    /\ task.count < Len(task.block)
    /\ task' = [task EXCEPT !.pc = "failed", !.threw = TRUE]
    /\ UNCHANGED <<service, vec, worker, crashed, raced, lost, changes>>

\* Fault variant: the last sub task is not waited for.
AwaitedButLast == {w \in Workers : w < task.idx}

Awaited == {w \in Workers : w <= task.idx}

WaitForAll ==
    /\ task.pc = "wait"
    /\ \A w \in Awaited : worker[w].pc = "completed"
    /\ task' = [task EXCEPT !.pc = "done"]
    /\ UNCHANGED <<service, vec, worker, crashed, raced, lost, changes>>

\* The wait for a sub task that failed throws its error; sub tasks after it may
\* still run.
WaitThrows ==
    /\ task.pc = "wait"
    /\ \E w \in Awaited :
          /\ worker[w].pc = "failed"
          /\ \A u \in Awaited : u < w => worker[u].pc = "completed"
    /\ task' = [task EXCEPT !.pc = "failed", !.threw = TRUE]
    /\ UNCHANGED <<service, vec, worker, crashed, raced, lost, changes>>

Execute == DispatchNext \/ DispatchLast \/ DispatchThrows \/ WaitForAll \/ WaitThrows

BtcExecute == task.proto = "btc" /\ Execute

OntExecute == task.proto = "ont" /\ Execute

\* _execute of the confirmation task is empty.
ConfirmationExecute ==
    /\ task.proto = "confirmation" /\ task.pc = "execute"
    /\ task' = [task EXCEPT !.pc = "done"]
    /\ UNCHANGED <<service, vec, worker, crashed, raced, lost, changes>>

-----------------------------------------------------------------------------
(* The sub tasks.                                                          *)

Current(w) == Head(worker[w].todo)
Item(w) == Head(worker[w].pushes)

\* has_short_id.
Look(w) ==
    /\ worker[w].pc = "look"
    /\ worker[w].todo # <<>>
    /\ worker' = [worker EXCEPT
          ![w].pc = IF Current(w) \in entries THEN "find" ELSE "read",
          ![w].pushes = IF Current(w) \in entries THEN <<<<"all", Current(w)>>>>
                        ELSE <<<<"unknown", Current(w)>>, <<"all", Current(w)>>>>]
    /\ UNCHANGED <<service, task, vec, crashed, raced, lost, changes>>

\* The const operator[] throws KeyError for a transaction that has been removed since.
Find(w) ==
    /\ worker[w].pc = "find"
    /\ worker' = IF Current(w) \in entries
                 THEN [worker EXCEPT ![w].pc = "next", ![w].left = SidsOf(Current(w))]
                 ELSE [worker EXCEPT ![w].pc = "failed"]
    /\ UNCHANGED <<service, task, vec, crashed, raced, lost, changes>>

\* The loop over the set; a set that was erased is no longer there.
NextSid(w) ==
    /\ worker[w].pc = "next"
    /\ \/ /\ Current(w) \notin entries
          /\ crashed' = "short_ids_erased"
          /\ UNCHANGED worker
       \/ /\ Current(w) \in entries
          /\ worker[w].left = {}
          /\ worker' = [worker EXCEPT ![w].pc = "read"]
          /\ UNCHANGED crashed
       \/ /\ Current(w) \in entries
          /\ \E s \in worker[w].left :
                worker' = [worker EXCEPT ![w].pc = "read", ![w].left = @ \ {s},
                                         ![w].pushes = <<<<"sids", s>>>> \o @]
          /\ UNCHANGED crashed
    /\ UNCHANGED <<service, task, vec, raced, lost, changes>>

InPush(w, v) == worker[w].pc = "store" /\ Item(w)[1] = v

\* push_back reads the end of the vector.
ReadEnd(w) ==
    /\ worker[w].pc = "read"
    /\ worker' = [worker EXCEPT ![w].pc = "store", ![w].pos = Len(vec[Item(w)[1]])]
    /\ raced' = (raced \/ \E u \in Workers \ {w} : InPush(u, Item(w)[1]))
    /\ UNCHANGED <<service, task, vec, crashed, lost, changes>>

\* The element is stored there; the end is advanced from where it is now or from
\* where it was read.
StoreAt(s, p, x) == [i \in 1 .. Len(s) |-> IF i = p + 1 THEN x ELSE s[i]]
PushOutcomes(s, p, x) ==
    IF Len(s) = p THEN {Append(s, x)}
    ELSE {StoreAt(s, p, x), Append(StoreAt(s, p, x), Garbage)}

AfterPush(w) ==
    [worker[w] EXCEPT
        !.pushes = Tail(@),
        !.pc = IF Len(worker[w].pushes) > 1
               THEN (IF Item(w)[1] = "sids" THEN "next" ELSE "read") ELSE "look",
        !.todo = IF Len(worker[w].pushes) > 1 THEN @ ELSE Tail(@)]

Store(w) ==
    /\ worker[w].pc = "store"
    /\ \E s \in PushOutcomes(vec[Item(w)[1]], worker[w].pos, Item(w)[2]) :
          vec' = [vec EXCEPT ![Item(w)[1]] = s]
    /\ worker' = [worker EXCEPT ![w] = AfterPush(w)]
    /\ UNCHANGED <<service, task, crashed, raced, lost, changes>>

Completes(w) ==
    /\ worker[w].pc = "look"
    /\ worker[w].todo = <<>>
    /\ worker' = [worker EXCEPT ![w].pc = "completed"]
    /\ UNCHANGED <<service, task, vec, crashed, raced, lost, changes>>

SubExecute(w) == Look(w) \/ Find(w) \/ NextSid(w) \/ ReadEnd(w) \/ Store(w) \/ Completes(w)

BtcSubExecute(w) == task.proto = "btc" /\ SubExecute(w)

OntSubExecute(w) == task.proto = "ont" /\ SubExecute(w)

-----------------------------------------------------------------------------
(* cleanup.                                                                *)

\* The bytes of the contents of the transactions hs, counted one by one.
ContentSize(hs) == Cardinality(UNION {{h} \X (1 .. SizeOf[h]) : h \in hs})

\* The transactions hs leave every container.
RemoveAll(hs) ==
    /\ entries' = entries \ hs
    /\ bound' = {s \in bound : HashOf[s] \notin hs}
    /\ contents' = contents \ hs

\* remove_transactions_by_hashes(_all_tx_hashes).
CleanTransactions ==
    /\ task.pc = "done"
    /\ RemoveAll(Range(vec["all"]))
    /\ task' = [task EXCEPT !.pc = "cleaned",
                            !.total = ContentSize(contents \cap Range(vec["all"]))]
    /\ UNCHANGED <<window, vec, worker, crashed, raced, lost, changes>>

BtcCleanup == task.proto = "btc" /\ CleanTransactions

OntCleanup == task.proto = "ont" /\ CleanTransactions

\* Fault variant: the other short ids of the transaction are not reported.
DuplicatesNotReported(s, present) == {}

\* remove_transaction_by_short_id reports the other short ids of the transaction.
Duplicates(s, present) == {t \in present : HashOf[t] = HashOf[s]} \ {s}

\* The short ids of the message that are bound when their turn comes: the first of
\* each transaction.
FirstOf(c, i) ==
    c.sids[i] \in bound /\ \A j \in 1 .. i - 1 : HashOf[c.sids[j]] # HashOf[c.sids[i]]
                                                \/ c.sids[j] \notin bound
RemovedBySid(c) == {HashOf[c.sids[i]] : i \in {k \in DOMAIN c.sids : c.sids[k] \in bound}}

\* Every short id of the message with the duplicates that are removed with it, and
\* the short ids of the hashes that are still there.
ReportedBySid(c) ==
    Range(c.sids) \cup
    UNION {Duplicates(c.sids[i], bound) : i \in {k \in DOMAIN c.sids : FirstOf(c, k)}}
ReportedByHash(c) ==
    UNION {SidsOf(c.hashes[i]) : i \in {k \in DOMAIN c.hashes : c.hashes[k] \notin RemovedBySid(c)}}

\* What is reported is a vector; which short id comes first in it, and whether one
\* that the message has twice is there twice, does not matter.
ConfirmationCleanup ==
    /\ task.proto = "confirmation"
    /\ task.pc = "done"
    /\ LET c == task.msg
           hs == RemovedBySid(c) \cup Range(c.hashes) IN
       /\ RemoveAll(hs)
       /\ window' = window \ {c.block}
       /\ vec' = [vec EXCEPT !["sids"] = SetToSeq(ReportedBySid(c) \cup ReportedByHash(c))]
       /\ task' = [task EXCEPT !.pc = "cleaned",
                               !.total = @ + ContentSize(contents \cap hs)]
    /\ UNCHANGED <<worker, crashed, raced, lost, changes>>

-----------------------------------------------------------------------------
(* The transaction service meanwhile.                                      *)

Change == changes < MaxChanges /\ changes' = changes + 1

AssignShortId(s) ==
    /\ Change
    /\ s \notin bound
    /\ bound' = bound \cup {s}
    /\ entries' = entries \cup {HashOf[s]}
    /\ UNCHANGED <<contents, window, task, vec, worker, crashed, raced, lost>>

SetContents(h) ==
    /\ Change
    /\ h \notin contents
    /\ contents' = contents \cup {h}
    /\ UNCHANGED <<entries, bound, window, task, vec, worker, crashed, raced, lost>>

RemoveTransaction(h) ==
    /\ Change
    /\ h \in entries \cup contents
    /\ RemoveAll({h})
    /\ lost' = lost \cup {h}
    /\ UNCHANGED <<window, task, vec, worker, crashed, raced>>

-----------------------------------------------------------------------------
Next ==
    /\ crashed = "no"
    /\ \/ \E b \in Blocks : BtcInit(b) \/ OntInit(b)
       \/ \E c \in Confirmations : ConfirmationInit(c)
       \/ BtcExecute \/ OntExecute \/ ConfirmationExecute
       \/ \E w \in Workers : BtcSubExecute(w) \/ OntSubExecute(w)
       \/ BtcCleanup \/ OntCleanup \/ ConfirmationCleanup
       \/ \E s \in Sids : AssignShortId(s)
       \/ \E h \in Hashes : SetContents(h) \/ RemoveTransaction(h)

Spec == Init /\ [][Next]_vars

-----------------------------------------------------------------------------
(* Properties.                                                             *)

Count(s, x) == Cardinality({i \in DOMAIN s : s[i] = x})

\* A completed task has collected every transaction of its block, each as often as
\* it occurs, unless two sub tasks were in a push_back to the same vector: then one
\* may be lost, and with it the removal of that transaction.  A sub task fails only
\* at a transaction that was removed from the service after it found it there.
CollectedUnlessRaced ==
    /\ task.pc = "done" /\ task.proto # "confirmation" /\ ~raced =>
          \A h \in Hashes \cup {Garbage} : Count(vec["all"], h) = Count(task.block, h)
    /\ \A w \in Workers : worker[w].pc = "failed" => Current(w) \in lost

RemovedReported ==
    /\ bound \ bound' \subseteq Range(vec'["sids"])
    /\ \A i \in DOMAIN task.msg.hashes : task.msg.hashes[i] \notin entries'

\* Every short id that the cleanup of a confirmed block removes is reported, also
\* the other short ids of a transaction named by one of them, and no hash it names
\* is left.  total_content_removed is the size of the contents a cleanup has freed,
\* for the second block of a task object as for the first.
CleanupExact ==
    [][task.pc = "done" /\ task'.pc = "cleaned" =>
          /\ task'.total = ContentSize(contents \ contents')
          /\ task.proto = "confirmation" => RemovedReported]_vars
=============================================================================
