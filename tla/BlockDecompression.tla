------------------------- MODULE BlockDecompression -------------------------
(***************************************************************************)
(* The block decompression tasks: the short ids of a compressed block are  *)
(* looked up; if all are known and their contents are there, the original  *)
(* block is put together in the task's output buffer.                      *)
(*                                                                         *)
(* The Bitcoin, Ontology and Ethereum tasks compute where every            *)
(* transaction goes and let sub tasks copy, each into its own region, while *)
(* the task goes on with the next part; the Ontology consensus task copies *)
(* by itself.  The service's maps are looked up without a lock and contents *)
(* are read through raw pointers while the thread that owns the            *)
(* transaction service changes the maps and removes transactions; a task   *)
(* object is used for one block after the other, also after a block that   *)
(* made it throw with sub tasks still at work.                             *)
(*                                                                         *)
(* Sizes are in units: a transaction has SizeOf[h] of them, its k-th unit   *)
(* is <<h, k>>; the parts before the transactions are one unit and so are   *)
(* the parts after them (merkle root, trailer).                            *)
(***************************************************************************)
EXTENDS Integers, Sequences, FiniteSets

CONSTANTS
    Protocols,      \* the task classes: "btc", "ont", "eth", "consensus"
    Hashes,         \* transactions
    SizeOf,         \* the size of their contents
    Sids, NullSid,  \* short ids and NULL_TX_SID
    HashOf,         \* the transaction of a short id
    StartKnown,     \* short ids that are bound at first
    Messages,       \* compressed blocks: [txs, sids, size]
    PoolSize,       \* threads of the sub pool
    MinimalTx,      \* _minimal_tx_count
    DefaultTx,      \* ETH_DEFAULT_TX_COUNT
    Capacity,       \* of the buffer a task object is created with
    MaxLength,      \* bound: units an output buffer can have
    MaxBlocks,      \* bound: blocks a task object is used for
    MaxChanges      \* bound: changes of the service

Short == "short id flag"
Entries == Hashes \cup {Short}
HeaderSize == 1

-----------------------------------------------------------------------------
(* The block that a message stands for.                                    *)

FlagsUpTo(txs, n) == Cardinality({i \in 1 .. n : txs[i] = Short})

\* The i-th transaction of the original block.
OriginalTx(m, i) ==
    IF m.txs[i] = Short THEN HashOf[m.sids[FlagsUpTo(m.txs, i)]] ELSE m.txs[i]

\* The place of its first unit: the header and all earlier transactions come first.
StartOf(m, i) ==
    HeaderSize + Cardinality(UNION {{j} \X (1 .. SizeOf[OriginalTx(m, j)]) : j \in 1 .. i - 1})

\* Up to the n-th transaction, there are short ids for the flags.
ShortIdsSuffice(m, n) ==
    /\ FlagsUpTo(m.txs, n) <= Len(m.sids)
    /\ \A i \in 1 .. FlagsUpTo(m.txs, n) : m.sids[i] \in Sids

ASSUME BlockDecompressionAssumption ==
    /\ Protocols \subseteq {"btc", "ont", "eth", "consensus"}
    /\ SizeOf \in [Hashes -> Nat \ {0}]
    /\ HashOf \in [Sids -> Hashes]
    /\ StartKnown \subseteq Sids
    /\ \A m \in Messages :
          m.txs \in Seq(Entries) /\ m.sids \in Seq(Sids \cup {NullSid}) /\ m.size \in Nat
    /\ {PoolSize, MinimalTx, DefaultTx, Capacity} \subseteq Nat \ {0}
    /\ MaxLength \in Nat
    /\ \A m \in Messages : \A n \in 0 .. Len(m.txs) :
          ShortIdsSuffice(m, n) => StartOf(m, n + 1) < MaxLength

-----------------------------------------------------------------------------
VARIABLES
    known,     \* short ids that are bound
    contents,  \* transactions whose contents are there
    task,      \* the task object
    worker,    \* its sub tasks
    out,       \* its output buffer
    held,      \* the buffer of an earlier block the caller still holds
    crashed,   \* "no", or why memory has been used that is no longer there
    removed,   \* transactions removed since the block was given to the task
    stale,     \* sub tasks whose pointer is to contents that have been removed
    changes    \* changes of the service so far

vars == <<known, contents, task, worker, out, held, crashed, removed, stale, changes>>
service == <<known, contents, removed, stale, changes>>

Workers == 0 .. PoolSize - 1
Split == {"btc", "ont", "eth"}
Cells == 0 .. MaxLength - 1
None == <<>>

Larger(a, b) == IF a > b THEN a ELSE b
Smaller(a, b) == IF a < b THEN a ELSE b

\* A buffer: gen changes when its memory moves, len is _length; what is behind
\* len keeps its bytes.
NewBuffer(gen, capacity) ==
    [gen |-> gen, cap |-> capacity, len |-> 0, cells |-> [i \in Cells |-> None]]

NewWorker == [pc |-> "new", todo |-> <<>>, sidLen |-> 0, sidOff |-> 0, off |-> 0,
              gen |-> 0]

Init ==
    /\ known = StartKnown
    /\ contents = {HashOf[s] : s \in StartKnown}
    /\ \E p \in Protocols :
          task = [proto |-> p, pc |-> "idle", msg |-> [txs |-> <<>>, sids |-> <<>>, size |-> 0],
                  checked |-> 0, unknownHashes |-> <<>>, unknownSids |-> <<>>,
                  count |-> 0, idx |-> 0, off |-> 0, prevOff |-> 0, sidOff |-> 0,
                  large |-> FALSE, threw |-> FALSE, error |-> FALSE,
                  released |-> FALSE, blocks |-> 0]
    /\ worker = [w \in Workers |-> NewWorker]
    /\ out = NewBuffer(0, Capacity)
    /\ held = <<>>
    /\ crashed = "no"
    /\ removed = {}
    /\ stale = {}
    /\ changes = 0

HasContents(s) == s \in known /\ HashOf[s] \in contents

Running(w) == worker[w].pc \in {"fetch", "copy"}

-----------------------------------------------------------------------------
(* ByteArray: reserve, resize and the copies.                              *)

\* More capacity moves the memory.
Reserve(b, n) == IF n > b.cap THEN [b EXCEPT !.cap = n, !.gen = @ + 1] ELSE b

Resize(b, n) == [Reserve(b, n) EXCEPT !.len = n]

\* reset: the length is 0 when clear is called, so no byte is overwritten.
Reset(b) == Resize(b, 0)

\* copy_from_buffer resizes only to grow.
CopyResize(b, total) == IF total > b.len THEN Resize(b, total) ELSE b

Copied(b, at, units) ==
    [b EXCEPT !.cells = [i \in Cells |->
        IF i \in at .. at + Len(units) - 1 THEN units[i - at + 1] ELSE @[i]]]

Units(h) == [k \in 1 .. SizeOf[h] |-> <<h, k>>]

Header == <<<<"header", 1>>>>
Trailer == <<<<"trailer", 1>>>>

-----------------------------------------------------------------------------
(* init.                                                                   *)

\* A buffer somebody else holds is replaced, any other one is emptied.
OutputFor(n) ==
    IF held = <<out.gen>> THEN NewBuffer(out.gen + 1, Larger(n, out.cap))
    ELSE Reset(Reserve(out, n))

\* Fault variant: _unknown_tx_sids is not cleared.
FreshKeepsSids(m) ==
    [task EXCEPT !.pc = "check", !.msg = m, !.checked = 0, !.unknownHashes = <<>>,
                 !.large = FALSE, !.error = FALSE,
                 !.released = FALSE, !.blocks = @ + 1]

Fresh(m) ==
    [task EXCEPT !.pc = "check", !.msg = m, !.checked = 0, !.unknownHashes = <<>>,
                 !.unknownSids = <<>>, !.large = FALSE, !.error = FALSE,
                 !.released = FALSE, !.blocks = @ + 1]

\* The block buffer of the block before is released: a sub task that still reads
\* it reads freed memory.
InitTask(m, buffer) ==
    /\ task.pc \in {"idle", "done", "failed"}
    /\ task.blocks < MaxBlocks
    /\ task' = Fresh(m)
    /\ out' = buffer
    /\ removed' = {}
    /\ stale' = {}
    /\ crashed' = IF \E w \in Workers : Running(w) THEN "block freed" ELSE crashed
    /\ UNCHANGED <<known, contents, worker, held, changes>>

BtcInit(m) == task.proto = "btc" /\ InitTask(m, OutputFor(m.size))

OntInit(m) == task.proto = "ont" /\ InitTask(m, OutputFor(m.size))

\* Ethereum and consensus messages do not set the capacity here.
EthInit(m) == task.proto = "eth" /\ InitTask(m, OutputFor(out.cap))

\* _execute of the consensus task reserves and resets before anything is read.
ConsensusInit(m) ==
    task.proto = "consensus" /\ InitTask(m, Reset(Reserve(OutputFor(out.cap), m.size)))

-----------------------------------------------------------------------------
(* _execute: get_missing_transactions, one lookup at a time.               *)

AfterLookup(s) ==
    IF s # NullSid /\ s \in known
    THEN IF HashOf[s] \in contents THEN [task EXCEPT !.checked = @ + 1]
         ELSE [task EXCEPT !.checked = @ + 1, !.unknownHashes = Append(@, HashOf[s])]
    ELSE [task EXCEPT !.checked = @ + 1, !.unknownSids = Append(@, s)]

GetMissingTransactions ==
    /\ task.pc = "check"
    /\ task.checked < Len(task.msg.sids)
    /\ task' = AfterLookup(task.msg.sids[task.checked + 1])
    /\ UNCHANGED <<worker, out, held, crashed, service>>

Success == task.unknownHashes = <<>> /\ task.unknownSids = <<>>

\* _init_sub_tasks clears the data of the sub tasks, _dispatch starts.
StartDispatch ==
    /\ task' = [task EXCEPT !.pc = "dispatch", !.count = 0, !.idx = 0, !.sidOff = 0,
                            !.off = HeaderSize, !.prevOff = HeaderSize]
    /\ worker' = [w \in Workers |-> [NewWorker EXCEPT !.pc = worker[w].pc]]

\* Missing transactions end the task; what it needs is in the lists.
GiveUp == task' = [task EXCEPT !.pc = "done"] /\ UNCHANGED <<worker, out>>

BtcParsed == StartDispatch /\ UNCHANGED out

OntParsed == StartDispatch /\ UNCHANGED out

\* The Ethereum task makes room for the header first; it fits the capacity the
\* object was created with.
EthParsed == StartDispatch /\ out' = Resize(out, HeaderSize)

\* The consensus task copies the transactions itself, as worker 0.
ConsensusParsed ==
    /\ task' = [task EXCEPT !.pc = "wait", !.count = 0, !.idx = 0, !.off = HeaderSize]
    /\ worker' = [worker EXCEPT ![0] =
          [NewWorker EXCEPT !.pc = "fetch", !.todo = task.msg.txs, !.off = HeaderSize]]
    /\ out' = Copied(CopyResize(out, HeaderSize), 0, Header)

Checked ==
    /\ task.pc = "check"
    /\ task.checked = Len(task.msg.sids)
    /\ \/ ~Success /\ GiveUp
       \/ Success /\ task.proto = "btc" /\ BtcParsed
       \/ Success /\ task.proto = "ont" /\ OntParsed
       \/ Success /\ task.proto = "eth" /\ EthParsed
       \/ Success /\ task.proto = "consensus" /\ ConsensusParsed
    /\ UNCHANGED <<held, crashed, service>>

-----------------------------------------------------------------------------
(* _dispatch.                                                              *)

BulkSize ==
    Larger((IF task.proto = "eth" THEN DefaultTx ELSE Len(task.msg.txs)) \div PoolSize,
           Larger(PoolSize, MinimalTx))

\* The index moves on with this transaction; its data still goes to the sub task
\* of the index before.
NextIdx == Smaller(task.count \div BulkSize, PoolSize - 1)

Entry == task.msg.txs[task.count + 1]
ShortIdIdx == task.sidOff + worker[task.idx].sidLen
EntrySid == task.msg.sids[ShortIdIdx + 1]
EntryHash == IF Entry = Short THEN HashOf[EntrySid] ELSE Entry
OffAfter == task.off + SizeOf[EntryHash]

\* A short id too few, or a transaction that is gone (get_tx_size uses at).
EntryBad == Entry = Short /\ ~(ShortIdIdx < Len(task.msg.sids) /\ HasContents(EntrySid))

Throw == task' = [task EXCEPT !.pc = "failed", !.threw = TRUE, !.error = TRUE]

DispatchThrows ==
    /\ task.count < Len(task.msg.txs)
    /\ EntryBad
    /\ Throw
    /\ UNCHANGED <<worker, out, held, crashed, service>>

Pushed ==
    [worker EXCEPT ![task.idx].todo = Append(@, Entry),
                   ![task.idx].sidLen = @ + (IF Entry = Short THEN 1 ELSE 0)]

\* _enqueue_task, with the place where the part starts.
Enqueued(ws, w) ==
    [ws EXCEPT ![w].pc = "fetch", ![w].off = task.prevOff, ![w].sidOff = task.sidOff]

DispatchSame ==
    /\ task.count < Len(task.msg.txs)
    /\ ~EntryBad
    /\ NextIdx = task.idx
    /\ worker' = Pushed
    /\ task' = [task EXCEPT !.count = @ + 1, !.off = OffAfter]
    /\ UNCHANGED <<out, held, crashed, service>>

\* Fault variant: the output grows as needed while sub tasks write.
TooLargeNever(n) == FALSE

\* _extend_output_buffer throws rather than move the memory.
TooLarge(n) == n > out.cap

DispatchNext ==
    /\ task.count < Len(task.msg.txs)
    /\ ~EntryBad
    /\ NextIdx > task.idx
    /\ \/ /\ TooLarge(OffAfter)
          /\ Throw
          /\ worker' = Pushed
          /\ UNCHANGED out
       \/ /\ ~TooLarge(OffAfter)
          /\ out' = Resize(out, OffAfter)
          /\ worker' = Enqueued(Pushed, task.idx)
          /\ task' = [task EXCEPT !.count = @ + 1, !.idx = NextIdx, !.off = OffAfter,
                                  !.prevOff = OffAfter,
                                  !.sidOff = @ + Pushed[task.idx].sidLen]
    /\ UNCHANGED <<held, crashed, service>>

\* The last part.  Bitcoin and Ontology make room for it first.
DispatchLast ==
    /\ task.count = Len(task.msg.txs)
    /\ \/ /\ TooLarge(task.off)
          /\ Throw
          /\ UNCHANGED <<worker, out>>
       \/ /\ ~TooLarge(task.off)
          /\ out' = Resize(out, task.off)
          /\ worker' = Enqueued(worker, task.idx)
          /\ task' = [task EXCEPT !.pc = "header"]
    /\ UNCHANGED <<held, crashed, service>>

\* Ethereum leaves it to the sub task.
EthDispatchLast ==
    /\ task.count = Len(task.msg.txs)
    /\ worker' = Enqueued(worker, task.idx)
    /\ task' = [task EXCEPT !.pc = "wait", !.large = task.off > out.cap]
    /\ UNCHANGED <<out, held, crashed, service>>

BtcDispatch ==
    /\ task.proto = "btc" /\ task.pc = "dispatch"
    /\ DispatchThrows \/ DispatchSame \/ DispatchNext \/ DispatchLast

OntDispatch ==
    /\ task.proto = "ont" /\ task.pc = "dispatch"
    /\ DispatchThrows \/ DispatchSame \/ DispatchNext \/ DispatchLast

EthDispatch ==
    /\ task.proto = "eth" /\ task.pc = "dispatch"
    /\ DispatchThrows \/ DispatchSame \/ DispatchNext \/ EthDispatchLast

\* The header of the block is copied while the sub tasks work.
CopyHeader ==
    /\ task.pc = "header"
    /\ out' = Copied(CopyResize(out, HeaderSize), 0, Header)
    /\ task' = [task EXCEPT !.pc = "wait"]
    /\ UNCHANGED <<worker, held, crashed, service>>

-----------------------------------------------------------------------------
(* The sub tasks: for each transaction the contents are found, the output    *)
(* is resized if it has to be, and the bytes are copied.                   *)

Current(w) == Head(worker[w].todo)
CurrentSid(w) == task.msg.sids[worker[w].sidOff + 1]
CurrentHash(w) == IF Current(w) = Short THEN HashOf[CurrentSid(w)] ELSE Current(w)
TotalLength(w) == worker[w].off + SizeOf[CurrentHash(w)]

\* get_tx_contents_raw_ptr of a transaction that is gone follows a null pointer.
Fetch(w) ==
    /\ worker[w].pc = "fetch"
    /\ worker[w].todo # <<>>
    /\ \/ /\ Current(w) = Short /\ ~HasContents(CurrentSid(w))
          /\ crashed' = "transaction removed"
          /\ UNCHANGED <<worker, out>>
       \/ /\ Current(w) = Short => HasContents(CurrentSid(w))
          /\ out' = CopyResize(out, TotalLength(w))
          /\ worker' = [worker EXCEPT ![w].pc = "copy", ![w].gen = out'.gen]
          /\ UNCHANGED crashed
    /\ UNCHANGED <<task, held, service>>

\* memcpy from the contents the pointer was given for, to the memory the output had.
CopyCrash(w) ==
    IF w \in stale THEN "transaction removed"
    ELSE IF worker[w].gen # out.gen THEN "output moved" ELSE "no"

Copy(w) ==
    /\ worker[w].pc = "copy"
    /\ crashed' = CopyCrash(w)
    /\ out' = IF crashed' = "no" THEN Copied(out, worker[w].off, Units(CurrentHash(w))) ELSE out
    /\ worker' = [worker EXCEPT ![w].pc = "fetch", ![w].todo = Tail(@),
                                ![w].off = TotalLength(w),
                                ![w].sidOff = @ + (IF Current(w) = Short THEN 1 ELSE 0)]
    /\ UNCHANGED <<task, held, service>>

Completes(w) ==
    /\ worker[w].pc = "fetch"
    /\ worker[w].todo = <<>>
    /\ worker' = [worker EXCEPT ![w].pc = "completed"]
    /\ UNCHANGED <<task, out, held, crashed, service>>

BtcSubExecute(w) == task.proto = "btc" /\ (Fetch(w) \/ Copy(w) \/ Completes(w))

OntSubExecute(w) == task.proto = "ont" /\ (Fetch(w) \/ Copy(w) \/ Completes(w))

EthSubExecute(w) == task.proto = "eth" /\ (Fetch(w) \/ Copy(w) \/ Completes(w))

\* The consensus task does not count the short ids it uses, so a flag too many
\* takes it past the end of _short_ids; it holds the contents while it copies.
NoShortIdLeft == Current(0) = Short /\ worker[0].sidOff >= Len(task.msg.sids)

ConsensusTransactions ==
    /\ task.proto = "consensus"
    /\ \/ /\ worker[0].pc = "fetch" /\ worker[0].todo # <<>>
          /\ NoShortIdLeft
          /\ crashed' = "past the short ids"
          /\ UNCHANGED <<task, worker, out, held, service>>
       \/ worker[0].todo # <<>> /\ ~NoShortIdLeft /\ Fetch(0)
       \/ Completes(0)
       \/ /\ worker[0].pc = "copy"
          /\ out' = Copied(out, worker[0].off, Units(CurrentHash(0)))
          /\ worker' = [worker EXCEPT ![0].pc = "fetch", ![0].todo = Tail(@),
                                      ![0].off = TotalLength(0),
                                      ![0].sidOff = @ + (IF Current(0) = Short THEN 1 ELSE 0)]
          /\ UNCHANGED <<task, held, crashed, service>>

-----------------------------------------------------------------------------
(* The end of _execute.                                                    *)

\* Fault variant: the last sub task is not waited for.
AwaitedButLast == {w \in Workers : w < task.idx}

\* Ethereum waits for every sub task object, the others up to last_idx.
Awaited == IF task.proto = "eth" THEN Workers ELSE {w \in Workers : w <= task.idx}

Waited == task.pc = "wait" /\ \A w \in Awaited : worker[w].pc = "completed"

Done == task' = [task EXCEPT !.pc = "done"]

BtcFinish ==
    /\ task.proto = "btc"
    /\ Waited
    /\ Done
    /\ UNCHANGED <<worker, out, held, crashed, service>>

\* The merkle root comes last; there must be room for it.
OntFinish ==
    /\ task.proto = "ont"
    /\ Waited
    /\ \/ TooLarge(out.len + 1) /\ Throw /\ UNCHANGED out
       \/ ~TooLarge(out.len + 1) /\ Done /\ out' = Copied(Resize(out, out.len + 1), out.len, Trailer)
    /\ UNCHANGED <<worker, held, crashed, service>>

\* _set_output_buffer: the prefixes and the header shorten the buffer for a
\* while; the trailer and the final resize give it its length.
EthOutput ==
    Copied(Copied(Resize(out, task.off + 1), 0, Header), task.off, Trailer)

EthFinish ==
    /\ task.proto = "eth"
    /\ Waited
    /\ Done
    /\ out' = EthOutput
    /\ UNCHANGED <<worker, held, crashed, service>>

ConsensusFinish ==
    /\ task.proto = "consensus"
    /\ Waited
    /\ Done
    /\ out' = Copied(CopyResize(out, worker[0].off + 1), worker[0].off, Trailer)
    /\ UNCHANGED <<worker, held, crashed, service>>

\* cleanup releases the block.  It calls assert_execution, which throws the error
\* of the task the first time; the consensus task never throws.
Cleanup ==
    /\ task.pc \in {"done", "failed"}
    /\ ~task.released
    /\ task' = IF task.error THEN [task EXCEPT !.error = FALSE]
               ELSE [task EXCEPT !.released = TRUE]
    /\ crashed' = IF ~task.error /\ \E w \in Workers : Running(w) THEN "block freed"
                  ELSE crashed
    /\ UNCHANGED <<worker, out, held, service>>

\* The caller keeps the shared pointer to the output of a block.
KeepOutput ==
    /\ task.pc = "done"
    /\ held = <<>>
    /\ held' = <<out.gen>>
    /\ UNCHANGED <<task, worker, out, crashed, service>>

-----------------------------------------------------------------------------
(* The transaction service meanwhile.                                      *)

Change == changes < MaxChanges /\ changes' = changes + 1

\* Lookups in the maps that can be under way: of get_missing_transactions, of
\* get_tx_size, and of get_tx_contents_raw_ptr or get_transaction.
CheckLooksUp == task.pc = "check" /\ task.checked < Len(task.msg.sids)
DispatchLooksUp ==
    /\ task.pc = "dispatch" /\ task.count < Len(task.msg.txs)
    /\ Entry = Short /\ ShortIdIdx < Len(task.msg.sids)
FetchLooksUp(w) ==
    /\ worker[w].pc = "fetch" /\ worker[w].todo # <<>>
    /\ Current(w) = Short /\ worker[w].sidOff < Len(task.msg.sids)

\* find misses an entry that is there.
Missed(s) ==
    \/ task' = [task EXCEPT !.checked = @ + 1, !.unknownSids = Append(@, s)]
    \/ /\ s \in known /\ s # NullSid
       /\ task' = [task EXCEPT !.checked = @ + 1, !.unknownHashes = Append(@, HashOf[s])]

\* No lock keeps a lookup of an unrelated transaction from reading a map while it is
\* rehashed or an item is unlinked: nothing happens, the lookup misses an entry that
\* is there, or it follows a pointer into memory that is gone.
Race ==
    \/ UNCHANGED <<task, crashed>>
    \/ CheckLooksUp /\ Missed(task.msg.sids[task.checked + 1]) /\ UNCHANGED crashed
    \/ DispatchLooksUp /\ Throw /\ UNCHANGED crashed
    \/ /\ CheckLooksUp \/ DispatchLooksUp \/ \E w \in Workers : FetchLooksUp(w)
       /\ crashed' = "map changed"
       /\ UNCHANGED task

AssignShortId(s) ==
    /\ Change
    /\ s \notin known
    /\ known' = known \cup {s}
    /\ Race
    /\ UNCHANGED <<contents, worker, out, held, removed, stale>>

SetContents(h) ==
    /\ Change
    /\ h \notin contents
    /\ contents' = contents \cup {h}
    /\ Race
    /\ UNCHANGED <<known, worker, out, held, removed, stale>>

\* Sub tasks that have a raw pointer to the contents of h; the consensus task shares
\* their ownership.
PointingTo(h) ==
    {w \in Workers : /\ task.proto \in Split /\ worker[w].pc = "copy"
                     /\ Current(w) = Short /\ CurrentHash(w) = h}

RemoveTransaction(h) ==
    /\ Change
    /\ h \in contents
    /\ contents' = contents \ {h}
    /\ known' = {s \in known : HashOf[s] # h}
    /\ removed' = removed \cup {h}
    /\ stale' = stale \cup PointingTo(h)
    /\ Race
    /\ UNCHANGED <<worker, out, held>>

-----------------------------------------------------------------------------
Next ==
    /\ crashed = "no"
    /\ \/ \E m \in Messages : BtcInit(m) \/ OntInit(m) \/ EthInit(m) \/ ConsensusInit(m)
       \/ GetMissingTransactions \/ Checked
       \/ BtcDispatch \/ OntDispatch \/ EthDispatch \/ CopyHeader
       \/ \E w \in Workers : BtcSubExecute(w) \/ OntSubExecute(w) \/ EthSubExecute(w)
       \/ ConsensusTransactions
       \/ BtcFinish \/ OntFinish \/ EthFinish \/ ConsensusFinish
       \/ KeepOutput \/ Cleanup
       \/ \E s \in Sids : AssignShortId(s)
       \/ \E h \in Hashes : SetContents(h) \/ RemoveTransaction(h)

Spec == Init /\ [][Next]_vars

-----------------------------------------------------------------------------
(* Properties.                                                             *)

\* A successful task has put together the original block: the header, every unit of
\* every transaction in its place, the trailer, and nothing else, whatever the sub
\* tasks did when.  And a task never works on a buffer that its caller has been given.
OutputExact ==
    /\ task.pc = "done" /\ Success =>
          LET m == task.msg
              end == StartOf(m, Len(m.txs) + 1)
          IN  /\ out.cells[0] = Header[1]
              /\ \A i \in DOMAIN m.txs : \A k \in 1 .. SizeOf[OriginalTx(m, i)] :
                    out.cells[StartOf(m, i) + k - 1] = Units(OriginalTx(m, i))[k]
              /\ task.proto # "btc" => out.cells[end] = Trailer[1]
              /\ out.len = IF task.proto = "btc" THEN end ELSE end + 1
    /\ held = <<out.gen>> => task.pc = "done"

Elements(s) == {s[i] : i \in DOMAIN s}

\* A short id of the block that a completed task does not report as missing has
\* its contents, unless they were removed since; what it reports is of this block.
MissingReported ==
    task.pc = "done" =>
        /\ Elements(task.unknownSids) \subseteq Elements(task.msg.sids)
        /\ Elements(task.unknownHashes) \subseteq
              {HashOf[s] : s \in Elements(task.msg.sids) \ {NullSid}}
        /\ \A s \in Elements(task.msg.sids) \ Elements(task.unknownSids) :
              /\ s # NullSid
              /\ \/ HashOf[s] \in Elements(task.unknownHashes) \cup removed
                 \/ HasContents(s)

\* Memory that is not there is used in five cases only: a transaction of the block
\* is removed between get_missing_transactions and the copy, even if its contents are
\* stored again before it; the last part of an Ethereum block exceeds the capacity,
\* so that its sub task moves the output under the others; a task object is used
\* again while sub tasks of a block that made _dispatch throw still run; a consensus
\* message has fewer short ids than flags; a block with short ids is not yet done
\* and the service's maps change under a lookup.
CrashesExplained ==
    /\ crashed = "transaction removed" =>
          \E s \in Elements(task.msg.sids) : HashOf[s] \in removed
    /\ crashed = "output moved" => task.proto = "eth" /\ task.large
    /\ crashed = "block freed" => task.threw
    /\ crashed = "past the short ids" =>
          /\ task.proto = "consensus"
          /\ FlagsUpTo(task.msg.txs, Len(task.msg.txs)) > Len(task.msg.sids)
    /\ crashed = "map changed" =>
          task.pc \notin {"idle", "done"} /\ task.msg.sids # <<>>
=============================================================================
