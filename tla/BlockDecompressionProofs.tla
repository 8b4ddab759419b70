---------------------- MODULE BlockDecompressionProofs ----------------------
(***************************************************************************)
(* Proofs about BlockDecompression, for every size of the sub pool, every  *)
(* message, capacity and sequence of changes of the service.               *)
(*                                                                         *)
(* The argument: a sub task at work has before it a run of consecutive     *)
(* transactions of the message, from lo to hi, and its offset and its      *)
(* short id are those of the first (Part).  Every transaction is in its    *)
(* place or before some sub task (Covered); a copy puts one in its place   *)
(* and touches no other, as their places do not overlap (CopyPlaces).      *)
(***************************************************************************)
EXTENDS BlockDecompression, FunctionTheorems, FiniteSetTheorems, SequenceTheorems, TLAPS

Unit == {None, Header[1], Trailer[1]} \cup (Hashes \X Nat)

BufferType == [gen : Nat, cap : Nat, len : Nat, cells : [Cells -> Unit]]

WorkerType ==
    [pc : {"new", "fetch", "copy", "completed"}, todo : Seq(Entries), sidLen : Nat,
     sidOff : Nat, off : Nat, gen : Nat]

NoMessage == [txs |-> <<>>, sids |-> <<>>, size |-> 0]

TaskType ==
    [proto : Protocols,
     pc : {"idle", "check", "dispatch", "header", "wait", "done", "failed"},
     msg : Messages \cup {NoMessage}, checked : Nat, unknownHashes : Seq(Hashes),
     unknownSids : Seq(Sids \cup {NullSid}), count : Nat, idx : Workers, off : Nat,
     prevOff : Nat, sidOff : Nat, large : BOOLEAN, threw : BOOLEAN, error : BOOLEAN,
     released : BOOLEAN, blocks : Nat]

\* The values of the variables.
TypeOK ==
    /\ known \subseteq Sids
    /\ contents \subseteq Hashes
    /\ removed \subseteq Hashes
    /\ task \in TaskType
    /\ out \in BufferType

\* What get_missing_transactions has found out about a short id.
Settled(s) ==
    \/ s \in Elements(task.unknownSids)
    \/ /\ s \in Sids /\ s # NullSid
       /\ HashOf[s] \in Elements(task.unknownHashes) \cup removed \/ HasContents(s)

Lookups ==
    /\ task.checked <= Len(task.msg.sids)
    /\ task.pc # "check" => task.checked = Len(task.msg.sids)
    /\ Elements(task.unknownSids) \subseteq Elements(task.msg.sids)
    /\ Elements(task.unknownHashes) \subseteq
          {HashOf[s] : s \in Elements(task.msg.sids) \ {NullSid}}
    /\ \A j \in 1 .. task.checked : Settled(task.msg.sids[j])
    /\ task.pc \in {"dispatch", "header", "wait", "failed"} => Success

\* The buffer that the caller keeps is an earlier one unless the task is done.
HeldOlder ==
    held # <<>> => /\ held = <<held[1]>>
                   /\ held[1] \in 0 .. out.gen
                   /\ task.pc # "done" => held[1] < out.gen

\* A pointer is stale only if a transaction of the block has been removed.
Dangling(ws, m, rs) == ws # {} => \E s \in Elements(m.sids) : HashOf[s] \in rs

\* What the service may do under a task: what had contents has them, or is removed.
Grows ==
    /\ known' \subseteq Sids /\ contents' \subseteq Hashes
    /\ removed \subseteq removed' /\ removed' \subseteq Hashes
    /\ \A s \in Sids : HasContents(s) => HasContents(s)' \/ HashOf[s] \in removed'
    /\ Dangling(stale', task.msg, removed')

\* Where sub tasks may be at work.
Quiet ==
    /\ task.pc # "idle" => task.msg \in Messages
    /\ task.pc \in {"idle", "check", "done"} => \A w \in Workers : ~Running(w)
    /\ task.pc = "dispatch" =>
          /\ task.proto \in Split
          /\ ~Running(task.idx)
          /\ \A w \in Workers : w > task.idx =>
                ~Running(w) /\ worker[w].todo = <<>> /\ worker[w].sidLen = 0
    /\ task.pc \in {"header", "wait"} => \A w \in Workers : w > task.idx => ~Running(w)
    /\ task.pc = "header" => task.proto \in {"btc", "ont"}
    /\ task.pc = "failed" => task.threw
    /\ task.pc = "check" => out.len = 0
    /\ task.pc \in {"check", "dispatch"} => ~task.large
    /\ task.pc = "dispatch" /\ task.proto # "eth" => out.len <= task.off
    /\ task.pc = "wait" /\ task.proto = "consensus" => task.idx = 0 /\ worker[0].pc # "new"

\* Entries that are those of a message from a to b.
Slice(todo, m, a, b) ==
    /\ 1 <= a /\ a <= b + 1 /\ b <= Len(m.txs)
    /\ Len(todo) = b - a + 1
    /\ \A k \in 1 .. Len(todo) : todo[k] = m.txs[(a - 1) + k]

\* A sub task whose next transactions are those from a to b.
Part(r, m, a, b) ==
    /\ Slice(r.todo, m, a, b)
    /\ r.off = StartOf(m, a)
    /\ r.sidOff = FlagsUpTo(m.txs, a - 1)

\* The sub tasks of a split block: there are short ids for what is left, and the
\* output has the room, unless the last part of an Ethereum block exceeds it.
SplitPart(t, r, b, a, z) ==
    /\ Part(r, t.msg, a, z)
    /\ FlagsUpTo(t.msg.txs, z) <= Len(t.msg.sids)
    /\ t.proto # "eth" => StartOf(t.msg, z + 1) <= b.len
    /\ t.proto = "eth" => t.large \/ StartOf(t.msg, z + 1) <= b.cap
    /\ r.pc = "copy" => /\ r.todo # <<>>
                        /\ r.gen = b.gen \/ (t.proto = "eth" /\ t.large)

\* The consensus task, which copies to the end of what it has written.
WholePart(t, r, b, a, z) ==
    /\ Part(r, t.msg, a, z)
    /\ z = Len(t.msg.txs)
    /\ FlagsUpTo(t.msg.txs, a - 1) <= Len(t.msg.sids)
    /\ r.pc = "fetch" => b.len = StartOf(t.msg, a)
    /\ r.pc = "copy" => /\ r.todo # <<>>
                        /\ FlagsUpTo(t.msg.txs, a) <= Len(t.msg.sids)
                        /\ b.len = StartOf(t.msg, a + 1)

Parts(lo, hi) ==
    \A w \in Workers : Running(w) =>
        /\ task.proto \in Split => SplitPart(task, worker[w], out, lo[w], hi[w])
        /\ task.proto \notin Split => w = 0 /\ WholePart(task, worker[w], out, lo[w], hi[w])

\* _dispatch, with the part of sub task idx from a to the last entry it has seen.
Dispatching(t, r, a, z) ==
    /\ z = t.count
    /\ Slice(r.todo, t.msg, a, z)
    /\ t.prevOff = StartOf(t.msg, a)
    /\ t.off = StartOf(t.msg, z + 1)
    /\ t.sidOff = FlagsUpTo(t.msg.txs, a - 1)
    /\ t.sidOff + r.sidLen = FlagsUpTo(t.msg.txs, z)
    /\ FlagsUpTo(t.msg.txs, z) <= Len(t.msg.sids)

\* The i-th transaction is in its place in buffer b.
Placed(m, b, i) ==
    \A k \in 1 .. SizeOf[OriginalTx(m, i)] :
        b.cells[StartOf(m, i) + (k - 1)] = <<OriginalTx(m, i), k>>

Busy(w) == Running(w) \/ (task.pc = "dispatch" /\ w = task.idx)

\* Every transaction so far is in its place, or a sub task has it before it.
Covered(lo, hi) ==
    \A i \in 1 .. (IF task.pc = "dispatch" THEN task.count ELSE Len(task.msg.txs)) :
        \/ Placed(task.msg, out, i)
        \/ \E w \in Workers : Busy(w) /\ lo[w] <= i /\ i <= hi[w]

\* Once everything is dispatched: the size of the block, and the header.
Dispatched(t, b) ==
    /\ t.proto \in Split =>
          /\ t.off = StartOf(t.msg, Len(t.msg.txs) + 1)
          /\ FlagsUpTo(t.msg.txs, Len(t.msg.txs)) <= Len(t.msg.sids)
    /\ t.proto \in {"btc", "ont"} => b.len = StartOf(t.msg, Len(t.msg.txs) + 1)
    /\ t.pc = "wait" /\ t.proto # "eth" => b.cells[0] = Header[1]

\* The consensus task after its last transaction.
WholeCopied(t, r, b) ==
    /\ r.off = StartOf(t.msg, Len(t.msg.txs) + 1)
    /\ b.len = r.off
    /\ FlagsUpTo(t.msg.txs, Len(t.msg.txs)) <= Len(t.msg.sids)

Progress(lo, hi) ==
    /\ Parts(lo, hi)
    /\ task.pc = "dispatch" => Dispatching(task, worker[task.idx], lo[task.idx], hi[task.idx])
    /\ task.pc \in {"dispatch", "header", "wait"} => Covered(lo, hi)
    /\ task.pc \in {"header", "wait"} => Dispatched(task, out)
    /\ task.pc = "wait" /\ task.proto = "consensus" /\ worker[0].pc = "completed" =>
          WholeCopied(task, worker[0], out)

Working ==
    /\ worker \in [Workers -> WorkerType]
    /\ Quiet
    /\ \E lo, hi \in [Workers -> Nat] : Progress(lo, hi)

IInv ==
    /\ TypeOK
    /\ Lookups
    /\ HeldOlder
    /\ OutputExact
    /\ CrashesExplained
    /\ Dangling(stale, task.msg, removed)
    /\ crashed = "no" => Working

-----------------------------------------------------------------------------
(* Flags and places.                                                        *)

\* What is assumed of the messages and of the numbers.
LEMMA MessagesOK ==
  ASSUME NEW m \in Messages
  PROVE  /\ m.txs \in Seq(Entries) /\ m.sids \in Seq(Sids \cup {NullSid}) /\ m.size \in Nat
         /\ Len(m.txs) \in Nat /\ Len(m.sids) \in Nat
         /\ DOMAIN m.txs = 1 .. Len(m.txs) /\ DOMAIN m.sids = 1 .. Len(m.sids)
         /\ \A i \in 1 .. Len(m.txs) : m.txs[i] \in Entries
         /\ \A i \in 1 .. Len(m.sids) : m.sids[i] \in Sids \cup {NullSid}
<1>1. /\ m.txs \in Seq(Entries) /\ m.sids \in Seq(Sids \cup {NullSid}) /\ m.size \in Nat
  BY BlockDecompressionAssumption
<1> QED
  BY <1>1

LEMMA Quotient ==
  ASSUME NEW x \in Nat, NEW y \in Nat \ {0}
  PROVE  x \div y \in Nat
  OBVIOUS

LEMMA Sizes ==
  /\ PoolSize \in Nat \ {0} /\ MinimalTx \in Nat \ {0} /\ DefaultTx \in Nat \ {0}
  /\ Capacity \in Nat \ {0} /\ MaxLength \in Nat
  /\ 0 \in Workers /\ Workers \subseteq Nat
  /\ \A h \in Hashes : SizeOf[h] \in Nat \ {0}
  /\ \A s \in Sids : HashOf[s] \in Hashes
  BY BlockDecompressionAssumption DEF Workers

\* One more entry is one more flag or none.
LEMMA FlagsStep ==
  ASSUME NEW txs, NEW n \in Nat
  PROVE  /\ IsFiniteSet({i \in 1 .. n : txs[i] = Short})
         /\ FlagsUpTo(txs, n) \in Nat
         /\ FlagsUpTo(txs, 0) = 0
         /\ txs[n + 1] = Short => FlagsUpTo(txs, n + 1) = FlagsUpTo(txs, n) + 1
         /\ txs[n + 1] # Short => FlagsUpTo(txs, n + 1) = FlagsUpTo(txs, n)
<1> DEFINE A(m) == {i \in 1 .. m : txs[i] = Short}
<1>1. ASSUME NEW m \in Nat PROVE IsFiniteSet(A(m)) /\ Cardinality(A(m)) \in Nat
  <2>1. IsFiniteSet(1 .. m) /\ A(m) \in SUBSET (1 .. m)
    BY FS_Interval
  <2>2. IsFiniteSet(A(m))
    BY <2>1, FS_Subset
  <2> QED
    BY <2>2, FS_CardinalityType
<1>2. Cardinality(A(0)) = 0
  <2>1. A(0) = {}
    OBVIOUS
  <2> QED
    BY <2>1, FS_EmptySet
<1>3. CASE txs[n + 1] = Short
  <2>1. A(n + 1) = A(n) \cup {n + 1} /\ n + 1 \notin A(n)
    BY <1>3
  <2> HIDE DEF A
  <2>2. Cardinality(A(n + 1)) = Cardinality(A(n)) + 1
    BY <1>1, <2>1, FS_AddElement
  <2> QED
    BY <1>1, <1>2, <1>3, <2>2 DEF A, FlagsUpTo
<1>4. CASE txs[n + 1] # Short
  <2>1. A(n + 1) = A(n)
    BY <1>4
  <2> QED
    BY <1>1, <1>2, <1>4, <2>1 DEF FlagsUpTo
<1> QED
  BY <1>3, <1>4

\* No later count is smaller, and a flag is counted.
LEMMA FlagsGrow ==
  ASSUME NEW txs, NEW a \in Nat, NEW b \in Nat, a <= b
  PROVE  /\ FlagsUpTo(txs, a) \in Nat /\ FlagsUpTo(txs, b) \in Nat
         /\ FlagsUpTo(txs, a) <= FlagsUpTo(txs, b)
         /\ a # 0 /\ txs[a] = Short => FlagsUpTo(txs, a) # 0
<1> DEFINE A(m) == {i \in 1 .. m : txs[i] = Short}
<1>1. /\ IsFiniteSet(A(a)) /\ IsFiniteSet(A(b))
      /\ FlagsUpTo(txs, a) \in Nat /\ FlagsUpTo(txs, b) \in Nat
  BY FlagsStep
<1>2. A(a) \in SUBSET A(b) /\ (a # 0 /\ txs[a] = Short => a \in A(a))
  OBVIOUS
<1> HIDE DEF A
<1>3. Cardinality(A(a)) <= Cardinality(A(b))
  BY <1>1, <1>2, FS_Subset
<1>4. a # 0 /\ txs[a] = Short => Cardinality(A(a)) # 0
  BY <1>1, <1>2, FS_EmptySet
<1> QED
  BY <1>1, <1>3, <1>4 DEF A, FlagsUpTo

\* There are short ids, of known transactions, for the first n entries.
Enough(m, n) ==
    /\ n \in 0 .. Len(m.txs)
    /\ FlagsUpTo(m.txs, n) <= Len(m.sids)
    /\ \A j \in 1 .. Len(m.sids) : m.sids[j] \in Sids

LEMMA EnoughForFewer ==
  ASSUME NEW m \in Messages, NEW n, Enough(m, n), NEW i \in 0 .. n
  PROVE  Enough(m, i)
  BY MessagesOK, FlagsGrow DEF Enough

\* Then these entries stand for transactions.
LEMMA OriginalKnown ==
  ASSUME NEW m \in Messages, NEW n, Enough(m, n), NEW i \in 1 .. n
  PROVE  /\ OriginalTx(m, i) \in Hashes
         /\ SizeOf[OriginalTx(m, i)] \in Nat \ {0}
<1>1. i \in 1 .. Len(m.txs) /\ m.txs[i] \in Entries /\ n \in Nat /\ i <= n /\ i \in Nat /\ i # 0
  BY MessagesOK DEF Enough
<1>2. CASE m.txs[i] = Short
  <2>1. FlagsUpTo(m.txs, i) \in 1 .. Len(m.sids)
    BY <1>1, <1>2, FlagsGrow, MessagesOK DEF Enough
  <2> QED
    BY <1>2, <2>1, Sizes DEF OriginalTx, Enough
<1>3. CASE m.txs[i] # Short
  BY <1>1, <1>3, Sizes DEF OriginalTx, Entries
<1> QED
  BY <1>2, <1>3

\* The units of the transactions before the i-th.
UnitsBefore(m, i) == UNION {{j} \X (1 .. SizeOf[OriginalTx(m, j)]) : j \in 1 .. i - 1}

\* A transaction starts where the one before it ends.
LEMMA StartStep ==
  ASSUME NEW m \in Messages, NEW n, Enough(m, n), NEW i \in 1 .. n
  PROVE  /\ IsFiniteSet(UnitsBefore(m, i))
         /\ StartOf(m, i) \in Nat
         /\ StartOf(m, i + 1) = StartOf(m, i) + SizeOf[OriginalTx(m, i)]
<1>0. n \in Nat /\ i \in Nat
  BY MessagesOK DEF Enough
<1>1. ASSUME NEW j \in 1 .. n
      PROVE  /\ IsFiniteSet({j} \X (1 .. SizeOf[OriginalTx(m, j)]))
             /\ Cardinality({j} \X (1 .. SizeOf[OriginalTx(m, j)])) = SizeOf[OriginalTx(m, j)]
  <2>1. SizeOf[OriginalTx(m, j)] \in Nat \ {0}
    BY OriginalKnown
  <2>2. PICK k \in Nat : k = SizeOf[OriginalTx(m, j)] /\ k # 0
    BY <2>1
  <2>3. IsFiniteSet(1 .. k) /\ Cardinality(1 .. k) = k
    <3>1. 1 \in Int /\ k \in Int /\ ~(1 > k) /\ (k - 1) + 1 = k
      BY <2>2
    <3>2. IsFiniteSet(1 .. k) /\ Cardinality(1 .. k) = IF 1 > k THEN 0 ELSE (k - 1) + 1
      BY <3>1, FS_Interval
    <3> QED
      BY <3>1, <3>2
  <2>4. IsFiniteSet({j}) /\ Cardinality({j}) = 1
    BY FS_Singleton
  <2>5. IsFiniteSet({j} \X (1 .. k)) /\ Cardinality({j} \X (1 .. k)) = 1 * k
    <3>1. PICK A, B : A = {j} /\ B = 1 .. k
      OBVIOUS
    <3>2. IsFiniteSet(A \X B) /\ Cardinality(A \X B) = Cardinality(A) * Cardinality(B)
      BY <2>3, <2>4, <3>1, FS_Product
    <3> QED
      BY <2>3, <2>4, <3>1, <3>2, Zenon
  <2> QED
    BY <2>2, <2>5
<1>2. IsFiniteSet(UnitsBefore(m, i))
  <2> DEFINE S == {{j} \X (1 .. SizeOf[OriginalTx(m, j)]) : j \in 1 .. i - 1}
             f == [j \in 1 .. i - 1 |-> {j} \X (1 .. SizeOf[OriginalTx(m, j)])]
  <2>1. f \in Surjection(1 .. i - 1, S)
    <3>1. f \in [1 .. i - 1 -> S] /\ \A s \in S : \E j \in 1 .. i - 1 : f[j] = s
      OBVIOUS
    <3> HIDE DEF f, S
    <3> QED
      BY <3>1, Fun_IsSurj
  <2>2. IsFiniteSet(1 .. i - 1)
    BY <1>0, FS_Interval
  <2>3. \A s \in S : IsFiniteSet(s)
    BY <1>0, <1>1
  <2> HIDE DEF f, S
  <2>4. IsFiniteSet(S)
    BY <2>1, <2>2, FS_Surjection
  <2>5. IsFiniteSet(UNION S)
    BY <2>3, <2>4, FS_UNION
  <2> QED
    BY <2>5 DEF S, UnitsBefore
<1>3. PICK B : B = {i} \X (1 .. SizeOf[OriginalTx(m, i)])
  OBVIOUS
<1>4. UnitsBefore(m, i + 1) = UnitsBefore(m, i) \cup B
  <2>1. 1 .. ((i + 1) - 1) = (1 .. i - 1) \cup {i}
    BY <1>0
  <2> QED
    BY <1>3, <2>1, Zenon DEF UnitsBefore
<1>5. UnitsBefore(m, i) \cap B = {}
  BY <1>0, <1>3 DEF UnitsBefore
<1>6. IsFiniteSet(B) /\ Cardinality(B) = SizeOf[OriginalTx(m, i)]
  BY <1>1, <1>3
<1>7. Cardinality(UnitsBefore(m, i) \cup B)
         = Cardinality(UnitsBefore(m, i)) + Cardinality(B) - Cardinality(UnitsBefore(m, i) \cap B)
  BY <1>2, <1>6, FS_Union
<1>8. Cardinality(UnitsBefore(m, i) \cap B) = 0
  BY <1>5, FS_EmptySet
<1>9. Cardinality(UnitsBefore(m, i)) \in Nat
  BY <1>2, FS_CardinalityType
<1>10. SizeOf[OriginalTx(m, i)] \in Nat
  BY OriginalKnown
<1>11. /\ StartOf(m, i) = 1 + Cardinality(UnitsBefore(m, i))
       /\ StartOf(m, i + 1) = 1 + Cardinality(UnitsBefore(m, i + 1))
  BY Zenon DEF StartOf, UnitsBefore, HeaderSize
<1>12. PICK x \in Nat, y \in Nat : /\ x = Cardinality(UnitsBefore(m, i))
                                   /\ y = SizeOf[OriginalTx(m, i)]
  BY <1>9, <1>10
<1>13. Cardinality(UnitsBefore(m, i + 1)) = x + y
  <2>1. Cardinality(UnitsBefore(m, i + 1)) = Cardinality(UnitsBefore(m, i) \cup B)
    BY <1>4
  <2>2. Cardinality(UnitsBefore(m, i) \cup B) = x + (y - 0)
    <3>1. PICK u, v, w, z : /\ u = Cardinality(UnitsBefore(m, i) \cup B)
                            /\ v = Cardinality(UnitsBefore(m, i) \cap B)
                            /\ w = Cardinality(UnitsBefore(m, i))
                            /\ z = Cardinality(B)
      OBVIOUS
    <3>2. u = w + z - v
      BY <1>7, <3>1, Zenon
    <3>3. v = 0 /\ w = x /\ z = y
      BY <1>6, <1>8, <1>12, <3>1, Zenon
    <3> QED
      BY <3>1, <3>2, <3>3, Zenon
  <2> QED
    BY <1>12, <2>1, <2>2
<1> QED
  BY <1>2, <1>11, <1>12, <1>13

\* The first transaction follows the header.
LEMMA StartFirst ==
  ASSUME NEW m
  PROVE  StartOf(m, 1) = 1 /\ UnitsBefore(m, 1) = {}
<1>1. UnitsBefore(m, 1) = {}
  BY DEF UnitsBefore
<1> QED
  BY <1>1, FS_EmptySet DEF StartOf, UnitsBefore, HeaderSize
\* Later transactions do not start earlier.
LEMMA StartGrows ==
  ASSUME NEW m \in Messages, NEW n, Enough(m, n), NEW a \in 1 .. n + 1, NEW b \in a .. n + 1
  PROVE  /\ StartOf(m, a) \in Nat /\ StartOf(m, b) \in Nat
         /\ 1 <= StartOf(m, a) /\ StartOf(m, a) <= StartOf(m, b)
<1>0. n \in Nat /\ a \in Nat /\ b \in Nat /\ 1 <= a /\ a <= b /\ b <= n + 1
  BY MessagesOK DEF Enough
<1>1. ASSUME NEW i \in 1 .. n + 1
      PROVE  IsFiniteSet(UnitsBefore(m, i)) /\ Cardinality(UnitsBefore(m, i)) \in Nat
  <2>1. CASE i = 1
    BY <2>1, StartFirst, FS_EmptySet
  <2>2. CASE i # 1
    <3>1. i - 1 \in 1 .. n /\ (i - 1) + 1 = i
      BY <1>0, <2>2
    <3>2. StartOf(m, (i - 1) + 1) = StartOf(m, i - 1) + SizeOf[OriginalTx(m, i - 1)]
      BY <3>1, StartStep
    <3>3. CASE i \in 1 .. n
      <4>1. IsFiniteSet(UnitsBefore(m, i))
        BY <3>3, StartStep
      <4> QED
        BY <4>1, FS_CardinalityType
    <3>4. CASE i = n + 1
      <4>1. UnitsBefore(m, i) = UnitsBefore(m, i - 1) \cup ({i - 1} \X (1 .. SizeOf[OriginalTx(m, i - 1)]))
        <5>1. 1 .. i - 1 = (1 .. (i - 1) - 1) \cup {i - 1}
          BY <1>0, <3>1
        <5> QED
          BY <5>1, Zenon DEF UnitsBefore
      <4>2. IsFiniteSet(UnitsBefore(m, i - 1))
        BY <3>1, StartStep
      <4>3. SizeOf[OriginalTx(m, i - 1)] \in Nat
        BY <3>1, OriginalKnown
      <4>4. IsFiniteSet(1 .. SizeOf[OriginalTx(m, i - 1)]) /\ IsFiniteSet({i - 1})
        <5>1. 1 \in Int /\ SizeOf[OriginalTx(m, i - 1)] \in Int
          BY <4>3
        <5> QED
          BY <5>1, FS_Interval, FS_Singleton, Zenon
      <4>5. IsFiniteSet({i - 1} \X (1 .. SizeOf[OriginalTx(m, i - 1)]))
        BY <4>4, FS_Product
      <4>6. IsFiniteSet(UnitsBefore(m, i))
        <5>1. PICK A, B : /\ A = UnitsBefore(m, i - 1)
                          /\ B = {i - 1} \X (1 .. SizeOf[OriginalTx(m, i - 1)])
          OBVIOUS
        <5>2. IsFiniteSet(A \cup B)
          BY <4>2, <4>5, <5>1, FS_Union
        <5> QED
          BY <4>1, <5>1, <5>2
      <4> QED
        BY <4>6, FS_CardinalityType
    <3> QED
      BY <1>0, <3>3, <3>4
  <2> QED
    BY <2>1, <2>2
<1>2. UnitsBefore(m, a) \in SUBSET UnitsBefore(m, b)
  <2>1. 1 .. a - 1 \subseteq 1 .. b - 1
    BY <1>0
  <2> QED
    BY <2>1 DEF UnitsBefore
<1>3. a \in 1 .. n + 1 /\ b \in 1 .. n + 1
  BY <1>0
<1>4. Cardinality(UnitsBefore(m, a)) <= Cardinality(UnitsBefore(m, b))
  BY <1>1, <1>2, <1>3, FS_Subset
<1>5. /\ StartOf(m, a) = 1 + Cardinality(UnitsBefore(m, a))
      /\ StartOf(m, b) = 1 + Cardinality(UnitsBefore(m, b))
  BY Zenon DEF StartOf, UnitsBefore, HeaderSize
<1>6. Cardinality(UnitsBefore(m, a)) \in Nat /\ Cardinality(UnitsBefore(m, b)) \in Nat
  BY <1>1, <1>3
<1>7. PICK x \in Nat, y \in Nat : /\ x = Cardinality(UnitsBefore(m, a))
                                  /\ y = Cardinality(UnitsBefore(m, b))
  BY <1>6
<1> QED
  BY <1>4, <1>5, <1>7

\* The block ends inside the buffers that are modelled.
LEMMA BlockFits ==
  ASSUME NEW m \in Messages, NEW n, Enough(m, n)
  PROVE  StartOf(m, n + 1) \in Nat /\ StartOf(m, n + 1) < MaxLength
<1>1. n \in 0 .. Len(m.txs) /\ FlagsUpTo(m.txs, n) \in Nat /\ Len(m.sids) \in Nat
  <2>1. n \in 0 .. Len(m.txs) /\ n \in Nat /\ Len(m.sids) \in Nat
    BY MessagesOK DEF Enough
  <2> QED
    BY <2>1, FlagsStep
<1>2. ShortIdsSuffice(m, n)
  BY <1>1 DEF Enough, ShortIdsSuffice
<1>3. n + 1 \in 1 .. n + 1 /\ n + 1 \in (n + 1) .. n + 1
  BY <1>1, MessagesOK
<1>4. StartOf(m, n + 1) \in Nat
  BY <1>3, StartGrows
<1> QED
  BY <1>1, <1>2, <1>4, BlockDecompressionAssumption

-----------------------------------------------------------------------------
(* Buffers.                                                                 *)

\* What reserve, resize and the resize of a copy do to a buffer.
LEMMA Resized ==
  ASSUME NEW b \in BufferType, NEW n \in Nat
  PROVE  /\ Reserve(b, n) \in BufferType
         /\ Reserve(b, n).len = b.len /\ Reserve(b, n).cells = b.cells
         /\ Reserve(b, n).gen >= b.gen
         /\ Resize(b, n) \in BufferType
         /\ Resize(b, n).len = n /\ Resize(b, n).cells = b.cells
         /\ Resize(b, n).gen >= b.gen /\ Resize(b, n).cap >= b.cap
         /\ n <= b.cap => Resize(b, n).gen = b.gen /\ Resize(b, n).cap = b.cap
         /\ CopyResize(b, n) \in BufferType
         /\ CopyResize(b, n).cells = b.cells
         /\ CopyResize(b, n).len >= n /\ CopyResize(b, n).len >= b.len
         /\ CopyResize(b, n).gen >= b.gen /\ CopyResize(b, n).cap >= b.cap
         /\ n <= b.cap => CopyResize(b, n).gen = b.gen
         /\ n <= b.len => CopyResize(b, n) = b
         /\ n >= b.len => CopyResize(b, n).len = n
<1>1. PICK r : r = Reserve(b, n)
  OBVIOUS
<1>2. /\ r \in BufferType /\ r.len = b.len /\ r.cells = b.cells
      /\ r.gen >= b.gen /\ r.cap >= b.cap
      /\ n <= b.cap => r.gen = b.gen /\ r.cap = b.cap
  <2>0. b.len \in Nat /\ b.gen \in Nat /\ b.cap \in Nat
    BY DEF BufferType
  <2>1. CASE n > b.cap
    <3>1. r = [b EXCEPT !.cap = n, !.gen = b.gen + 1]
      BY <1>1, <2>1 DEF Reserve
    <3>2. r \in BufferType /\ r.len = b.len /\ r.cells = b.cells /\ r.cap = n /\ r.gen = b.gen + 1
      <4>1. /\ b = [gen |-> b.gen, cap |-> b.cap, len |-> b.len, cells |-> b.cells]
            /\ b.cells \in [Cells -> Unit]
        BY DEF BufferType
      <4>2. r = [gen |-> b.gen + 1, cap |-> n, len |-> b.len, cells |-> b.cells]
        BY <3>1, <4>1
      <4> QED
        BY <2>0, <4>1, <4>2 DEF BufferType
    <3> QED
      BY <2>0, <2>1, <3>2
  <2>2. CASE ~(n > b.cap)
    BY <1>1, <2>0, <2>2 DEF Reserve
  <2> QED
    BY <2>1, <2>2
<1>3. PICK z : z = Resize(b, n)
  OBVIOUS
<1>4. z = [r EXCEPT !.len = n]
  BY <1>1, <1>3 DEF Resize
<1>5. /\ z \in BufferType /\ z.len = n /\ z.cells = b.cells
      /\ z.gen >= b.gen /\ z.cap >= b.cap
      /\ n <= b.cap => z.gen = b.gen /\ z.cap = b.cap
  BY <1>2, <1>4 DEF BufferType
<1>6. CopyResize(b, n) = IF n > b.len THEN z ELSE b
  BY <1>3 DEF CopyResize
<1>7. b.len \in Nat /\ b.gen \in Nat /\ b.cap \in Nat
  BY DEF BufferType
<1> QED
  BY <1>1, <1>2, <1>3, <1>5, <1>6, <1>7

\* Buffer d is b after the resize that comes before a copy up to n.
Roomy(b, d, n) ==
    /\ d \in BufferType /\ d.cells = b.cells
    /\ d.len >= n /\ d.len >= b.len /\ d.gen >= b.gen /\ d.cap >= b.cap
    /\ n <= b.cap => d.gen = b.gen
    /\ n <= b.len => d = b
    /\ n >= b.len => d.len = n

LEMMA CopyRoom ==
  ASSUME NEW b \in BufferType, NEW n \in Nat, NEW d, d = CopyResize(b, n)
  PROVE  Roomy(b, d, n)
  BY Resized DEF Roomy

\* Buffer d is b with length n.
Sized(b, d, n) ==
    /\ d \in BufferType /\ d.cells = b.cells /\ d.len = n
    /\ d.gen >= b.gen /\ d.cap >= b.cap
    /\ n <= b.cap => d.gen = b.gen /\ d.cap = b.cap

LEMMA SizeSet ==
  ASSUME NEW b \in BufferType, NEW n \in Nat, NEW d, d = Resize(b, n)
  PROVE  Sized(b, d, n)
  BY Resized DEF Sized

\* Buffer d is b with n units written at a place, and nothing else.
Written(b, d, at, n, units) ==
    /\ d \in BufferType /\ d.len = b.len /\ d.gen = b.gen /\ d.cap = b.cap
    /\ \A i \in Cells : (i < at \/ i >= at + n) => d.cells[i] = b.cells[i]
    /\ \A k \in 1 .. n : at + (k - 1) \in Cells => d.cells[at + (k - 1)] = units[k]

LEMMA CopyWrites ==
  ASSUME NEW b \in BufferType, NEW at \in Nat, NEW n \in Nat, NEW units \in Seq(Unit),
         Len(units) = n, NEW d, d = Copied(b, at, units)
  PROVE  Written(b, d, at, n, units)
<1>1. PICK c : c = [i \in Cells |->
                      IF i \in at .. at + Len(units) - 1 THEN units[i - at + 1] ELSE b.cells[i]]
  OBVIOUS
<1>2. d = [b EXCEPT !.cells = c]
  BY <1>1 DEF Copied
<1>3. c \in [Cells -> Unit]
  <2> SUFFICES ASSUME NEW i \in Cells
               PROVE  (IF i \in at .. at + Len(units) - 1 THEN units[i - at + 1] ELSE b.cells[i]) \in Unit
    BY <1>1
  <2>1. i \in Int /\ Len(units) \in Nat
    BY Sizes DEF Cells
  <2>2. CASE i \in at .. at + Len(units) - 1
    <3>1. i - at + 1 \in 1 .. Len(units)
      BY <2>1, <2>2
    <3> QED
      BY <2>2, <3>1
  <2>3. CASE i \notin at .. at + Len(units) - 1
    BY <2>3 DEF BufferType
  <2> QED
    BY <2>2, <2>3
<1>4. d \in BufferType /\ d.len = b.len /\ d.gen = b.gen /\ d.cap = b.cap /\ d.cells = c
  BY <1>2, <1>3 DEF BufferType
<1>5. ASSUME NEW i \in Cells, i < at \/ i >= at + n PROVE d.cells[i] = b.cells[i]
  <2>1. i \in Int /\ i \notin at .. at + Len(units) - 1
    BY <1>5, Sizes DEF Cells
  <2> QED
    BY <1>1, <1>4, <2>1
<1>6. ASSUME NEW k \in 1 .. n, at + (k - 1) \in Cells PROVE d.cells[at + (k - 1)] = units[k]
  <2>1. PICK p \in Cells : p = at + (k - 1)
    BY <1>6
  <2>2. p \in at .. at + Len(units) - 1 /\ p - at + 1 = k
    BY <2>1
  <2> QED
    BY <1>1, <1>4, <2>1, <2>2
<1> QED
  BY <1>4, <1>5, <1>6 DEF Written

\* The units of a transaction lie between its start and that of the next one.
LEMMA UnitPlaces ==
  ASSUME NEW m \in Messages, NEW n, Enough(m, n), NEW i \in 1 .. n,
         NEW k \in 1 .. SizeOf[OriginalTx(m, i)]
  PROVE  /\ StartOf(m, i) \in Nat /\ 1 <= StartOf(m, i)
         /\ StartOf(m, i) + (k - 1) \in StartOf(m, i) .. StartOf(m, i + 1) - 1
         /\ StartOf(m, i) + (k - 1) \in Cells
         /\ StartOf(m, i) + (k - 1) # 0
         /\ StartOf(m, i) + (k - 1) < StartOf(m, n + 1)
<1>0. n \in Nat /\ i \in Nat /\ i \in 1 .. n + 1 /\ i + 1 \in 1 .. n + 1 /\ n + 1 \in i + 1 .. n + 1
      /\ i \in i .. n + 1
  BY MessagesOK DEF Enough
<1>1. PICK x \in Nat : x = SizeOf[OriginalTx(m, i)] /\ x # 0
  BY OriginalKnown
<1>2. StartOf(m, i) \in Nat /\ 1 <= StartOf(m, i)
  BY <1>0, StartGrows
<1>3. StartOf(m, i + 1) = StartOf(m, i) + x
  BY <1>1, StartStep
<1>4. StartOf(m, i + 1) <= StartOf(m, n + 1)
  BY <1>0, StartGrows
<1>5. StartOf(m, n + 1) \in Nat /\ StartOf(m, n + 1) < MaxLength /\ MaxLength \in Nat
  BY BlockFits, Sizes
<1>6. k \in 1 .. x
  BY <1>1
<1>7. PICK s, e : s = StartOf(m, i) /\ e = StartOf(m, n + 1)
  OBVIOUS
<1>8. /\ s \in Nat /\ 1 <= s /\ s + (k - 1) \in s .. (s + x) - 1
      /\ s + (k - 1) \in 0 .. MaxLength - 1 /\ s + (k - 1) # 0 /\ s + (k - 1) < e
  BY <1>2, <1>3, <1>4, <1>5, <1>6, <1>7
<1> QED
  BY <1>3, <1>7, <1>8, Zenon DEF Cells

\* Two transactions of a block do not overlap.
LEMMA Apart ==
  ASSUME NEW m \in Messages, NEW n, Enough(m, n), NEW i \in 1 .. n, NEW j \in 1 .. n, i # j,
         NEW p \in StartOf(m, j) .. StartOf(m, j + 1) - 1
  PROVE  p \notin StartOf(m, i) .. StartOf(m, i + 1) - 1
<1>0. n \in Nat /\ i \in Nat /\ j \in Nat
  BY MessagesOK DEF Enough
<1>1. /\ StartOf(m, i) \in Nat /\ StartOf(m, i + 1) \in Nat
      /\ StartOf(m, j) \in Nat /\ StartOf(m, j + 1) \in Nat
  <2>1. /\ i \in 1 .. n + 1 /\ i + 1 \in i .. n + 1
        /\ j \in 1 .. n + 1 /\ j + 1 \in j .. n + 1
    BY <1>0
  <2> QED
    BY <2>1, StartGrows
<1>2. CASE i < j
  <2>1. i + 1 \in 1 .. n + 1 /\ j \in (i + 1) .. n + 1
    BY <1>0, <1>2
  <2>2. StartOf(m, i + 1) <= StartOf(m, j)
    BY <2>1, StartGrows
  <2> QED
    BY <1>1, <2>2
<1>3. CASE j < i
  <2>1. j + 1 \in 1 .. n + 1 /\ i \in (j + 1) .. n + 1
    BY <1>0, <1>3
  <2>2. StartOf(m, j + 1) <= StartOf(m, i)
    BY <2>1, StartGrows
  <2> QED
    BY <1>1, <2>2
<1> QED
  BY <1>0, <1>2, <1>3

\* A transaction is copied: it is in its place, and nothing else is moved.
LEMMA CopyPlaces ==
  ASSUME NEW m \in Messages, NEW n, Enough(m, n), NEW i \in 1 .. n, NEW b \in BufferType,
         NEW c, c = Copied(b, StartOf(m, i), Units(OriginalTx(m, i)))
  PROVE  /\ c \in BufferType /\ c.len = b.len /\ c.gen = b.gen /\ c.cap = b.cap
         /\ c.cells[0] = b.cells[0]
         /\ Placed(m, c, i)
         /\ \A j \in 1 .. n : Placed(m, b, j) => Placed(m, c, j)
<1>1. PICK h \in Hashes, x \in Nat, s \in Nat :
         h = OriginalTx(m, i) /\ x = SizeOf[h] /\ s = StartOf(m, i) /\ x # 0 /\ 1 <= s
  <2>1. 1 \in 1 .. SizeOf[OriginalTx(m, i)]
    BY OriginalKnown
  <2> QED
    BY <2>1, OriginalKnown, UnitPlaces
<1>2. PICK u : u = Units(h)
  OBVIOUS
<1>3. u \in Seq(Unit) /\ Len(u) = x /\ \A k \in 1 .. x : u[k] = <<h, k>>
  <2>1. u = [k \in 1 .. x |-> <<h, k>>]
    BY <1>1, <1>2 DEF Units
  <2>2. \A k \in 1 .. x : <<h, k>> \in Unit
    BY <1>1 DEF Unit
  <2> QED
    BY <1>1, <2>1, <2>2
<1>4. c = Copied(b, s, u)
  BY <1>1, <1>2
<1>5. /\ c \in BufferType /\ c.len = b.len /\ c.gen = b.gen /\ c.cap = b.cap
      /\ \A p \in Cells : (p < s \/ p >= s + x) => c.cells[p] = b.cells[p]
      /\ \A k \in 1 .. x : s + (k - 1) \in Cells => c.cells[s + (k - 1)] = u[k]
  <2>1. Written(b, c, s, x, u)
    BY <1>3, <1>4, CopyWrites
  <2> QED
    BY <2>1 DEF Written
<1>7. StartOf(m, i + 1) = s + x
  BY <1>1, StartStep
<1>8. c.cells[0] = b.cells[0]
  <2>1. 0 \in Cells
    BY BlockFits, Sizes DEF Cells
  <2> QED
    BY <1>1, <1>5, <2>1
<1>9. Placed(m, c, i)
  <2> SUFFICES ASSUME NEW k \in 1 .. x PROVE c.cells[s + (k - 1)] = <<h, k>>
    BY <1>1 DEF Placed
  <2>1. s + (k - 1) \in Cells
    BY <1>1, UnitPlaces
  <2> QED
    BY <1>3, <1>5, <2>1
<1>10. ASSUME NEW j \in 1 .. n, Placed(m, b, j)
       PROVE  Placed(m, c, j)
  <2>1. CASE j = i
    BY <1>9, <2>1
  <2>2. CASE j # i
    <3> SUFFICES ASSUME NEW k \in 1 .. SizeOf[OriginalTx(m, j)]
                 PROVE  c.cells[StartOf(m, j) + (k - 1)] = <<OriginalTx(m, j), k>>
      BY DEF Placed
    <3>1. PICK p : p = StartOf(m, j) + (k - 1)
      OBVIOUS
    <3>2. p \in Cells /\ p \in StartOf(m, j) .. StartOf(m, j + 1) - 1
      BY <3>1, UnitPlaces
    <3>3. p \notin StartOf(m, i) .. StartOf(m, i + 1) - 1
      BY <2>2, <3>2, Apart
    <3>4. p < s \/ p >= s + x
      BY <1>1, <1>7, <3>2, <3>3, Sizes DEF Cells
    <3>5. b.cells[p] = <<OriginalTx(m, j), k>>
      BY <1>10, <3>1 DEF Placed
    <3> QED
      BY <1>5, <3>1, <3>2, <3>4, <3>5
  <2> QED
    BY <2>1, <2>2
<1> QED
  BY <1>5, <1>8, <1>9, <1>10

\* The header is copied before the transactions.
LEMMA HeaderPlaced ==
  ASSUME NEW m \in Messages, NEW n, Enough(m, n), NEW b \in BufferType, NEW c,
         c = Copied(b, 0, Header)
  PROVE  /\ c \in BufferType /\ c.len = b.len /\ c.gen = b.gen /\ c.cap = b.cap
         /\ c.cells[0] = Header[1]
         /\ \A j \in 1 .. n : Placed(m, b, j) => Placed(m, c, j)
<1>1. PICK u \in Seq(Unit), z \in Nat : u = Header /\ Len(u) = 1 /\ z = 0
  BY DEF Header, Unit
<1>2. /\ c \in BufferType /\ c.len = b.len /\ c.gen = b.gen /\ c.cap = b.cap
      /\ \A p \in Cells : (p < z \/ p >= z + 1) => c.cells[p] = b.cells[p]
      /\ \A k \in 1 .. 1 : z + (k - 1) \in Cells => c.cells[z + (k - 1)] = u[k]
  <2>1. c = Copied(b, z, u)
    BY <1>1
  <2>2. Written(b, c, z, 1, u)
    BY <1>1, <2>1, CopyWrites
  <2> QED
    BY <2>2 DEF Written
<1>3. /\ 0 \in Cells /\ 1 \in 1 .. 1 /\ z + (1 - 1) = 0
      /\ \A p \in Cells : p # 0 => p >= z + 1
  BY <1>1, BlockFits, Sizes DEF Cells
<1>4. c.cells[0] = Header[1] /\ \A p \in Cells : p # 0 => c.cells[p] = b.cells[p]
  BY <1>1, <1>2, <1>3
<1>5. ASSUME NEW j \in 1 .. n, Placed(m, b, j)
      PROVE  Placed(m, c, j)
  BY <1>4, <1>5, UnitPlaces DEF Placed
<1> QED
  BY <1>2, <1>4, <1>5

\* The trailer is copied behind them.
LEMMA TrailerPlaced ==
  ASSUME NEW m \in Messages, NEW n, Enough(m, n), NEW b \in BufferType, NEW c,
         c = Copied(b, StartOf(m, n + 1), Trailer)
  PROVE  /\ c \in BufferType /\ c.len = b.len /\ c.gen = b.gen /\ c.cap = b.cap
         /\ c.cells[0] = b.cells[0]
         /\ c.cells[StartOf(m, n + 1)] = Trailer[1]
         /\ \A j \in 1 .. n : Placed(m, b, j) => Placed(m, c, j)
<1>0. PICK e \in Nat : e = StartOf(m, n + 1) /\ e < MaxLength /\ 1 <= e
  <2>1. n \in Nat
    BY MessagesOK DEF Enough
  <2>2. n + 1 \in 1 .. n + 1 /\ n + 1 \in (n + 1) .. n + 1
    BY <2>1
  <2> QED
    BY <2>2, BlockFits, StartGrows
<1>1. PICK u \in Seq(Unit) : u = Trailer /\ Len(u) = 1
  BY DEF Trailer, Unit
<1>2. /\ c \in BufferType /\ c.len = b.len /\ c.gen = b.gen /\ c.cap = b.cap
      /\ \A p \in Cells : (p < e \/ p >= e + 1) => c.cells[p] = b.cells[p]
      /\ \A k \in 1 .. 1 : e + (k - 1) \in Cells => c.cells[e + (k - 1)] = u[k]
  <2>1. c = Copied(b, e, u)
    BY <1>0, <1>1
  <2>2. Written(b, c, e, 1, u)
    BY <1>1, <2>1, CopyWrites
  <2> QED
    BY <2>2 DEF Written
<1>3. e \in Cells /\ 0 \in Cells /\ 1 \in 1 .. 1 /\ e + (1 - 1) = e
  BY <1>0, Sizes DEF Cells
<1>4. c.cells[e] = Trailer[1] /\ \A p \in Cells : p < e => c.cells[p] = b.cells[p]
  BY <1>1, <1>2, <1>3
<1>5. ASSUME NEW j \in 1 .. n, Placed(m, b, j)
      PROVE  Placed(m, c, j)
  <2> SUFFICES ASSUME NEW k \in 1 .. SizeOf[OriginalTx(m, j)]
               PROVE  c.cells[StartOf(m, j) + (k - 1)] = <<OriginalTx(m, j), k>>
    BY DEF Placed
  <2>1. StartOf(m, j) + (k - 1) \in Cells /\ StartOf(m, j) + (k - 1) < e
    BY <1>0, UnitPlaces
  <2> QED
    BY <1>4, <1>5, <2>1 DEF Placed
<1> QED
  BY <1>0, <1>2, <1>3, <1>4, <1>5

-----------------------------------------------------------------------------
(* What every step has to give.                                            *)

\* The block has been put together in buffer b.
Built(m, proto, b) ==
    /\ b.cells[0] = Header[1]
    /\ \A i \in 1 .. Len(m.txs) : Placed(m, b, i)
    /\ proto # "btc" => b.cells[StartOf(m, Len(m.txs) + 1)] = Trailer[1]
    /\ b.len = IF proto = "btc" THEN StartOf(m, Len(m.txs) + 1) ELSE StartOf(m, Len(m.txs) + 1) + 1

LEMMA BuiltExact ==
  ASSUME NEW m \in Messages, NEW proto, NEW b, Built(m, proto, b),
         NEW i \in DOMAIN m.txs, NEW k \in 1 .. SizeOf[OriginalTx(m, i)]
  PROVE  b.cells[StartOf(m, i) + k - 1] = Units(OriginalTx(m, i))[k]
<1>1. i \in 1 .. Len(m.txs)
  BY MessagesOK
<1>2. b.cells[StartOf(m, i) + (k - 1)] = <<OriginalTx(m, i), k>>
  BY <1>1 DEF Built, Placed
<1>3. Units(OriginalTx(m, i))[k] = <<OriginalTx(m, i), k>>
  BY DEF Units
<1> QED
  BY <1>2, <1>3, Zenon

\* A step of the task that looks nothing up and leaves the caller alone.
Aside ==
    /\ UNCHANGED held
    /\ task' \in TaskType /\ out' \in BufferType
    /\ out'.gen >= out.gen
    /\ task'.proto = task.proto /\ task'.msg = task.msg /\ task'.checked = task.checked
    /\ task'.unknownHashes = task.unknownHashes /\ task'.unknownSids = task.unknownSids

Local == Aside /\ UNCHANGED service

\* A service that does nothing.
LEMMA Steady ==
  ASSUME IInv, UNCHANGED service
  PROVE  Grows
  BY DEF IInv, TypeOK, service, Grows, HasContents

LEMMA AsideKeeps ==
  ASSUME IInv, Aside, Grows,
         task'.pc # "check" => task.checked = Len(task.msg.sids),
         task'.pc \in {"dispatch", "header", "wait", "failed"} => Success,
         task'.pc # "done" => task.pc # "done",
         task'.pc = "done" /\ Success => task.msg \in Messages /\ Built(task.msg, task.proto, out'),
         CrashesExplained', crashed' = "no" => Working'
  PROVE  IInv'
<1>1. TypeOK'
  BY DEF IInv, TypeOK, Aside, Grows
<1>2. Lookups'
  <2>1. \A s : Settled(s) => Settled(s)'
    BY DEF Settled, Aside, Grows
  <2> QED
    BY <2>1 DEF IInv, Lookups, Aside, Success
<1>3. HeldOlder'
  <2>1. out.gen \in Nat /\ out'.gen \in Nat
    BY DEF IInv, TypeOK, Aside, BufferType
  <2> QED
    BY <2>1 DEF IInv, HeldOlder, Aside
<1>4. OutputExact'
  <2>1. held' = <<out'.gen>> => task'.pc = "done"
    BY <1>1, <1>3 DEF HeldOlder, TypeOK, BufferType
  <2>2. CASE task'.pc = "done" /\ Success
    <3>1. PICK m, proto, b : m \in Messages /\ m = task'.msg /\ proto = task'.proto /\ b = out'
      BY <2>2 DEF Aside
    <3>2. Built(m, proto, b)
      BY <2>2, <3>1 DEF Aside
    <3>3. \A i \in DOMAIN m.txs : \A k \in 1 .. SizeOf[OriginalTx(m, i)] :
             b.cells[StartOf(m, i) + k - 1] = Units(OriginalTx(m, i))[k]
      BY <3>1, <3>2, BuiltExact
    <3> QED
      BY <2>1, <3>1, <3>2, <3>3, Zenon DEF OutputExact, Built
  <2>3. CASE ~(task'.pc = "done" /\ Success)
    <3>1. Success' <=> Success
      BY DEF Success, Aside
    <3> QED
      BY <2>1, <2>3, <3>1 DEF OutputExact
  <2> QED
    BY <2>2, <2>3
<1>5. Dangling(stale', task'.msg, removed')
  BY DEF Aside, Grows
<1> QED
  BY <1>1, <1>2, <1>3, <1>4, <1>5 DEF IInv

LEMMA LocalKeeps ==
  ASSUME IInv, Local,
         task'.pc # "check" => task.checked = Len(task.msg.sids),
         task'.pc \in {"dispatch", "header", "wait", "failed"} => Success,
         task'.pc # "done" => task.pc # "done",
         task'.pc = "done" /\ Success => task.msg \in Messages /\ Built(task.msg, task.proto, out'),
         CrashesExplained', crashed' = "no" => Working'
  PROVE  IInv'
<1>1. Aside /\ Grows
  BY Steady DEF Local
<1> QED
  BY <1>1, AsideKeeps

\* No crash needs no explanation.
LEMMA NoCrash ==
  ASSUME crashed' = "no"
  PROVE  CrashesExplained'
  BY DEF CrashesExplained

\* While a block is worked on, all its short ids are known: each of them has its
\* contents, unless its transaction was removed meanwhile.
LEMMA AtWork ==
  ASSUME IInv, Working, task.pc \in {"dispatch", "header", "wait", "failed"}
  PROVE  /\ task.msg \in Messages /\ Success
         /\ task.checked = Len(task.msg.sids)
         /\ \A n \in 0 .. Len(task.msg.txs) :
               FlagsUpTo(task.msg.txs, n) <= Len(task.msg.sids) => Enough(task.msg, n)
         /\ \A j \in 1 .. Len(task.msg.sids) :
               ~HasContents(task.msg.sids[j]) =>
                  \E s \in Elements(task.msg.sids) : HashOf[s] \in removed
<1>1. task.msg \in Messages
  BY DEF Working, Quiet
<1>2. Success /\ task.checked = Len(task.msg.sids)
  BY DEF IInv, Lookups
<1>3. Elements(task.unknownSids) = {} /\ Elements(task.unknownHashes) = {}
  BY <1>2 DEF Success, Elements
<1>4. ASSUME NEW j \in 1 .. Len(task.msg.sids)
      PROVE  /\ task.msg.sids[j] \in Sids
             /\ HashOf[task.msg.sids[j]] \in removed \/ HasContents(task.msg.sids[j])
             /\ task.msg.sids[j] \in Elements(task.msg.sids)
  <2>1. Settled(task.msg.sids[j])
    BY <1>2 DEF IInv, Lookups
  <2>2. j \in DOMAIN task.msg.sids
    BY <1>1, MessagesOK
  <2> QED
    BY <1>3, <2>1, <2>2 DEF Settled, Elements
<1> QED
  BY <1>1, <1>2, <1>4 DEF Enough

\* One worker's record is replaced.
LEMMA WorkerSet ==
  ASSUME worker \in [Workers -> WorkerType], NEW w \in Workers, NEW q \in WorkerType,
         worker' = [worker EXCEPT ![w] = q]
  PROVE  /\ worker' \in [Workers -> WorkerType]
         /\ worker'[w] = q
         /\ \A v \in Workers : v # w => worker'[v] = worker[v]
  OBVIOUS

-----------------------------------------------------------------------------
(* The service, the first state, and what comes before the dispatch.        *)

\* Steps of the service: a short id that is settled stays so.
LEMMA ServiceKeeps ==
  ASSUME IInv, crashed = "no", UNCHANGED <<task, worker, out, held, crashed>>, Grows
  PROVE  IInv'
<1>1. TypeOK'
  BY DEF IInv, TypeOK, Grows
<1>2. Lookups'
  <2>1. \A s : Settled(s) => Settled(s)'
    BY DEF Settled, Grows
  <2> QED
    BY <2>1 DEF IInv, Lookups, Success
<1>3. HeldOlder' /\ OutputExact' /\ CrashesExplained'
  BY NoCrash DEF IInv, HeldOlder, OutputExact, Success
<1>4. Working'
  <2>1. Working /\ \A w : (Running(w)' <=> Running(w)) /\ (Busy(w)' <=> Busy(w))
    BY DEF IInv, Running, Busy
  <2>2. Quiet'
    BY <2>1 DEF Working, Quiet
  <2>3. \A lo, hi : Progress(lo, hi) => Progress(lo, hi)'
    <3>1. \A lo, hi : Parts(lo, hi) => Parts(lo, hi)'
      BY <2>1 DEF Parts
    <3>2. \A lo, hi : Covered(lo, hi) => Covered(lo, hi)'
      BY <2>1 DEF Covered
    <3> QED
      BY <3>1, <3>2 DEF Progress
  <2> QED
    BY <2>1, <2>2, <2>3 DEF Working
<1>5. Dangling(stale', task'.msg, removed')
  BY DEF Grows
<1> QED
  BY <1>1, <1>2, <1>3, <1>4, <1>5 DEF IInv

LEMMA InitOK == Init => IInv
<1> SUFFICES ASSUME Init PROVE IInv
  OBVIOUS
<1>0. PICK p \in Protocols :
          task = [proto |-> p, pc |-> "idle", msg |-> NoMessage,
                  checked |-> 0, unknownHashes |-> <<>>, unknownSids |-> <<>>,
                  count |-> 0, idx |-> 0, off |-> 0, prevOff |-> 0, sidOff |-> 0,
                  large |-> FALSE, threw |-> FALSE, error |-> FALSE,
                  released |-> FALSE, blocks |-> 0]
  BY DEF Init, NoMessage
<1>1. TypeOK
  <2>1. task \in TaskType
    BY <1>0, Sizes DEF TaskType
  <2>2. out \in BufferType
    BY Sizes DEF Init, NewBuffer, BufferType, Unit
  <2> QED
    BY <2>1, <2>2, BlockDecompressionAssumption DEF Init, TypeOK
<1>2. Lookups
  BY <1>0 DEF Lookups, NoMessage, Elements
<1>3. HeldOlder /\ OutputExact /\ CrashesExplained
  BY <1>0 DEF Init, HeldOlder, OutputExact, CrashesExplained
<1>4. Working
  <2>1. worker \in [Workers -> WorkerType] /\ \A w \in Workers : worker[w].pc = "new"
    BY Sizes DEF Init, NewWorker, WorkerType
  <2>2. Quiet
    BY <1>0, <2>1 DEF Quiet, Running
  <2>3. PICK z \in [Workers -> Nat] : TRUE
    <3>1. [w \in Workers |-> 0] \in [Workers -> Nat]
      OBVIOUS
    <3> QED
      BY <3>1
  <2>4. Progress(z, z)
    BY <1>0, <2>1 DEF Progress, Parts, Running
  <2> QED
    BY <2>1, <2>2, <2>3, <2>4 DEF Working
<1>5. Dangling(stale, task.msg, removed)
  BY DEF Init, Dangling
<1> QED
  BY <1>1, <1>2, <1>3, <1>4, <1>5 DEF IInv

\* The buffer of the next block is empty, and not the one the caller keeps.
FreshBuffer(b) ==
    /\ b \in BufferType /\ b.len = 0
    /\ b.gen >= out.gen /\ (held = <<out.gen>> => b.gen > out.gen)

LEMMA OutputFresh ==
  ASSUME IInv, NEW n \in Nat
  PROVE  FreshBuffer(OutputFor(n))
<1>0. out \in BufferType /\ out.gen \in Nat /\ out.cap \in Nat
  BY DEF IInv, TypeOK, BufferType
<1>1. CASE held = <<out.gen>>
  <2>1. PICK g \in Nat, c \in Nat : g = out.gen + 1 /\ c = Larger(n, out.cap)
    BY <1>0 DEF Larger
  <2>2. OutputFor(n) = NewBuffer(g, c)
    BY <1>1, <2>1 DEF OutputFor
  <2>3. NewBuffer(g, c) \in BufferType /\ NewBuffer(g, c).len = 0 /\ NewBuffer(g, c).gen = g
    BY DEF NewBuffer, BufferType, Unit
  <2> QED
    BY <1>0, <2>1, <2>2, <2>3 DEF FreshBuffer
<1>2. CASE held # <<out.gen>>
  <2>1. PICK r \in BufferType : r = Reserve(out, n) /\ r.gen >= out.gen
    BY <1>0, Resized
  <2>2. PICK b \in BufferType : b = Resize(r, 0) /\ b.len = 0 /\ b.gen >= r.gen
    BY Resized
  <2>3. OutputFor(n) = b
    BY <1>2, <2>1, <2>2 DEF OutputFor, Reset
  <2>4. r.gen \in Nat /\ b.gen \in Nat
    BY DEF BufferType
  <2> QED
    BY <1>0, <1>2, <2>1, <2>2, <2>3, <2>4 DEF FreshBuffer
<1> QED
  BY <1>1, <1>2

\* The task object takes the next block.
LEMMA InitTaskOK ==
  ASSUME IInv, crashed = "no", NEW m \in Messages, NEW b, FreshBuffer(b), InitTask(m, b)
  PROVE  IInv'
<1>0. Working /\ task \in TaskType /\ out \in BufferType
  BY DEF IInv, TypeOK
<1>1. /\ task' \in TaskType
      /\ task'.pc = "check" /\ task'.msg = m /\ task'.checked = 0
      /\ task'.unknownHashes = <<>> /\ task'.unknownSids = <<>>
      /\ task'.large = FALSE /\ task'.threw = task.threw
  <2>1. /\ task.proto \in Protocols /\ task.count \in Nat /\ task.idx \in Workers
        /\ task.off \in Nat /\ task.prevOff \in Nat /\ task.sidOff \in Nat
        /\ task.threw \in BOOLEAN /\ task.blocks \in Nat
    BY <1>0 DEF TaskType
  <2>2. PICK none : none = <<>>
    OBVIOUS
  <2>3. task = [proto |-> task.proto, pc |-> task.pc, msg |-> task.msg, checked |-> task.checked,
                unknownHashes |-> task.unknownHashes, unknownSids |-> task.unknownSids,
                count |-> task.count, idx |-> task.idx, off |-> task.off,
                prevOff |-> task.prevOff, sidOff |-> task.sidOff, large |-> task.large,
                threw |-> task.threw, error |-> task.error, released |-> task.released,
                blocks |-> task.blocks]
    BY <1>0 DEF TaskType
  <2>4. task' = [proto |-> task.proto, pc |-> "check", msg |-> m, checked |-> 0,
                 unknownHashes |-> none, unknownSids |-> none,
                 count |-> task.count, idx |-> task.idx, off |-> task.off,
                 prevOff |-> task.prevOff, sidOff |-> task.sidOff, large |-> FALSE,
                 threw |-> task.threw, error |-> FALSE, released |-> FALSE,
                 blocks |-> task.blocks + 1]
    BY <2>2, <2>3 DEF InitTask, Fresh
  <2>5. none \in Seq(Hashes) /\ none \in Seq(Sids \cup {NullSid})
    BY <2>2
  <2> QED
    BY <2>1, <2>2, <2>4, <2>5 DEF TaskType
<1>2. TypeOK'
  BY <1>1 DEF InitTask, FreshBuffer, IInv, TypeOK
<1>3. Lookups'
  BY <1>1, MessagesOK DEF Lookups, Elements
<1>4. HeldOlder'
  <2>1. out.gen \in Nat /\ out'.gen \in Nat /\ out' = b /\ held' = held
    BY <1>0, <1>2 DEF TypeOK, BufferType, InitTask
  <2> SUFFICES ASSUME held # <<>>
               PROVE  held = <<held[1]>> /\ held[1] \in 0 .. out'.gen /\ held[1] < out'.gen
    BY <2>1 DEF HeldOlder
  <2>2. held = <<held[1]>> /\ held[1] \in 0 .. out.gen
    BY DEF IInv, HeldOlder
  <2>3. CASE held[1] = out.gen
    <3>1. held = <<out.gen>>
      BY <2>2, <2>3
    <3> QED
      BY <2>1, <2>2, <3>1 DEF FreshBuffer
  <2>4. CASE held[1] # out.gen
    BY <2>1, <2>2, <2>4 DEF FreshBuffer
  <2> QED
    BY <2>3, <2>4
<1>5. OutputExact'
  <2>1. held' # <<out'.gen>>
    <3>1. PICK g, k : g \in Nat /\ g = out'.gen /\ k = held'
      BY <1>2 DEF TypeOK, BufferType
    <3>2. k # <<>> => k[1] < g
      BY <1>1, <1>4, <3>1 DEF HeldOlder
    <3>3. k # <<g>>
      BY <3>1, <3>2
    <3> QED
      BY <3>1, <3>3
  <2> QED
    BY <1>1, <2>1 DEF OutputExact
<1>6. CrashesExplained'
  <2>1. CASE \E w \in Workers : Running(w)
    <3>1. crashed' = "block freed" /\ task.threw
      BY <1>0, <2>1 DEF InitTask, Working, Quiet
    <3> QED
      BY <1>1, <3>1 DEF CrashesExplained
  <2>2. CASE ~\E w \in Workers : Running(w)
    <3>1. crashed' = "no"
      BY <2>2 DEF InitTask
    <3> QED
      BY <3>1, NoCrash
  <2> QED
    BY <2>1, <2>2
<1>7. ASSUME crashed' = "no" PROVE Working'
  <2>1. worker' = worker /\ \A w \in Workers : ~Running(w)
    BY <1>7 DEF InitTask
  <2>2. \A w \in Workers : ~Running(w)'
    BY <2>1 DEF Running
  <2>3. Quiet'
    <3>1. task'.pc = "check" /\ task'.msg \in Messages /\ ~task'.large /\ out'.len = 0
      BY <1>1 DEF InitTask, FreshBuffer
    <3> QED
      BY <2>2, <3>1 DEF Quiet
  <2>4. PICK lo \in [Workers -> Nat], hi \in [Workers -> Nat] : Progress(lo, hi)
    BY <1>0 DEF Working
  <2>5. Progress(lo, hi)'
    BY <1>1, <2>2 DEF Progress, Parts
  <2> QED
    BY <1>0, <2>1, <2>3, <2>4, <2>5 DEF Working
<1>8. Dangling(stale', task'.msg, removed')
  BY DEF InitTask, Dangling
<1> QED
  BY <1>2, <1>3, <1>4, <1>5, <1>6, <1>7, <1>8 DEF IInv

LEMMA BlocksStart ==
  ASSUME IInv, crashed = "no", NEW m \in Messages,
         BtcInit(m) \/ OntInit(m) \/ EthInit(m) \/ ConsensusInit(m)
  PROVE  IInv'
<1>0. m.size \in Nat /\ out.cap \in Nat /\ out \in BufferType
  BY MessagesOK DEF IInv, TypeOK, BufferType
<1>1. CASE BtcInit(m) \/ OntInit(m)
  BY <1>0, <1>1, OutputFresh, InitTaskOK DEF BtcInit, OntInit
<1>2. CASE EthInit(m)
  BY <1>0, <1>2, OutputFresh, InitTaskOK DEF EthInit
<1>3. CASE ConsensusInit(m)
  <2>1. PICK b : b = OutputFor(out.cap) /\ FreshBuffer(b)
    BY <1>0, OutputFresh
  <2>2. PICK r \in BufferType : r = Reserve(b, m.size) /\ r.gen >= b.gen
    <3>1. b \in BufferType
      BY <2>1 DEF FreshBuffer
    <3> QED
      BY <1>0, <3>1, Resized
  <2>3. PICK z \in BufferType : z = Resize(r, 0) /\ z.len = 0 /\ z.gen >= r.gen
    BY Resized
  <2>4. r.gen \in Nat /\ z.gen \in Nat /\ b.gen \in Nat /\ out.gen \in Nat
    BY <1>0, <2>1 DEF BufferType, FreshBuffer
  <2>5. FreshBuffer(z)
    BY <2>1, <2>2, <2>3, <2>4 DEF FreshBuffer
  <2>6. InitTask(m, z)
    BY <1>3, <2>1, <2>2, <2>3 DEF ConsensusInit, Reset
  <2> QED
    BY <2>5, <2>6, InitTaskOK
<1> QED
  BY <1>1, <1>2, <1>3

LEMMA ElementsAppend ==
  ASSUME NEW S, NEW q \in Seq(S), NEW x \in S
  PROVE  Append(q, x) \in Seq(S) /\ Elements(Append(q, x)) = Elements(q) \cup {x}
<1>0. PICK r : r = Append(q, x)
  OBVIOUS
<1>1. /\ r \in Seq(S) /\ Len(r) = Len(q) + 1 /\ Len(q) \in Nat
      /\ DOMAIN r = 1 .. Len(r) /\ DOMAIN q = 1 .. Len(q)
      /\ r[Len(q) + 1] = x /\ \A i \in 1 .. Len(q) : r[i] = q[i]
  BY <1>0
<1>2. DOMAIN r = (DOMAIN q) \cup {Len(q) + 1}
  BY <1>1
<1> QED
  BY <1>0, <1>1, <1>2 DEF Elements

\* A task without running sub tasks that neither dispatches nor waits.
LEMMA Resting ==
  ASSUME Working, worker' = worker, \A w \in Workers : ~Running(w),
         task'.pc \in {"check", "done", "failed"}, Quiet'
  PROVE  Working'
<1>1. \A w \in Workers : ~Running(w)'
  BY DEF Running
<1>2. PICK lo \in [Workers -> Nat], hi \in [Workers -> Nat] : Progress(lo, hi)
  BY DEF Working
<1>3. Progress(lo, hi)'
  BY <1>1 DEF Progress, Parts
<1> QED
  BY <1>2, <1>3 DEF Working

\* The j-th short id has been looked up: t is the task before, u after it.
LookedUp(t, u, j, s) ==
    /\ u \in TaskType
    /\ u.pc = "check" /\ u.msg = t.msg /\ u.large = t.large
    /\ u.checked = j
    /\ Elements(t.unknownSids) \subseteq Elements(u.unknownSids)
    /\ Elements(u.unknownSids) \subseteq Elements(t.unknownSids) \cup {s}
    /\ Elements(t.unknownHashes) \subseteq Elements(u.unknownHashes)
    /\ \A h \in Elements(u.unknownHashes) :
          h \in Elements(t.unknownHashes) \/ (h = HashOf[s] /\ s # NullSid)
    /\ \/ s \in Elements(u.unknownSids)
       \/ s \in Sids /\ s # NullSid /\ (HashOf[s] \in Elements(u.unknownHashes) \/ HasContents(s))

\* The task before a lookup.
LEMMA BeforeLookup ==
  ASSUME IInv, Working, CheckLooksUp
  PROVE  /\ task \in TaskType /\ task.pc = "check" /\ task.msg \in Messages
         /\ \A w \in Workers : ~Running(w)
         /\ task.checked \in Nat /\ task.checked + 1 \in 1 .. Len(task.msg.sids)
         /\ task.msg.sids[task.checked + 1] \in Sids \cup {NullSid}
         /\ task.msg.sids[task.checked + 1] \in Elements(task.msg.sids)
         /\ task.unknownSids \in Seq(Sids \cup {NullSid}) /\ task.unknownHashes \in Seq(Hashes)
<1>0. task \in TaskType /\ task.pc = "check" /\ task.msg \in Messages /\ \A w \in Workers : ~Running(w)
  BY DEF IInv, TypeOK, Working, Quiet, CheckLooksUp
<1>1. /\ task.checked \in Nat /\ task.unknownSids \in Seq(Sids \cup {NullSid})
      /\ task.unknownHashes \in Seq(Hashes)
  BY <1>0 DEF TaskType
<1>2. /\ Len(task.msg.sids) \in Nat /\ DOMAIN task.msg.sids = 1 .. Len(task.msg.sids)
      /\ \A i \in 1 .. Len(task.msg.sids) : task.msg.sids[i] \in Sids \cup {NullSid}
  BY <1>0, MessagesOK
<1>3. task.checked + 1 \in 1 .. Len(task.msg.sids)
  BY <1>1, <1>2 DEF CheckLooksUp
<1> QED
  BY <1>0, <1>1, <1>2, <1>3 DEF Elements

\* A short id that is found, or added to a list, is settled, whatever else changes.
LEMMA LookupSettles ==
  ASSUME IInv, crashed = "no", CheckLooksUp, Grows, UNCHANGED <<worker, out, held, crashed>>,
         NEW j, NEW s, j = task.checked + 1, s = task.msg.sids[j],
         LookedUp(task, task', j, s)
  PROVE  IInv'
<1>0. /\ Working /\ task \in TaskType /\ task.pc = "check" /\ task.msg \in Messages
      /\ \A w \in Workers : ~Running(w)
      /\ UNCHANGED <<worker, out, held, crashed>>
  BY BeforeLookup DEF IInv
<1>1. /\ j \in 1 .. Len(task.msg.sids) /\ task.checked \in Nat
      /\ s \in Sids \cup {NullSid} /\ s \in Elements(task.msg.sids)
  BY <1>0, BeforeLookup
<1>2. /\ task' \in TaskType
      /\ task'.pc = "check" /\ task'.msg = task.msg /\ task'.large = task.large
      /\ task'.checked = j
      /\ Elements(task.unknownSids) \subseteq Elements(task'.unknownSids)
      /\ Elements(task'.unknownSids) \subseteq Elements(task.unknownSids) \cup {s}
      /\ Elements(task.unknownHashes) \subseteq Elements(task'.unknownHashes)
      /\ \A h \in Elements(task'.unknownHashes) :
            h \in Elements(task.unknownHashes) \/ (h = HashOf[s] /\ s # NullSid)
      /\ \/ s \in Elements(task'.unknownSids)
         \/ s \in Sids /\ s # NullSid /\ (HashOf[s] \in Elements(task'.unknownHashes) \/ HasContents(s))
  BY DEF LookedUp
<1>3. TypeOK'
  BY <1>0, <1>2 DEF IInv, TypeOK, Grows
<1>4. Lookups'
  <2>1. \A u : Settled(u) => Settled(u)'
    BY <1>0, <1>2 DEF Settled, Grows
  <2>2. Settled(s)'
    BY <1>0, <1>2 DEF Settled, Grows
  <2>3. \A i \in 1 .. j : Settled(task.msg.sids[i])'
    <3>1. \A i \in 1 .. j : i = j \/ i \in 1 .. task.checked
      BY <1>1
    <3>2. PICK ids : ids = task.msg.sids
      OBVIOUS
    <3>3. ids = task'.msg.sids /\ ids[j] = s
      BY <1>2, <3>2
    <3>4. \A i \in 1 .. task.checked : Settled(ids[i])
      BY <3>2 DEF IInv, Lookups
    <3>5. \A i \in 1 .. j : Settled(ids[i])'
      BY <2>1, <2>2, <3>1, <3>3, <3>4
    <3> QED
      BY <3>3, <3>5
  <2>4. j <= Len(task.msg.sids)
    BY <1>1
  <2>5. Elements(task'.unknownSids) \subseteq Elements(task.msg.sids)
    BY <1>1, <1>2 DEF IInv, Lookups
  <2>6. Elements(task'.unknownHashes) \subseteq {HashOf[u] : u \in Elements(task.msg.sids) \ {NullSid}}
    BY <1>1, <1>2 DEF IInv, Lookups
  <2> QED
    BY <1>2, <2>3, <2>4, <2>5, <2>6 DEF Lookups
<1>5. HeldOlder' /\ OutputExact' /\ CrashesExplained'
  <2>1. HeldOlder'
    BY <1>0, <1>2 DEF IInv, HeldOlder
  <2>2. OutputExact'
    BY <1>0, <1>2 DEF IInv, OutputExact
  <2> QED
    BY <1>0, <2>1, <2>2, NoCrash
<1>6. Working'
  <2>1. Quiet'
    BY <1>0, <1>2 DEF Working, Quiet, Running
  <2> QED
    BY <1>0, <1>2, <2>1, Resting
<1>7. Dangling(stale', task'.msg, removed')
  BY <1>2 DEF Grows
<1> QED
  BY <1>3, <1>4, <1>5, <1>6, <1>7 DEF IInv

\* The parts of a task that say where _dispatch is.

\* A short id goes to the first list, or its transaction to the second.
LEMMA ListedSid ==
  ASSUME IInv, Working, CheckLooksUp, NEW j, NEW s, j = task.checked + 1, s = task.msg.sids[j],
         task' = [task EXCEPT !.checked = @ + 1, !.unknownSids = Append(@, s)]
  PROVE  LookedUp(task, task', j, s)
<1>1. /\ task \in TaskType /\ task.pc = "check" /\ j \in Nat
      /\ s \in Sids \cup {NullSid} /\ task.unknownSids \in Seq(Sids \cup {NullSid})
  BY BeforeLookup
<1>2. PICK q : q = Append(task.unknownSids, s)
  OBVIOUS
<1>3. q \in Seq(Sids \cup {NullSid}) /\ Elements(q) = Elements(task.unknownSids) \cup {s}
  BY <1>1, <1>2, ElementsAppend
<1>4. task' = [task EXCEPT !.checked = j, !.unknownSids = q]
  BY <1>1, <1>2
<1>5. /\ task' \in TaskType
      /\ task'.pc = "check" /\ task'.msg = task.msg /\ task'.large = task.large
      /\ task'.checked = j /\ task'.unknownSids = q /\ task'.unknownHashes = task.unknownHashes
  BY <1>1, <1>3, <1>4 DEF TaskType
<1> QED
  BY <1>3, <1>5 DEF LookedUp

LEMMA ListedHash ==
  ASSUME IInv, Working, CheckLooksUp, NEW j, NEW s, j = task.checked + 1, s = task.msg.sids[j],
         s \in known, s # NullSid,
         task' = [task EXCEPT !.checked = @ + 1, !.unknownHashes = Append(@, HashOf[s])]
  PROVE  LookedUp(task, task', j, s)
<1>1. /\ task \in TaskType /\ task.pc = "check" /\ j \in Nat
      /\ task.unknownHashes \in Seq(Hashes)
  BY BeforeLookup
<1>2. PICK q : q = Append(task.unknownHashes, HashOf[s])
  OBVIOUS
<1>3. s \in Sids /\ HashOf[s] \in Hashes
  BY Sizes DEF IInv, TypeOK
<1>4. q \in Seq(Hashes) /\ Elements(q) = Elements(task.unknownHashes) \cup {HashOf[s]}
  BY <1>1, <1>2, <1>3, ElementsAppend
<1>5. task' = [task EXCEPT !.checked = j, !.unknownHashes = q]
  BY <1>1, <1>2
<1>6. /\ task' \in TaskType
      /\ task'.pc = "check" /\ task'.msg = task.msg /\ task'.large = task.large
      /\ task'.checked = j /\ task'.unknownSids = task.unknownSids /\ task'.unknownHashes = q
  BY <1>1, <1>4, <1>5 DEF TaskType
<1> QED
  BY <1>3, <1>4, <1>6 DEF LookedUp

\* get_missing_transactions: the next short id is settled.
LEMMA LookupOK ==
  ASSUME IInv, crashed = "no", GetMissingTransactions
  PROVE  IInv'
<1>0. /\ Working /\ CheckLooksUp /\ Grows
      /\ UNCHANGED <<worker, out, held, crashed>>
  BY Steady DEF IInv, GetMissingTransactions, CheckLooksUp
<1> PICK j, s : j = task.checked + 1 /\ s = task.msg.sids[j]
  OBVIOUS
<1>1. task' = AfterLookup(s)
  BY DEF GetMissingTransactions
<1>2. LookedUp(task, task', j, s)
  <2>1. CASE s # NullSid /\ s \in known /\ HashOf[s] \in contents
    <3>1. /\ task \in TaskType /\ task.pc = "check" /\ j \in Nat
      BY <1>0, BeforeLookup
    <3>2. task' = [task EXCEPT !.checked = j]
      BY <1>1, <2>1 DEF AfterLookup
    <3>3. s \in Sids
      BY <2>1 DEF IInv, TypeOK
    <3>4. HasContents(s)
      BY <2>1 DEF HasContents
    <3>5. /\ task' \in TaskType
          /\ task'.pc = "check" /\ task'.msg = task.msg /\ task'.large = task.large
          /\ task'.checked = j /\ task'.unknownSids = task.unknownSids
          /\ task'.unknownHashes = task.unknownHashes
      BY <3>1, <3>2 DEF TaskType
    <3> QED
      BY <2>1, <3>3, <3>4, <3>5 DEF LookedUp
  <2>2. CASE s # NullSid /\ s \in known /\ HashOf[s] \notin contents
    <3>1. task' = [task EXCEPT !.checked = @ + 1, !.unknownHashes = Append(@, HashOf[s])]
      BY <1>1, <2>2 DEF AfterLookup
    <3> QED
      BY <1>0, <2>2, <3>1, ListedHash
  <2>3. CASE ~(s # NullSid /\ s \in known)
    <3>1. task' = [task EXCEPT !.checked = @ + 1, !.unknownSids = Append(@, s)]
      BY <1>1, <2>3 DEF AfterLookup
    <3> QED
      BY <1>0, <3>1, ListedSid
  <2> QED
    BY <2>1, <2>2, <2>3
<1> QED
  BY <1>0, <1>2, LookupSettles

SamePlace(t, u) ==
    /\ u.count = t.count /\ u.idx = t.idx /\ u.off = t.off /\ u.prevOff = t.prevOff
    /\ u.sidOff = t.sidOff /\ u.large = t.large

\* The parts of a task that say which block it has.
SameBlock(t, u) ==
    /\ u.proto = t.proto /\ u.msg = t.msg /\ u.checked = t.checked
    /\ u.unknownHashes = t.unknownHashes /\ u.unknownSids = t.unknownSids

TaskPcs == {"idle", "check", "dispatch", "header", "wait", "done", "failed"}

LEMMA PcSet ==
  ASSUME NEW t \in TaskType, NEW p \in TaskPcs, NEW u, u = [t EXCEPT !.pc = p]
  PROVE  /\ u \in TaskType /\ u.pc = p /\ SameBlock(t, u) /\ SamePlace(t, u)
         /\ u.threw = t.threw /\ u.blocks = t.blocks
  BY DEF TaskType, TaskPcs, SameBlock, SamePlace

LEMMA ThrowSet ==
  ASSUME NEW t \in TaskType, NEW u, u = [t EXCEPT !.pc = "failed", !.threw = TRUE, !.error = TRUE]
  PROVE  u \in TaskType /\ u.pc = "failed" /\ u.threw /\ SameBlock(t, u) /\ SamePlace(t, u)
  BY DEF TaskType, TaskPcs, SameBlock, SamePlace

\* _init_sub_tasks and the start of _dispatch.
LEMMA StartDispatchOK ==
  ASSUME IInv, crashed = "no", task.pc = "check", task.checked = Len(task.msg.sids), Success,
         task.proto \in Split, StartDispatch, out' \in BufferType, out'.gen >= out.gen,
         task.proto # "eth" => out' = out, UNCHANGED <<held, crashed, service>>
  PROVE  IInv'
<1>0. /\ Working /\ task \in TaskType /\ task.msg \in Messages /\ out.len = 0
      /\ \A w \in Workers : ~Running(w)
      /\ worker \in [Workers -> WorkerType] /\ ~task.large
  BY DEF IInv, TypeOK, Working, Quiet
<1>1. /\ task' \in TaskType /\ SameBlock(task, task') /\ task'.large = task.large
      /\ task'.pc = "dispatch" /\ task'.count = 0 /\ task'.idx = 0 /\ task'.sidOff = 0
      /\ task'.off = 1 /\ task'.prevOff = 1
  BY <1>0, Sizes DEF StartDispatch, TaskType, SameBlock, HeaderSize
<1>2. Local
  BY <1>1 DEF Local, Aside, SameBlock
<1>3. PICK none : none = <<>>
  OBVIOUS
<1>4. /\ worker' \in [Workers -> WorkerType]
      /\ \A w \in Workers : ~Running(w)' /\ worker'[w].todo = none /\ worker'[w].sidLen = 0
  <2>1. worker' = [w \in Workers |-> [pc |-> worker[w].pc, todo |-> none, sidLen |-> 0,
                                      sidOff |-> 0, off |-> 0, gen |-> 0]]
    BY <1>3 DEF StartDispatch, NewWorker
  <2>2. \A w \in Workers : worker[w].pc \in {"new", "fetch", "copy", "completed"}
    BY <1>0 DEF WorkerType
  <2>3. none \in Seq(Entries)
    BY <1>3
  <2> QED
    BY <1>0, <2>1, <2>2, <2>3 DEF WorkerType, Running
<1>5. Quiet'
  <2>1. task'.msg \in Messages /\ task'.proto \in Split /\ task'.idx \in Workers /\ ~task'.large
    BY <1>0, <1>1, Sizes DEF SameBlock
  <2>2. task'.proto # "eth" => out'.len <= task'.off
    BY <1>0, <1>1 DEF SameBlock
  <2>3. \A w \in Workers : ~Running(w)' /\ worker'[w].todo = <<>> /\ worker'[w].sidLen = 0
    BY <1>3, <1>4
  <2> QED
    BY <1>1, <2>1, <2>2, <2>3 DEF Quiet
<1>6. PICK lo \in [Workers -> Nat], hi \in [Workers -> Nat] :
         lo = [w \in Workers |-> 1] /\ hi = [w \in Workers |-> 0]
  OBVIOUS
<1>7. lo[0] = 1 /\ hi[0] = 0
  BY <1>6, Sizes
<1>8. Dispatching(task', worker'[0], 1, 0)
  <2>1. Slice(none, task.msg, 1, 0)
    BY <1>0, <1>3, MessagesOK DEF Slice
  <2>2. StartOf(task.msg, 1) = 1 /\ FlagsUpTo(task.msg.txs, 0) = 0 /\ 0 <= Len(task.msg.sids)
    <3>1. PICK z, txs : z \in Nat /\ z = 0 /\ txs = task.msg.txs
      OBVIOUS
    <3>2. FlagsUpTo(txs, 0) = 0
      BY FlagsStep
    <3>3. Len(task.msg.sids) \in Nat
      BY <1>0, MessagesOK
    <3> QED
      BY <3>1, <3>2, <3>3, StartFirst
  <2>3. 0 + 1 = 1 /\ 1 - 1 = 0 /\ 0 + 0 = 0 /\ 0 \in Workers
    BY Sizes
  <2> QED
    BY <1>1, <1>4, <2>1, <2>2, <2>3 DEF Dispatching, SameBlock
<1>9. Progress(lo, hi)'
  BY <1>1, <1>4, <1>7, <1>8 DEF Progress, Parts, Covered
<1>10. Working'
  BY <1>4, <1>5, <1>9 DEF Working
<1> QED
  BY <1>1, <1>2, <1>10, NoCrash, LocalKeeps

\* The consensus task writes the header and starts with the transactions.
LEMMA ConsensusParsedOK ==
  ASSUME IInv, crashed = "no", task.pc = "check", task.checked = Len(task.msg.sids), Success,
         task.proto = "consensus", ConsensusParsed, UNCHANGED <<held, crashed, service>>
  PROVE  IInv'
<1>0. /\ Working /\ task \in TaskType /\ task.msg \in Messages /\ out.len = 0
      /\ \A w \in Workers : ~Running(w) /\ out \in BufferType
      /\ worker \in [Workers -> WorkerType] /\ 0 \in Workers
  BY Sizes DEF IInv, TypeOK, Working, Quiet
<1>1. /\ task' \in TaskType /\ SameBlock(task, task')
      /\ task'.pc = "wait" /\ task'.idx = 0
  BY <1>0, Sizes DEF ConsensusParsed, TaskType, SameBlock, HeaderSize
<1>2. /\ task.msg.txs \in Seq(Entries) /\ Len(task.msg.txs) \in Nat /\ Len(task.msg.sids) \in Nat
      /\ StartOf(task.msg, 1) = 1 /\ FlagsUpTo(task.msg.txs, 0) = 0
  <2>1. PICK txs : txs = task.msg.txs
    OBVIOUS
  <2>2. FlagsUpTo(txs, 0) = 0
    BY FlagsStep
  <2> QED
    BY <1>0, <2>1, <2>2, MessagesOK, StartFirst
<1>3. PICK d \in BufferType : d = CopyResize(out, 1) /\ d.len = 1 /\ d.gen >= out.gen
  <2>1. PICK n, b, d :
         /\ n \in Nat
         /\ b \in BufferType
         /\ n = 1
         /\ b = out
         /\ n >= b.len
         /\ d = CopyResize(b, n)
    BY <1>0
  <2>2. Roomy(b, d, n)
    BY <2>1, CopyRoom
  <2> QED
    BY <2>1, <2>2 DEF Roomy
<1>4. out' = Copied(d, 0, Header)
  BY <1>3 DEF ConsensusParsed, HeaderSize
<1>5. /\ out' \in BufferType /\ out'.len = 1 /\ out'.gen >= out.gen /\ out'.cells[0] = Header[1]
  <2>1. PICK c : c = out'
    OBVIOUS
  <2>2. Header \in Seq(Unit) /\ Len(Header) = 1
    BY DEF Header, Unit
  <2>3. PICK u \in Seq(Unit), z \in Nat : u = Header /\ Len(u) = 1 /\ z = 0
    BY <2>2
  <2>4. Written(d, c, z, 1, u)
    <3>1. c = Copied(d, z, u)
      BY <1>4, <2>1, <2>3
    <3> QED
      BY <2>3, <3>1, CopyWrites
  <2>5. 0 \in Cells /\ 1 \in 1 .. 1 /\ z + (1 - 1) = 0
    <3>1. Len(task.msg.txs) \in Nat /\ \A i \in 1 .. FlagsUpTo(task.msg.txs, 0) : FALSE
      BY <1>2
    <3>2. 0 \in 0 .. Len(task.msg.txs) /\ ShortIdsSuffice(task.msg, 0)
      BY <1>2, <3>1 DEF ShortIdsSuffice
    <3>3. StartOf(task.msg, 0 + 1) < MaxLength
      BY <1>0, <3>2, BlockDecompressionAssumption
    <3> QED
      BY <1>2, <2>3, <3>3, Sizes DEF Cells
  <2> QED
    BY <1>3, <2>1, <2>3, <2>4, <2>5 DEF Written
<1>6. Local
  BY <1>1, <1>5 DEF Local, Aside, SameBlock
<1>7. PICK nw, q :
         /\ nw \in WorkerType
         /\ nw = NewWorker /\ nw.sidOff = 0
         /\ q = [nw EXCEPT !.pc = "fetch", !.todo = task.msg.txs, !.off = 1]
  <2>0. PICK none : none = <<>>
    OBVIOUS
  <2>1. none = <<>> /\ none \in Seq(Entries)
    BY <2>0
  <2>2. NewWorker = [pc |-> "new", todo |-> none, sidLen |-> 0, sidOff |-> 0, off |-> 0, gen |-> 0]
    BY <2>1 DEF NewWorker
  <2>3. NewWorker \in WorkerType /\ NewWorker.sidOff = 0
    BY <2>1, <2>2 DEF WorkerType
  <2> QED
    BY <2>3
<1>8. q \in WorkerType /\ q.pc = "fetch" /\ q.todo = task.msg.txs /\ q.sidOff = 0 /\ q.off = 1
  BY <1>2, <1>7 DEF WorkerType
<1>9. worker' = [worker EXCEPT ![0] = q]
  BY <1>7, Zenon DEF ConsensusParsed, HeaderSize
<1>10. /\ worker' \in [Workers -> WorkerType] /\ worker'[0] = q
       /\ \A v \in Workers : v # 0 => worker'[v] = worker[v]
  BY <1>0, <1>8, <1>9, WorkerSet
<1>11. \A v \in Workers : v # 0 => ~Running(v)'
  BY <1>0, <1>10 DEF Running
<1>12. Running(0)'
  BY <1>8, <1>10 DEF Running
<1>13. Quiet'
  BY <1>0, <1>1, <1>8, <1>10, <1>11, Sizes DEF Quiet, SameBlock
<1>14. PICK lo \in [Workers -> Nat], hi \in [Workers -> Nat] :
         lo = [w \in Workers |-> 1] /\ hi = [w \in Workers |-> Len(task.msg.txs)]
  BY <1>2
<1>15. lo[0] = 1 /\ hi[0] = Len(task.msg.txs)
  BY <1>0, <1>14
<1>16. WholePart(task', q, out', 1, Len(task.msg.txs))
  <2>1. Slice(task.msg.txs, task.msg, 1, Len(task.msg.txs))
    <3>1. PICK n \in Nat : n = Len(task.msg.txs)
      BY <1>2
    <3>2. 1 <= n + 1 /\ n <= n /\ n = n - 1 + 1 /\ \A k \in 1 .. n : (1 - 1) + k = k
      OBVIOUS
    <3> QED
      BY <3>1, <3>2 DEF Slice
  <2>2. 1 - 1 = 0 /\ 0 <= Len(task.msg.sids)
    BY <1>2
  <2> QED
    BY <1>1, <1>2, <1>5, <1>8, <2>1, <2>2 DEF WholePart, Part, SameBlock
<1>17. Progress(lo, hi)'
  <2>1. Parts(lo, hi)'
    BY <1>1, <1>10, <1>11, <1>15, <1>16 DEF Parts, Split, SameBlock
  <2>2. Covered(lo, hi)'
    BY <1>0, <1>1, <1>12, <1>15 DEF Covered, Busy, SameBlock
  <2>3. Dispatched(task', out')
    BY <1>1, <1>5 DEF Dispatched, Split, SameBlock
  <2> QED
    BY <1>1, <1>8, <1>10, <2>1, <2>2, <2>3 DEF Progress
<1>18. Working'
  BY <1>10, <1>13, <1>17 DEF Working
<1> QED
  BY <1>1, <1>6, <1>18, NoCrash, LocalKeeps

LEMMA CheckedOK ==
  ASSUME IInv, crashed = "no", Checked
  PROVE  IInv'
<1>0. /\ Working /\ task \in TaskType /\ task.msg \in Messages /\ out \in BufferType
      /\ \A w \in Workers : ~Running(w)
      /\ task.pc = "check" /\ task.checked = Len(task.msg.sids)
      /\ UNCHANGED <<held, crashed, service>>
  BY DEF IInv, TypeOK, Working, Quiet, Checked
<1>1. CASE ~Success /\ GiveUp
  <2>1. /\ task' \in TaskType /\ task'.pc = "done" /\ SameBlock(task, task') /\ SamePlace(task, task')
    BY <1>0, <1>1, PcSet DEF GiveUp, TaskPcs
  <2>2. worker' = worker /\ out' = out /\ out.gen \in Nat
    BY <1>0, <1>1 DEF GiveUp, BufferType
  <2>3. Local
    BY <1>0, <2>1, <2>2 DEF Local, Aside, SameBlock
  <2>4. Quiet'
    BY <1>0, <2>1, <2>2 DEF Quiet, SameBlock, Running
  <2>5. Working'
    BY <1>0, <2>1, <2>2, <2>4, Resting
  <2> QED
    BY <1>0, <1>1, <2>1, <2>3, <2>5, NoCrash, LocalKeeps
<1>2. CASE Success /\ task.proto \in {"btc", "ont"} /\ StartDispatch /\ UNCHANGED out
  <2>1. out.gen \in Nat
    BY <1>0 DEF BufferType
  <2> QED
    BY <1>0, <1>2, <2>1, StartDispatchOK DEF Split
<1>3. CASE Success /\ task.proto = "eth" /\ EthParsed
  <2>1. out' \in BufferType /\ out'.gen >= out.gen
    BY <1>0, <1>3, Resized DEF EthParsed, HeaderSize
  <2> QED
    BY <1>0, <1>3, <2>1, StartDispatchOK DEF Split, EthParsed
<1>4. CASE Success /\ task.proto = "consensus" /\ ConsensusParsed
  BY <1>0, <1>4, ConsensusParsedOK
<1> QED
  BY <1>1, <1>2, <1>3, <1>4 DEF Checked, BtcParsed, OntParsed

-----------------------------------------------------------------------------
(* _dispatch.                                                              *)

\* A sub task whose buffer only grows, and in place, keeps its part.
LEMMA SplitStays ==
  ASSUME NEW t, NEW u, NEW r, NEW b \in BufferType, NEW d \in BufferType, NEW a, NEW z,
         SplitPart(t, r, b, a, z), u.msg = t.msg, u.proto = t.proto, t.large => u.large,
         StartOf(t.msg, z + 1) \in Nat, d.gen = b.gen, d.cap >= b.cap,
         t.proto # "eth" => d.len >= b.len
  PROVE  SplitPart(u, r, d, a, z)
<1>1. b.len \in Nat /\ b.cap \in Nat /\ d.len \in Nat /\ d.cap \in Nat
  BY DEF BufferType
<1>2. PICK e \in Nat : e = StartOf(t.msg, z + 1)
  OBVIOUS
<1>3. t.proto # "eth" => e <= d.len
  BY <1>1, <1>2 DEF SplitPart
<1>4. t.proto = "eth" => t.large \/ e <= d.cap
  BY <1>1, <1>2 DEF SplitPart
<1>5. PICK m : m = t.msg
  OBVIOUS
<1>6. /\ Part(r, m, a, z) /\ FlagsUpTo(m.txs, z) <= Len(m.sids)
      /\ r.pc = "copy" => /\ r.todo # <<>>
                          /\ r.gen = b.gen \/ (t.proto = "eth" /\ t.large)
  BY <1>5 DEF SplitPart
<1> QED
  BY <1>2, <1>3, <1>4, <1>5, <1>6, Zenon DEF SplitPart

\* What a sub task at work has before it.
LEMMA RunningPart ==
  ASSUME IInv, Working, NEW lo \in [Workers -> Nat], NEW hi \in [Workers -> Nat],
         Progress(lo, hi), NEW w \in Workers, Running(w), task.proto \in Split
  PROVE  /\ task.pc \in {"dispatch", "header", "wait", "failed"}
         /\ SplitPart(task, worker[w], out, lo[w], hi[w])
         /\ Enough(task.msg, hi[w])
         /\ lo[w] \in 1 .. hi[w] + 1 /\ hi[w] \in 0 .. Len(task.msg.txs)
         /\ StartOf(task.msg, hi[w] + 1) \in Nat
<1>1. task.pc \in {"dispatch", "header", "wait", "failed"}
  BY DEF IInv, TypeOK, TaskType, Working, Quiet
<1>2. SplitPart(task, worker[w], out, lo[w], hi[w])
  BY DEF Progress, Parts
<1>3. task.msg \in Messages /\ Len(task.msg.txs) \in Nat
  BY <1>1, AtWork, MessagesOK
<1>4. lo[w] \in 1 .. hi[w] + 1 /\ hi[w] \in 0 .. Len(task.msg.txs)
  BY <1>2, <1>3 DEF SplitPart, Part, Slice
<1>5. Enough(task.msg, hi[w])
  BY <1>1, <1>2, <1>4, AtWork DEF SplitPart
<1> QED
  BY <1>1, <1>2, <1>3, <1>4, <1>5, BlockFits

\* The task throws; its sub tasks go on.
LEMMA ThrowOK ==
  ASSUME IInv, crashed = "no", task.pc \in {"dispatch", "wait"}, Throw, task.proto \in Split,
         worker' \in [Workers -> WorkerType],
         \A w \in Workers : Running(w)' => Running(w) /\ worker'[w] = worker[w],
         UNCHANGED <<out, held, crashed>>, Grows
  PROVE  IInv'
<1>0. Working /\ task \in TaskType /\ task.msg \in Messages /\ out \in BufferType /\ out.gen \in Nat
  BY DEF IInv, TypeOK, Working, Quiet, BufferType
<1>1. /\ task' \in TaskType /\ task'.pc = "failed" /\ task'.threw
      /\ SameBlock(task, task') /\ SamePlace(task, task')
  BY <1>0, ThrowSet DEF Throw
<1>2. Aside
  BY <1>0, <1>1 DEF Aside, SameBlock
<1>3. Quiet'
  BY <1>0, <1>1 DEF Quiet, SameBlock
<1>4. PICK lo \in [Workers -> Nat], hi \in [Workers -> Nat] : Progress(lo, hi)
  BY <1>0 DEF Working
<1>5. Parts(lo, hi)'
  <2> SUFFICES ASSUME NEW w \in Workers, Running(w)'
               PROVE  SplitPart(task', worker'[w], out', lo[w], hi[w])
    BY <1>1 DEF Parts, SameBlock
  <2>1. Running(w) /\ worker'[w] = worker[w]
    OBVIOUS
  <2>2. SplitPart(task, worker[w], out, lo[w], hi[w])
    BY <1>0, <1>4, <2>1, RunningPart
  <2>3. task'.msg = task.msg /\ task'.proto = task.proto /\ task'.large = task.large
    BY <1>1 DEF SameBlock, SamePlace
  <2> QED
    BY <2>1, <2>2, <2>3, Zenon DEF SplitPart
<1>6. Working'
  BY <1>1, <1>3, <1>4, <1>5 DEF Working, Progress
<1>7. task.checked = Len(task.msg.sids) /\ Success
  BY <1>0, AtWork
<1> QED
  BY <1>1, <1>2, <1>6, <1>7, NoCrash, AsideKeeps

\* The next entry of the message goes to sub task idx.
LEMMA PushedEntry ==
  ASSUME IInv, Working, task.pc = "dispatch", task.count < Len(task.msg.txs), ~EntryBad,
         NEW a \in Nat, Dispatching(task, worker[task.idx], a, task.count)
  PROVE  /\ task.msg \in Messages
         /\ Enough(task.msg, task.count + 1)
         /\ OffAfter \in Nat /\ task.off <= OffAfter
         /\ OffAfter = StartOf(task.msg, (task.count + 1) + 1)
         /\ a \in 1 .. task.count + 1
         /\ \E q \in WorkerType :
               /\ Pushed = [worker EXCEPT ![task.idx] = q]
               /\ q.pc = worker[task.idx].pc
               /\ Slice(q.todo, task.msg, a, task.count + 1)
               /\ q.sidLen \in Nat
               /\ task.sidOff + q.sidLen = FlagsUpTo(task.msg.txs, task.count + 1)
<1>0. /\ task \in TaskType /\ worker \in [Workers -> WorkerType] /\ task.msg \in Messages
      /\ \A n \in 0 .. Len(task.msg.txs) :
               FlagsUpTo(task.msg.txs, n) <= Len(task.msg.sids) => Enough(task.msg, n)
  BY AtWork DEF IInv, TypeOK, Working
<1>1. PICK m \in Messages, c \in Nat, i \in Workers, r \in WorkerType, s \in Nat :
         m = task.msg /\ c = task.count /\ i = task.idx /\ r = worker[task.idx] /\ s = task.sidOff
  BY <1>0 DEF TaskType
<1>2. /\ Slice(r.todo, m, a, c) /\ task.off = StartOf(m, c + 1)
      /\ s + r.sidLen = FlagsUpTo(m.txs, c) /\ FlagsUpTo(m.txs, c) <= Len(m.sids)
      /\ r.todo \in Seq(Entries) /\ r.sidLen \in Nat
  BY <1>1 DEF Dispatching, WorkerType
<1>3. /\ c < Len(m.txs) /\ Len(m.txs) \in Nat /\ Len(m.sids) \in Nat
      /\ c \in 0 .. Len(m.txs) /\ c + 1 \in 1 .. Len(m.txs) /\ c + 1 \in 0 .. Len(m.txs)
      /\ m.txs[c + 1] \in Entries
  BY <1>1, MessagesOK
<1>4. PICK x : x = m.txs[c + 1] /\ x \in Entries /\ x = Entry
  BY <1>1, <1>3 DEF Entry
<1>5. PICK k : k = IF x = Short THEN 1 ELSE 0
  OBVIOUS
<1>6. k \in Nat /\ FlagsUpTo(m.txs, c + 1) = FlagsUpTo(m.txs, c) + k /\ FlagsUpTo(m.txs, c) \in Nat
  <2>1. PICK txs : txs = m.txs
    OBVIOUS
  <2>2. /\ FlagsUpTo(txs, c) \in Nat
        /\ txs[c + 1] = Short => FlagsUpTo(txs, c + 1) = FlagsUpTo(txs, c) + 1
        /\ txs[c + 1] # Short => FlagsUpTo(txs, c + 1) = FlagsUpTo(txs, c)
    BY FlagsStep
  <2>3. PICK f, g : f \in Nat /\ f = FlagsUpTo(txs, c) /\ g = FlagsUpTo(txs, c + 1)
    BY <2>2
  <2>4. x = txs[c + 1]
    BY <1>4, <2>1
  <2>5. (x = Short => g = f + 1) /\ (x # Short => g = f)
    BY <2>2, <2>3, <2>4
  <2>6. k \in Nat /\ g = f + k
    BY <2>3, <1>5, <2>5
  <2> QED
    BY <2>1, <2>3, <2>6
<1>7. ShortIdIdx = FlagsUpTo(m.txs, c)
  BY <1>1, <1>2 DEF ShortIdIdx
<1>8. FlagsUpTo(m.txs, c + 1) <= Len(m.sids)
  <2>1. CASE x = Short
    <3>1. FlagsUpTo(m.txs, c) < Len(m.sids)
      BY <1>1, <1>4, <1>7, <2>1 DEF EntryBad
    <3> QED
      BY <1>3, <1>5, <1>6, <2>1, <3>1
  <2>2. CASE x # Short
    BY <1>2, <1>3, <1>5, <1>6, <2>2
  <2> QED
    BY <2>1, <2>2
<1>9. Enough(m, c + 1)
  BY <1>0, <1>1, <1>3, <1>8
<1>10. EntryHash = OriginalTx(m, c + 1)
  <2>1. CASE x = Short
    <3>1. EntrySid = m.sids[FlagsUpTo(m.txs, c + 1)]
      BY <1>1, <1>5, <1>6, <1>7, <2>1 DEF EntrySid
    <3> QED
      BY <1>4, <2>1, <3>1 DEF EntryHash, OriginalTx
  <2>2. CASE x # Short
    BY <1>4, <2>2 DEF EntryHash, OriginalTx
  <2> QED
    BY <2>1, <2>2
<1>11. /\ OffAfter \in Nat /\ task.off <= OffAfter /\ OffAfter = StartOf(m, (c + 1) + 1)
  <2>1. PICK n \in Nat : n = c + 1 /\ n \in 1 .. n
    BY <1>3
  <2>2. StartOf(m, n) \in Nat /\ StartOf(m, n + 1) = StartOf(m, n) + SizeOf[OriginalTx(m, n)]
    BY <1>9, <2>1, StartStep
  <2>3. SizeOf[OriginalTx(m, n)] \in Nat
    BY <1>9, <2>1, OriginalKnown
  <2>4. OffAfter = StartOf(m, n) + SizeOf[OriginalTx(m, n)]
    BY <1>2, <1>10, <2>1 DEF OffAfter
  <2> QED
    <3>1. PICK e, g, l : /\ l \in Nat /\ e = StartOf(m, n + 1) /\ g = StartOf(m, n)
                                 /\ l = SizeOf[OriginalTx(m, n)]
      BY <2>3
    <3>2. g \in Nat /\ e = g + l
      BY <2>2, <3>1
    <3>3. e \in Nat /\ g <= e
      BY <3>1, <3>2
    <3> QED
      BY <1>2, <2>1, <2>2, <2>4, <3>1, <3>3
<1>12. a \in 1 .. c + 1
  BY <1>2, <1>3 DEF Slice
<1>13. PICK todo : todo = Append(r.todo, x)
  OBVIOUS
<1>14. PICK l, q : l = r.sidLen + k /\ q = [r EXCEPT !.todo = todo, !.sidLen = l]
  OBVIOUS
<1>15. todo \in Seq(Entries) /\ Len(todo) = Len(r.todo) + 1 /\ Len(r.todo) \in Nat
       /\ (\A j \in 1 .. Len(r.todo) : todo[j] = r.todo[j]) /\ todo[Len(r.todo) + 1] = x
  BY <1>2, <1>4, <1>13
<1>16. q \in WorkerType /\ q.pc = r.pc /\ q.todo = todo /\ q.sidLen = r.sidLen + k
  <2>1. l \in Nat /\ todo \in Seq(Entries)
    <3>1. r.sidLen \in Nat /\ k \in Nat
      BY <1>2, <1>6
    <3> QED
      BY <1>14, <1>15, <3>1
  <2>2. q \in WorkerType /\ q.pc = r.pc /\ q.todo = todo /\ q.sidLen = l
    BY <1>14, <2>1 DEF WorkerType
  <2> QED
    BY <1>14, <2>2
<1>17. Pushed = [worker EXCEPT ![i] = q]
  <2>1. Pushed = [worker EXCEPT ![i].todo = Append(@, x), ![i].sidLen = @ + k]
    BY <1>1, <1>4, <1>5, Zenon DEF Pushed
  <2> QED
    BY <1>0, <1>1, <1>13, <1>14, <2>1
<1>18. Slice(todo, m, a, c + 1)
  <2>1. Len(r.todo) = c - a + 1 /\ \A j \in 1 .. Len(r.todo) : r.todo[j] = m.txs[(a - 1) + j]
    BY <1>2 DEF Slice
  <2>2. Len(todo) = (c + 1) - a + 1 /\ (a - 1) + (Len(r.todo) + 1) = c + 1
    BY <1>12, <1>15, <2>1
  <2>3. \A j \in 1 .. Len(todo) : j \in 1 .. Len(r.todo) \/ j = Len(r.todo) + 1
    BY <1>15
  <2>4. \A j \in 1 .. Len(todo) : todo[j] = m.txs[(a - 1) + j]
    BY <1>4, <1>15, <2>1, <2>2, <2>3
  <2>5. 1 <= a /\ a <= (c + 1) + 1 /\ c + 1 <= Len(m.txs)
    BY <1>3, <1>12
  <2> QED
    BY <2>2, <2>4, <2>5 DEF Slice
<1>19. s + q.sidLen = FlagsUpTo(m.txs, c + 1) /\ q.sidLen \in Nat
  <2>1. PICK f, g : f \in Nat /\ f = FlagsUpTo(m.txs, c) /\ g = FlagsUpTo(m.txs, c + 1)
    BY <1>6
  <2>2. PICK n \in Nat : n = r.sidLen
    BY <1>2
  <2>3. k \in Nat /\ g = f + k /\ s + n = f
    BY <1>2, <1>6, <2>1, <2>2
  <2>4. s + (n + k) = g /\ n + k \in Nat
    BY <2>3
  <2> QED
    BY <1>16, <2>1, <2>2, <2>4
<1> QED
  BY <1>1, <1>9, <1>11, <1>12, <1>16, <1>17, <1>18, <1>19

\* Every sub task but one keeps its part, if the buffer grows in place.
LEMMA OthersStay ==
  ASSUME IInv, Working, NEW lo \in [Workers -> Nat], NEW hi \in [Workers -> Nat],
         Progress(lo, hi), NEW w \in Workers, Running(w), task.proto \in Split,
         task'.msg = task.msg, task'.proto = task.proto, task.large => task'.large,
         out' \in BufferType, out'.gen = out.gen, out'.cap >= out.cap,
         task.proto # "eth" => out'.len >= out.len
  PROVE  SplitPart(task', worker[w], out', lo[w], hi[w])
<1>1. out \in BufferType
  BY DEF IInv, TypeOK
<1>2. /\ SplitPart(task, worker[w], out, lo[w], hi[w])
      /\ StartOf(task.msg, hi[w] + 1) \in Nat
  BY RunningPart
<1>3. PICK t, u, r, a, z : t = task /\ u = task' /\ r = worker[w] /\ a = lo[w] /\ z = hi[w]
  OBVIOUS
<1>4. PICK b \in BufferType, d \in BufferType : b = out /\ d = out'
  BY <1>1
<1>5. SplitPart(u, r, d, a, z)
  BY <1>2, <1>3, <1>4, SplitStays
<1> QED
  BY <1>3, <1>4, <1>5, Zenon

\* The entry belongs to the part that is being collected.
LEMMA DispatchSameOK ==
  ASSUME IInv, crashed = "no", task.pc = "dispatch", DispatchSame
  PROVE  IInv'
<1>0. /\ Working /\ task \in TaskType /\ task.msg \in Messages /\ out \in BufferType
      /\ out.gen \in Nat /\ out.cap \in Nat /\ out.len \in Nat
      /\ worker \in [Workers -> WorkerType] /\ task.proto \in Split /\ task.idx \in Workers
      /\ task.count \in Nat /\ ~Running(task.idx) /\ ~task.large /\ task.off \in Nat
      /\ out' = out /\ UNCHANGED <<held, crashed, service>>
  BY DEF IInv, TypeOK, TaskType, Working, Quiet, BufferType, DispatchSame
<1>1. PICK lo \in [Workers -> Nat], hi \in [Workers -> Nat] : Progress(lo, hi)
  BY <1>0 DEF Working
<1>2. PICK a \in Nat, i \in Workers, c \in Nat, m \in Messages :
         a = lo[i] /\ i = task.idx /\ c = task.count /\ m = task.msg
  BY <1>0
<1>3. Dispatching(task, worker[i], a, c) /\ hi[i] = c
  BY <1>1, <1>2 DEF Progress, Dispatching
<1>4. PICK q \in WorkerType :
         /\ Pushed = [worker EXCEPT ![i] = q]
         /\ q.pc = worker[i].pc
         /\ Slice(q.todo, m, a, c + 1)
         /\ task.sidOff + q.sidLen = FlagsUpTo(m.txs, c + 1)
  BY <1>0, <1>2, <1>3, PushedEntry DEF DispatchSame
<1>5. /\ Enough(m, c + 1) /\ OffAfter \in Nat /\ task.off <= OffAfter
      /\ OffAfter = StartOf(m, (c + 1) + 1) /\ a \in 1 .. c + 1
  BY <1>0, <1>2, <1>3, PushedEntry DEF DispatchSame
<1>6. PICK o \in Nat : o = OffAfter
  BY <1>5
<1>7. /\ task' \in TaskType /\ SameBlock(task, task') /\ task'.pc = "dispatch"
      /\ task'.count = c + 1 /\ task'.off = o /\ task'.idx = i
      /\ task'.prevOff = task.prevOff /\ task'.sidOff = task.sidOff /\ task'.large = task.large
  <2>1. PICK d \in Nat : d = c + 1
    OBVIOUS
  <2>2. task' = [task EXCEPT !.count = d, !.off = o]
    BY <1>2, <1>6, <2>1 DEF DispatchSame
  <2>3. /\ task' \in TaskType /\ SameBlock(task, task') /\ task'.pc = task.pc
        /\ task'.count = d /\ task'.off = o /\ task'.idx = task.idx
        /\ task'.prevOff = task.prevOff /\ task'.sidOff = task.sidOff /\ task'.large = task.large
    BY <1>0, <2>2 DEF TaskType, SameBlock
  <2> QED
    BY <1>2, <2>1, <2>3
<1>8. Local
  BY <1>0, <1>7 DEF Local, Aside, SameBlock
<1>9. /\ worker' \in [Workers -> WorkerType] /\ worker'[i] = q
      /\ \A v \in Workers : v # i => worker'[v] = worker[v]
  BY <1>0, <1>4, WorkerSet DEF DispatchSame
<1>10. /\ ~Running(i)'
       /\ \A v \in Workers : v # i => (Running(v)' <=> Running(v))
  BY <1>0, <1>2, <1>4, <1>9 DEF Running
<1>11. Quiet'
  <2>1. \A v \in Workers : v > i => ~Running(v)' /\ worker'[v].todo = <<>> /\ worker'[v].sidLen = 0
    <3>1. \A v \in Workers : v > i => ~Running(v) /\ worker[v].todo = <<>> /\ worker[v].sidLen = 0
      BY <1>0, <1>2 DEF Working, Quiet
    <3>2. \A v \in Workers : v > i => v # i
      BY Sizes
    <3> QED
      BY <1>9, <1>10, <3>1, <3>2
  <2>2. task'.proto # "eth" => out'.len <= task'.off
    <3>1. task.proto # "eth" => out.len <= task.off
      BY <1>0 DEF Working, Quiet
    <3> QED
      BY <1>0, <1>5, <1>6, <1>7, <3>1 DEF SameBlock
  <2> QED
    BY <1>0, <1>7, <1>10, <2>1, <2>2 DEF Quiet, SameBlock
<1>12. PICK hj \in [Workers -> Nat] : hj = [hi EXCEPT ![i] = c + 1]
  <2>1. [hi EXCEPT ![i] = c + 1] \in [Workers -> Nat]
    OBVIOUS
  <2> QED
    BY <2>1
<1>13. Parts(lo, hj)'
  <2> SUFFICES ASSUME NEW w \in Workers, Running(w)'
               PROVE  SplitPart(task', worker'[w], out', lo[w], hj[w])
    BY <1>0, <1>7 DEF Parts, SameBlock
  <2>1. w # i /\ Running(w) /\ worker'[w] = worker[w] /\ hj[w] = hi[w]
    BY <1>9, <1>10, <1>12
  <2>2. SplitPart(task', worker[w], out', lo[w], hi[w])
    BY <1>0, <1>1, <1>7, <2>1, OthersStay DEF SameBlock
  <2> QED
    BY <2>1, <2>2
<1>14. Dispatching(task', worker'[i], a, c + 1)
  <2>1. task.prevOff = StartOf(m, a) /\ task.sidOff = FlagsUpTo(m.txs, a - 1)
    BY <1>2, <1>3 DEF Dispatching
  <2>2. FlagsUpTo(m.txs, c + 1) <= Len(m.sids)
    BY <1>5 DEF Enough
  <2>3. task'.msg = m
    BY <1>2, <1>7 DEF SameBlock
  <2> QED
    BY <1>4, <1>5, <1>6, <1>7, <1>9, <2>1, <2>2, <2>3 DEF Dispatching
<1>15. Covered(lo, hj)'
  <2> SUFFICES ASSUME NEW n \in 1 .. c + 1
               PROVE  \/ Placed(m, out', n)
                      \/ \E w \in Workers : Busy(w)' /\ lo[w] <= n /\ n <= hj[w]
    BY <1>2, <1>7 DEF Covered, SameBlock
  <2>1. hj[i] = c + 1 /\ Busy(i)' /\ n <= c + 1
    BY <1>7, <1>12 DEF Busy
  <2>2. CASE n = c + 1
    BY <1>2, <1>5, <2>1, <2>2
  <2>3. CASE n \in 1 .. c /\ Placed(m, out, n)
    BY <1>0, <2>3
  <2>4. CASE n \in 1 .. c /\ ~Placed(m, out, n)
    <3>1. PICK w \in Workers : Busy(w) /\ lo[w] <= n /\ n <= hi[w]
      BY <1>0, <1>1, <1>2, <2>4 DEF Progress, Covered, DispatchSame
    <3>2. CASE w = i
      BY <2>1, <3>1, <3>2
    <3>3. CASE w # i
      BY <1>2, <1>10, <1>12, <3>1, <3>3 DEF Busy
    <3> QED
      BY <3>2, <3>3
  <2> QED
    BY <1>2, <2>2, <2>3, <2>4
<1>16. Progress(lo, hj)'
  BY <1>2, <1>7, <1>12, <1>13, <1>14, <1>15 DEF Progress
<1>17. Working'
  BY <1>9, <1>11, <1>16 DEF Working
<1>18. task.checked = Len(task.msg.sids) /\ Success
  BY <1>0, AtWork
<1> QED
  BY <1>0, <1>7, <1>8, <1>17, <1>18, NoCrash, LocalKeeps

\* _enqueue_task: the sub task gets the place and the first short id of its part.
LEMMA EnqueuedOne ==
  ASSUME NEW ws \in [Workers -> WorkerType], NEW i \in Workers,
         task.prevOff \in Nat, task.sidOff \in Nat
  PROVE  /\ Enqueued(ws, i) \in [Workers -> WorkerType]
         /\ \A v \in Workers : v # i => Enqueued(ws, i)[v] = ws[v]
         /\ Enqueued(ws, i)[i].pc = "fetch" /\ Enqueued(ws, i)[i].todo = ws[i].todo
         /\ Enqueued(ws, i)[i].off = task.prevOff /\ Enqueued(ws, i)[i].sidOff = task.sidOff
<1>1. PICK o \in Nat, s \in Nat : o = task.prevOff /\ s = task.sidOff
  OBVIOUS
<1>2. PICK r, q :
         /\ r \in WorkerType
         /\ r = ws[i]
         /\ q = [r EXCEPT !.pc = "fetch", !.off = o, !.sidOff = s]
  OBVIOUS
<1>3. /\ q \in WorkerType /\ q.pc = "fetch" /\ q.off = o /\ q.sidOff = s /\ q.todo = r.todo
  BY <1>2 DEF WorkerType
<1>4. Enqueued(ws, i) = [ws EXCEPT ![i] = q]
  <2>1. Enqueued(ws, i) = [ws EXCEPT ![i].pc = "fetch", ![i].off = o, ![i].sidOff = s]
    BY <1>1, Zenon DEF Enqueued
  <2> QED
    BY <1>2, <2>1
<1>5. PICK v : v = Enqueued(ws, i)
  OBVIOUS
<1>6. v \in [Workers -> WorkerType] /\ v[i] = q /\ \A j \in Workers : j # i => v[j] = ws[j]
  BY <1>3, <1>4, <1>5
<1> QED
  BY <1>1, <1>2, <1>3, <1>5, <1>6

\* The part that sub task i is given.
LEMMA PartGiven ==
  ASSUME NEW m \in Messages, NEW a \in Nat, NEW z \in Nat, Enough(m, z), NEW t \in TaskType,
         t.msg = m, NEW r, Slice(r.todo, m, a, z), r.pc = "fetch", r.off = StartOf(m, a),
         r.sidOff = FlagsUpTo(m.txs, a - 1), NEW b,
         t.proto # "eth" => StartOf(m, z + 1) <= b.len,
         t.proto = "eth" => t.large \/ StartOf(m, z + 1) <= b.cap
  PROVE  SplitPart(t, r, b, a, z)
  BY DEF SplitPart, Part, Enough

\* The entry is the last of a part: the sub task starts, the next one collects.
LEMMA DispatchNextOK ==
  ASSUME IInv, crashed = "no", task.pc = "dispatch", DispatchNext
  PROVE  IInv'
<1>0. /\ Working /\ task \in TaskType /\ task.msg \in Messages /\ out \in BufferType
      /\ out.gen \in Nat /\ out.cap \in Nat /\ out.len \in Nat
      /\ worker \in [Workers -> WorkerType] /\ task.proto \in Split /\ task.idx \in Workers
      /\ task.count \in Nat /\ ~Running(task.idx) /\ ~task.large
      /\ task.off \in Nat /\ task.prevOff \in Nat /\ task.sidOff \in Nat
      /\ UNCHANGED <<held, crashed, service>>
  BY DEF IInv, TypeOK, TaskType, Working, Quiet, BufferType, DispatchNext
<1>1. PICK lo \in [Workers -> Nat], hi \in [Workers -> Nat] : Progress(lo, hi)
  BY <1>0 DEF Working
<1>2. PICK a \in Nat, i \in Workers, c \in Nat, m \in Messages :
         a = lo[i] /\ i = task.idx /\ c = task.count /\ m = task.msg
  BY <1>0
<1>3. Dispatching(task, worker[i], a, c) /\ hi[i] = c
  BY <1>1, <1>2 DEF Progress, Dispatching
<1>4. PICK q \in WorkerType :
         /\ Pushed = [worker EXCEPT ![i] = q]
         /\ q.pc = worker[i].pc
         /\ Slice(q.todo, m, a, c + 1)
         /\ q.sidLen \in Nat
         /\ task.sidOff + q.sidLen = FlagsUpTo(m.txs, c + 1)
  BY <1>0, <1>2, <1>3, PushedEntry DEF DispatchNext
<1>5. /\ Enough(m, c + 1) /\ OffAfter \in Nat /\ task.off <= OffAfter
      /\ OffAfter = StartOf(m, (c + 1) + 1) /\ a \in 1 .. c + 1
  BY <1>0, <1>2, <1>3, PushedEntry DEF DispatchNext
<1>6. PICK o \in Nat : o = OffAfter
  BY <1>5
<1>7. PICK ws \in [Workers -> WorkerType] :
         /\ ws = Pushed /\ ws[i] = q /\ \A v \in Workers : v # i => ws[v] = worker[v]
  BY <1>0, <1>4
<1>8. CASE TooLarge(OffAfter) /\ Throw /\ worker' = Pushed /\ UNCHANGED out
  <2>1. \A w \in Workers : Running(w)' => Running(w) /\ worker'[w] = worker[w]
    BY <1>0, <1>2, <1>4, <1>7, <1>8 DEF Running
  <2>2. Grows
    BY <1>0, Steady
  <2> QED
    BY <1>0, <1>7, <1>8, <2>1, <2>2, ThrowOK
<1>9. ASSUME ~TooLarge(OffAfter), out' = Resize(out, OffAfter), worker' = Enqueued(Pushed, task.idx),
             task' = [task EXCEPT !.count = @ + 1, !.idx = NextIdx, !.off = OffAfter,
                                  !.prevOff = OffAfter,
                                  !.sidOff = @ + Pushed[task.idx].sidLen]
      PROVE  IInv'
  <2>1. PICK j \in Workers : j = NextIdx /\ j > i
    <3>1. NextIdx \in Nat /\ NextIdx <= PoolSize - 1 /\ NextIdx > i
      <4>1. BulkSize \in Nat \ {0}
        <5>1. Len(task.msg.txs) \in Nat
          BY <1>0, MessagesOK
        <5> QED
          <6>1. PICK k \in Nat : k = IF task.proto = "eth" THEN DefaultTx ELSE Len(task.msg.txs)
            BY <5>1, Sizes
          <6>2. PICK x \in Nat : x = k \div PoolSize
            BY Quotient, Sizes
          <6>3. BulkSize = Larger(x, Larger(PoolSize, MinimalTx))
            BY <6>1, <6>2, Zenon DEF BulkSize
          <6>4. PoolSize \in Nat \ {0} /\ MinimalTx \in Nat \ {0}
            BY Sizes
          <6> QED
            BY <6>3, <6>4 DEF Larger
      <4>2. PICK k \in Nat : k = task.count \div BulkSize
        BY <1>0, <4>1, Quotient
      <4>3. NextIdx = IF k < PoolSize - 1 THEN k ELSE PoolSize - 1
        BY <4>2 DEF NextIdx, Smaller
      <4>4. PoolSize \in Nat \ {0} /\ NextIdx > i
        BY <1>2, Sizes DEF DispatchNext
      <4> QED
        BY <4>3, <4>4
    <3> QED
      BY <3>1, Sizes DEF Workers
  <2>2. i \in Nat /\ j \in Nat /\ j # i
    BY <2>1, Sizes
  <2>3. PICK d \in Nat, s \in Nat : d = c + 1 /\ s = task.sidOff + q.sidLen
    BY <1>0, <1>4
  <2>4. /\ task' \in TaskType /\ SameBlock(task, task') /\ task'.pc = "dispatch"
        /\ task'.count = d /\ task'.off = o /\ task'.idx = j
        /\ task'.prevOff = o /\ task'.sidOff = s /\ task'.large = task.large
    <3>1. task' = [task EXCEPT !.count = d, !.idx = j, !.off = o, !.prevOff = o, !.sidOff = s]
      BY <1>2, <1>6, <1>7, <1>9, <2>1, <2>3
    <3>2. /\ task' \in TaskType /\ SameBlock(task, task') /\ task'.pc = task.pc
          /\ task'.count = d /\ task'.off = o /\ task'.idx = j
          /\ task'.prevOff = o /\ task'.sidOff = s /\ task'.large = task.large
      BY <1>0, <3>1 DEF TaskType, SameBlock
    <3> QED
      BY <3>2
  <2>5. /\ out' \in BufferType /\ out'.len = o /\ out'.cells = out.cells
        /\ out'.gen = out.gen /\ out'.cap = out.cap /\ o <= out.cap
    <3>1. o <= out.cap
      BY <1>0, <1>6, <1>9 DEF TooLarge
    <3>2. Sized(out, out', o)
      BY <1>0, <1>6, <1>9, SizeSet
    <3> QED
      BY <3>1, <3>2 DEF Sized
  <2>6. Local
    BY <1>0, <2>4, <2>5 DEF Local, Aside, SameBlock
  <2>7. /\ worker' \in [Workers -> WorkerType]
        /\ \A v \in Workers : v # i => worker'[v] = worker[v]
        /\ worker'[i].pc = "fetch" /\ worker'[i].todo = q.todo
        /\ worker'[i].off = task.prevOff /\ worker'[i].sidOff = task.sidOff
    <3>1. worker' = Enqueued(ws, i)
      BY <1>2, <1>7, <1>9
    <3> QED
      BY <1>0, <1>7, <3>1, EnqueuedOne
  <2>8. /\ Running(i)'
        /\ \A v \in Workers : v # i => (Running(v)' <=> Running(v))
    BY <2>7 DEF Running
  <2>9. /\ \A v \in Workers : v >= j => ~Running(v)' /\ worker'[v].todo = <<>> /\ worker'[v].sidLen = 0
        /\ \A v \in Workers : Running(v) => v # i /\ v # j
    <3>1. \A v \in Workers : v > i => ~Running(v) /\ worker[v].todo = <<>> /\ worker[v].sidLen = 0
      BY <1>0, <1>2 DEF Working, Quiet
    <3>2. \A v \in Workers : v >= j => v > i /\ v # i
      <4>1. ASSUME NEW v \in Workers, v >= j PROVE v > i /\ v # i
        <5>1. v \in Nat
          BY Sizes
        <5> QED
          BY <2>1, <2>2, <4>1, <5>1
      <4> QED
        BY <4>1
    <3> QED
      BY <1>0, <1>2, <2>1, <2>7, <2>8, <3>1, <3>2
  <2>10. Quiet'
    <3>1. \A v \in Workers : v > j => v >= j
      <4>1. ASSUME NEW v \in Workers, v > j PROVE v >= j
        <5>1. v \in Nat
          BY Sizes
        <5> QED
          BY <2>2, <4>1, <5>1
      <4> QED
        BY <4>1
    <3>2. j >= j /\ o <= o
      BY <2>2
    <3>3. task'.msg \in Messages /\ task'.proto \in Split
      BY <1>0, <2>4 DEF SameBlock
    <3> QED
      BY <1>0, <2>4, <2>5, <2>9, <3>1, <3>2, <3>3 DEF Quiet
  <2>11. PICK lj \in [Workers -> Nat], hj \in [Workers -> Nat] :
           /\ lj = [lo EXCEPT ![j] = d + 1]
           /\ hj = [hi EXCEPT ![i] = d, ![j] = d]
    <3>1. [lo EXCEPT ![j] = d + 1] \in [Workers -> Nat] /\ [hi EXCEPT ![i] = d, ![j] = d] \in [Workers -> Nat]
      OBVIOUS
    <3> QED
      BY <3>1
  <2>12. /\ lj[j] = d + 1 /\ hj[j] = d /\ lj[i] = a /\ hj[i] = d
         /\ \A v \in Workers : v # i /\ v # j => lj[v] = lo[v] /\ hj[v] = hi[v]
    BY <1>2, <2>2, <2>11
  <2>13. task'.msg = m /\ task'.proto = task.proto
    BY <1>2, <2>4 DEF SameBlock
  <2>14. SplitPart(task', worker'[i], out', a, d)
    <3>1. task.prevOff = StartOf(m, a) /\ task.sidOff = FlagsUpTo(m.txs, a - 1)
      BY <1>2, <1>3 DEF Dispatching
    <3>2. StartOf(m, d + 1) <= out'.len /\ StartOf(m, d + 1) <= out'.cap
      BY <1>5, <1>6, <2>3, <2>5
    <3>3. PICK t, r : t \in TaskType /\ t = task' /\ r = worker'[i]
      BY <2>4
    <3>4. /\ r.pc = "fetch" /\ r.off = StartOf(m, a) /\ r.sidOff = FlagsUpTo(m.txs, a - 1)
          /\ Slice(r.todo, m, a, d) /\ Enough(m, d) /\ t.msg = m
      BY <1>4, <1>5, <2>3, <2>7, <2>13, <3>1, <3>3
    <3>5. SplitPart(t, r, out', a, d)
      BY <3>3, <3>2, <3>4, PartGiven
    <3> QED
      BY <3>3, <3>5, Zenon
  <2>15. Parts(lj, hj)'
    <3> SUFFICES ASSUME NEW w \in Workers, Running(w)'
                 PROVE  SplitPart(task', worker'[w], out', lj[w], hj[w])
      BY <1>0, <2>13 DEF Parts
    <3>1. CASE w = i
      BY <2>12, <2>14, <3>1
    <3>2. CASE w # i
      <4>1. Running(w) /\ w # j /\ worker'[w] = worker[w] /\ lj[w] = lo[w] /\ hj[w] = hi[w]
        BY <2>7, <2>8, <2>9, <2>12, <3>2
      <4>2. out'.cap >= out.cap /\ (task.proto # "eth" => out'.len >= out.len)
        <5>1. task.proto # "eth" => out.len <= task.off
          BY <1>0 DEF Working, Quiet
        <5> QED
          BY <1>0, <1>5, <1>6, <2>5, <5>1
      <4>3. SplitPart(task', worker[w], out', lo[w], hi[w])
        <5>1. /\ task.large => task'.large
              /\ task'.msg = task.msg /\ task'.proto = task.proto
              /\ out' \in BufferType /\ out'.gen = out.gen
          BY <1>2, <2>4, <2>5, <2>13
        <5>2. Working /\ Progress(lo, hi) /\ Running(w) /\ task.proto \in Split
          BY <1>0, <1>1, <4>1
        <5> QED
          BY <4>2, <5>1, <5>2, OthersStay
      <4> QED
        BY <4>1, <4>3
    <3> QED
      BY <3>1, <3>2
  <2>16. Dispatching(task', worker'[j], d + 1, d)
    <3>1. PICK r : r = worker'[j]
      OBVIOUS
    <3>2. r.todo = <<>> /\ r.sidLen = 0
      BY <2>2, <2>9, <3>1
    <3>3. Slice(r.todo, m, d + 1, d)
      <4>1. d <= Len(m.txs) /\ 1 <= d + 1 /\ d + 1 <= d + 1 /\ 0 = d - (d + 1) + 1
        BY <1>5, <2>3, MessagesOK DEF Enough
      <4> QED
        BY <3>2, <4>1 DEF Slice
    <3>4. o = StartOf(m, d + 1) /\ (d + 1) - 1 = d
      BY <1>5, <1>6, <2>3
    <3>5. s = FlagsUpTo(m.txs, d) /\ s + 0 = s /\ FlagsUpTo(m.txs, d) <= Len(m.sids)
      BY <1>4, <1>5, <2>3 DEF Enough
    <3> QED
      BY <2>4, <2>13, <3>1, <3>2, <3>3, <3>4, <3>5 DEF Dispatching
  <2>17. Covered(lj, hj)'
    <3> SUFFICES ASSUME NEW n \in 1 .. d
                 PROVE  \/ Placed(m, out', n)
                        \/ \E w \in Workers : Busy(w)' /\ lj[w] <= n /\ n <= hj[w]
      BY <2>4, <2>13 DEF Covered
    <3>1. hj[i] = d /\ Busy(i)' /\ n <= d /\ lj[i] = a
      BY <2>8, <2>12 DEF Busy
    <3>2. CASE n = d
      BY <1>5, <2>3, <3>1, <3>2
    <3>3. CASE n \in 1 .. c /\ Placed(m, out, n)
      BY <2>5, <3>3 DEF Placed
    <3>4. CASE n \in 1 .. c /\ ~Placed(m, out, n)
      <4>1. PICK w \in Workers : Busy(w) /\ lo[w] <= n /\ n <= hi[w]
        BY <1>0, <1>1, <1>2, <3>4 DEF Progress, Covered, DispatchNext
      <4>2. CASE w = i
        BY <1>2, <3>1, <4>1, <4>2
      <4>3. CASE w # i
        <5>1. Running(w)
          BY <1>2, <4>1, <4>3 DEF Busy
        <5> QED
          BY <2>8, <2>9, <2>12, <4>1, <4>3, <5>1 DEF Busy
      <4> QED
        BY <4>2, <4>3
    <3> QED
      BY <2>3, <3>2, <3>3, <3>4
  <2>18. Progress(lj, hj)'
    BY <2>4, <2>12, <2>15, <2>16, <2>17 DEF Progress
  <2>19. Working'
    BY <2>7, <2>10, <2>18 DEF Working
  <2>20. task.checked = Len(task.msg.sids) /\ Success
    BY <1>0, AtWork
  <2> QED
    BY <1>0, <2>4, <2>6, <2>19, <2>20, NoCrash, LocalKeeps
<1> QED
  BY <1>8, <1>9 DEF DispatchNext

\* The last part of a block is given to its sub task.
LEMMA LastPart ==
  ASSUME IInv, crashed = "no", task.pc = "dispatch", task.count = Len(task.msg.txs),
         worker' = Enqueued(worker, task.idx),
         task' \in TaskType, SameBlock(task, task'), task'.idx = task.idx, task'.off = task.off,
         task'.pc = IF task.proto = "eth" THEN "wait" ELSE "header",
         out' \in BufferType, out'.gen = out.gen, out'.cap = out.cap, out'.cells = out.cells,
         task.proto # "eth" => out'.len = task.off,
         task.proto = "eth" => task'.large \/ task.off <= out.cap,
         UNCHANGED <<held, crashed, service>>
  PROVE  IInv'
<1>0. /\ Working /\ task \in TaskType /\ task.msg \in Messages /\ out \in BufferType
      /\ out.gen \in Nat /\ out.cap \in Nat /\ out.len \in Nat
      /\ worker \in [Workers -> WorkerType] /\ task.proto \in Split /\ task.idx \in Workers
      /\ task.count \in Nat /\ ~task.large
      /\ task.off \in Nat /\ task.prevOff \in Nat /\ task.sidOff \in Nat
  BY DEF IInv, TypeOK, TaskType, Working, Quiet, BufferType
<1>1. PICK lo \in [Workers -> Nat], hi \in [Workers -> Nat] : Progress(lo, hi)
  BY <1>0 DEF Working
<1>2. PICK a \in Nat, i \in Workers, c \in Nat, m \in Messages :
         /\ a = lo[i] /\ i = task.idx /\ c = task.count /\ m = task.msg /\ c = Len(m.txs)
         /\ i \in Nat
  BY <1>0, Sizes
<1>3. /\ Slice(worker[i].todo, m, a, c) /\ hi[i] = c
      /\ task.prevOff = StartOf(m, a) /\ task.off = StartOf(m, c + 1)
      /\ task.sidOff = FlagsUpTo(m.txs, a - 1) /\ FlagsUpTo(m.txs, c) <= Len(m.sids)
  BY <1>1, <1>2 DEF Progress, Dispatching
<1>4. Enough(m, c)
  <2>1. c \in 0 .. Len(m.txs)
    BY <1>2
  <2> QED
    BY <1>0, <1>2, <1>3, <2>1, AtWork
<1>5. Local
  BY <1>0 DEF Local, Aside, SameBlock
<1>6. /\ worker' \in [Workers -> WorkerType]
      /\ \A v \in Workers : v # i => worker'[v] = worker[v]
      /\ worker'[i].pc = "fetch" /\ worker'[i].todo = worker[i].todo
      /\ worker'[i].off = task.prevOff /\ worker'[i].sidOff = task.sidOff
  BY <1>0, <1>2, EnqueuedOne
<1>7. /\ Running(i)'
      /\ \A v \in Workers : v # i => (Running(v)' <=> Running(v))
  BY <1>6 DEF Running
<1>8. task'.msg = m /\ task'.proto = task.proto /\ task'.idx = i
  BY <1>2 DEF SameBlock
<1>9. Quiet'
  <2>1. ASSUME NEW v \in Workers, v > i PROVE ~Running(v)'
    <3>1. v # i
      BY <1>2, <2>1, Sizes
    <3> QED
      BY <1>0, <1>2, <1>7, <2>1, <3>1 DEF Working, Quiet
  <2>2. task'.pc = "header" => task.proto \in {"btc", "ont"}
    BY <1>0 DEF Split
  <2>3. task.proto # "consensus"
    BY <1>0 DEF Split
  <2> QED
    BY <1>8, <2>1, <2>2, <2>3 DEF Quiet
<1>10. SplitPart(task', worker'[i], out', a, c)
  <2>1. PICK t, r, b : t \in TaskType /\ t = task' /\ r = worker'[i] /\ b = out'
    OBVIOUS
  <2>2. StartOf(m, c + 1) = task.off /\ task.off <= task.off
    BY <1>0, <1>3
  <2>3. /\ t.proto # "eth" => StartOf(m, c + 1) <= b.len
        /\ t.proto = "eth" => t.large \/ StartOf(m, c + 1) <= b.cap
    BY <1>8, <2>1, <2>2
  <2>4. /\ r.pc = "fetch" /\ r.off = StartOf(m, a) /\ r.sidOff = FlagsUpTo(m.txs, a - 1)
        /\ Slice(r.todo, m, a, c) /\ t.msg = m
    BY <1>3, <1>6, <1>8, <2>1
  <2>5. SplitPart(t, r, b, a, c)
    BY <2>1, <1>4, <2>3, <2>4, PartGiven
  <2> QED
    BY <2>1, <2>5, Zenon
<1>11. Parts(lo, hi)'
  <2> SUFFICES ASSUME NEW w \in Workers, Running(w)'
               PROVE  SplitPart(task', worker'[w], out', lo[w], hi[w])
    BY <1>0, <1>8 DEF Parts
  <2>1. CASE w = i
    BY <1>2, <1>3, <1>10, <2>1
  <2>2. CASE w # i
    <3>1. Running(w) /\ worker'[w] = worker[w]
      BY <1>6, <1>7, <2>2
    <3>2. out'.cap >= out.cap /\ (task.proto # "eth" => out'.len >= out.len)
      <4>1. task.proto # "eth" => out.len <= task.off
        BY <1>0 DEF Working, Quiet
      <4> QED
        BY <1>0, <4>1
    <3>3. task'.msg = task.msg /\ task'.proto = task.proto
      BY <1>2, <1>8
    <3>4. Working /\ Progress(lo, hi) /\ task.proto \in Split /\ ~task.large
      BY <1>0, <1>1
    <3>5. SplitPart(task', worker[w], out', lo[w], hi[w])
      BY <3>1, <3>2, <3>3, <3>4, OthersStay
    <3> QED
      BY <3>1, <3>5
  <2> QED
    BY <2>1, <2>2
<1>12. Covered(lo, hi)'
  <2> SUFFICES ASSUME NEW n \in 1 .. c
               PROVE  \/ Placed(m, out', n)
                      \/ \E w \in Workers : Busy(w)' /\ lo[w] <= n /\ n <= hi[w]
    BY <1>2, <1>8 DEF Covered
  <2>1. CASE Placed(m, out, n)
    BY <2>1 DEF Placed
  <2>2. CASE ~Placed(m, out, n)
    <3>1. PICK w \in Workers : Busy(w) /\ lo[w] <= n /\ n <= hi[w]
      BY <1>1, <1>2, <2>2 DEF Progress, Covered
    <3>2. Running(w)'
      BY <1>2, <1>7, <3>1 DEF Busy
    <3> QED
      BY <3>1, <3>2 DEF Busy
  <2> QED
    BY <2>1, <2>2
<1>13. Dispatched(task', out')
  BY <1>2, <1>3, <1>8 DEF Dispatched
<1>14. Progress(lo, hi)'
  <2>1. task'.pc # "dispatch" /\ ~(task'.pc = "wait" /\ task'.proto = "consensus")
    BY <1>8
  <2> QED
    BY <1>11, <1>12, <1>13, <2>1 DEF Progress
<1>15. Working'
  BY <1>6, <1>9, <1>14 DEF Working
<1>16. task.checked = Len(task.msg.sids) /\ Success
  BY <1>0, AtWork
<1>17. task'.pc # "done" /\ task'.pc # "check"
  OBVIOUS
<1> QED
  BY <1>0, <1>5, <1>15, <1>16, <1>17, NoCrash, LocalKeeps

LEMMA DispatchLastOK ==
  ASSUME IInv, crashed = "no", task.pc = "dispatch", task.proto # "eth", DispatchLast
  PROVE  IInv'
<1>0. /\ Working /\ task \in TaskType /\ out \in BufferType /\ out.cap \in Nat
      /\ worker \in [Workers -> WorkerType] /\ task.proto \in Split /\ task.off \in Nat
      /\ task.count = Len(task.msg.txs)
      /\ UNCHANGED <<held, crashed, service>>
  BY DEF IInv, TypeOK, TaskType, Working, Quiet, BufferType, DispatchLast
<1>1. CASE TooLarge(task.off) /\ Throw /\ UNCHANGED <<worker, out>>
  <2>1. \A w \in Workers : Running(w)' => Running(w) /\ worker'[w] = worker[w]
    BY <1>1 DEF Running
  <2>2. Grows
    BY <1>0, Steady
  <2> QED
    BY <1>0, <1>1, <2>1, <2>2, ThrowOK
<1>2. CASE /\ ~TooLarge(task.off)
           /\ out' = Resize(out, task.off)
           /\ worker' = Enqueued(worker, task.idx)
           /\ task' = [task EXCEPT !.pc = "header"]
  <2>1. /\ task' \in TaskType /\ task'.pc = "header" /\ SameBlock(task, task') /\ SamePlace(task, task')
    BY <1>0, <1>2, PcSet DEF TaskPcs
  <2>2. PICK o \in Nat : o = task.off /\ o <= out.cap
    BY <1>0, <1>2 DEF TooLarge
  <2>3. Sized(out, out', o)
    BY <1>0, <1>2, <2>2, SizeSet
  <2>4. /\ out' \in BufferType /\ out'.gen = out.gen /\ out'.cap = out.cap /\ out'.cells = out.cells
        /\ out'.len = task.off
    BY <2>2, <2>3 DEF Sized
  <2>5. task'.idx = task.idx /\ task'.off = task.off
    BY <2>1 DEF SamePlace
  <2> QED
    BY <1>0, <1>2, <2>1, <2>4, <2>5, LastPart
<1> QED
  BY <1>1, <1>2 DEF DispatchLast

LEMMA EthDispatchLastOK ==
  ASSUME IInv, crashed = "no", task.pc = "dispatch", task.proto = "eth", EthDispatchLast
  PROVE  IInv'
<1>0. /\ task \in TaskType /\ out \in BufferType /\ out.cap \in Nat /\ task.off \in Nat
      /\ task.count = Len(task.msg.txs) /\ out' = out
      /\ worker' = Enqueued(worker, task.idx)
      /\ UNCHANGED <<held, crashed, service>>
  BY DEF IInv, TypeOK, TaskType, BufferType, EthDispatchLast
<1>1. /\ task' \in TaskType /\ task'.pc = "wait" /\ SameBlock(task, task')
      /\ task'.idx = task.idx /\ task'.off = task.off
      /\ task'.large \/ task.off <= out.cap
  <2>1. PICK b \in BOOLEAN : b = (task.off > out.cap) /\ (b \/ task.off <= out.cap)
    <3>1. CASE task.off > out.cap
      <4>1. TRUE = (task.off > out.cap)
        BY <3>1
      <4> QED
        BY <4>1
    <3>2. CASE ~(task.off > out.cap)
      <4>1. FALSE = (task.off > out.cap) /\ task.off <= out.cap
        BY <1>0, <3>2
      <4> QED
        BY <4>1
    <3> QED
      BY <3>1, <3>2
  <2>2. task' = [task EXCEPT !.pc = "wait", !.large = b]
    BY <2>1 DEF EthDispatchLast
  <2>3. /\ task' \in TaskType /\ task'.pc = "wait" /\ SameBlock(task, task')
        /\ task'.idx = task.idx /\ task'.off = task.off /\ task'.large = b
    BY <1>0, <2>2 DEF TaskType, SameBlock
  <2> QED
    BY <2>1, <2>3
<1> QED
  BY <1>0, <1>1, LastPart

LEMMA DispatchOK ==
  ASSUME IInv, crashed = "no", BtcDispatch \/ OntDispatch \/ EthDispatch
  PROVE  IInv'
<1>0. task.pc = "dispatch" /\ Working /\ worker \in [Workers -> WorkerType] /\ task.proto \in Split
  BY DEF BtcDispatch, OntDispatch, EthDispatch, IInv, Working, Quiet
<1>1. CASE DispatchThrows
  <2>1. \A w \in Workers : Running(w)' => Running(w) /\ worker'[w] = worker[w]
    BY <1>1 DEF Running, DispatchThrows
  <2>2. Grows
    BY <1>1, Steady DEF DispatchThrows
  <2> QED
    BY <1>0, <1>1, <2>1, <2>2, ThrowOK DEF DispatchThrows
<1>2. CASE DispatchSame
  BY <1>0, <1>2, DispatchSameOK
<1>3. CASE DispatchNext
  BY <1>0, <1>3, DispatchNextOK
<1>4. CASE task.proto # "eth" /\ DispatchLast
  BY <1>0, <1>4, DispatchLastOK
<1>5. CASE task.proto = "eth" /\ EthDispatchLast
  BY <1>0, <1>5, EthDispatchLastOK
<1> QED
  BY <1>1, <1>2, <1>3, <1>4, <1>5 DEF BtcDispatch, OntDispatch, EthDispatch

\* The header is written while the sub tasks write the transactions.
LEMMA CopyHeaderOK ==
  ASSUME IInv, crashed = "no", CopyHeader
  PROVE  IInv'
<1>0. /\ Working /\ task \in TaskType /\ task.msg \in Messages /\ out \in BufferType
      /\ out.gen \in Nat /\ out.cap \in Nat /\ out.len \in Nat
      /\ worker \in [Workers -> WorkerType] /\ task.proto \in {"btc", "ont"}
      /\ task.pc = "header" /\ worker' = worker
      /\ UNCHANGED <<held, crashed, service>>
  BY DEF IInv, TypeOK, TaskType, Working, Quiet, BufferType, CopyHeader
<1>1. PICK lo \in [Workers -> Nat], hi \in [Workers -> Nat] : Progress(lo, hi)
  BY <1>0 DEF Working
<1>2. PICK m \in Messages, n \in Nat : m = task.msg /\ n = Len(m.txs)
  BY <1>0, MessagesOK
<1>3. /\ task.off = StartOf(m, n + 1) /\ FlagsUpTo(m.txs, n) <= Len(m.sids)
      /\ out.len = StartOf(m, n + 1)
  BY <1>0, <1>1, <1>2 DEF Progress, Dispatched, Split
<1>4. Enough(m, n)
  <2>1. n \in 0 .. Len(m.txs)
    BY <1>2
  <2> QED
    BY <1>0, <1>2, <1>3, <2>1, AtWork
<1>5. CopyResize(out, HeaderSize) = out
  <2>1. n + 1 \in 1 .. n + 1 /\ n + 1 \in (n + 1) .. n + 1
    OBVIOUS
  <2>2. 1 <= StartOf(m, n + 1)
    BY <1>4, <2>1, StartGrows
  <2> QED
    BY <1>0, <1>3, <2>2 DEF CopyResize, HeaderSize
<1>6. /\ out' \in BufferType /\ out'.len = out.len /\ out'.gen = out.gen /\ out'.cap = out.cap
      /\ out'.cells[0] = Header[1]
      /\ \A j \in 1 .. n : Placed(m, out, j) => Placed(m, out', j)
  <2>1. PICK b, c : b \in BufferType /\ b = out /\ c = out'
    BY <1>0
  <2>2. c = Copied(b, 0, Header)
    BY <1>5, <2>1 DEF CopyHeader
  <2>3. /\ c \in BufferType /\ c.len = b.len /\ c.gen = b.gen /\ c.cap = b.cap
        /\ c.cells[0] = Header[1]
        /\ \A j \in 1 .. n : Placed(m, b, j) => Placed(m, c, j)
    BY <2>1, <1>4, <2>2, HeaderPlaced
  <2> QED
    BY <2>1, <2>3
<1>7. /\ task' \in TaskType /\ task'.pc = "wait" /\ SameBlock(task, task') /\ SamePlace(task, task')
  BY <1>0, PcSet DEF TaskPcs, CopyHeader
<1>8. Local
  BY <1>0, <1>6, <1>7 DEF Local, Aside, SameBlock
<1>9. /\ task'.msg = m /\ task'.proto = task.proto /\ task'.off = task.off /\ task'.idx = task.idx
      /\ task'.large = task.large
  BY <1>2, <1>7 DEF SameBlock, SamePlace
<1>10. \A v \in Workers : Running(v)' <=> Running(v)
  BY <1>0 DEF Running
<1>11. Quiet'
  BY <1>0, <1>7, <1>9, <1>10 DEF Working, Quiet
<1>12. Parts(lo, hi)'
  <2> SUFFICES ASSUME NEW w \in Workers, Running(w)'
               PROVE  SplitPart(task', worker'[w], out', lo[w], hi[w])
    BY <1>0, <1>9 DEF Parts, Split
  <2>1. Running(w) /\ worker'[w] = worker[w]
    BY <1>0, <1>10
  <2>2. /\ task'.msg = task.msg /\ task'.proto = task.proto /\ task'.large = task.large
        /\ out' \in BufferType /\ out'.gen = out.gen
        /\ out'.cap >= out.cap /\ out'.len >= out.len
    BY <1>0, <1>2, <1>6, <1>9
  <2>3. Working /\ Progress(lo, hi) /\ task.proto \in Split
    BY <1>0, <1>1 DEF Split
  <2>4. SplitPart(task', worker[w], out', lo[w], hi[w])
    BY <2>1, <2>2, <2>3, OthersStay
  <2> QED
    BY <2>1, <2>4
<1>13. Covered(lo, hi)'
  <2> SUFFICES ASSUME NEW j \in 1 .. n
               PROVE  \/ Placed(m, out', j)
                      \/ \E w \in Workers : Busy(w)' /\ lo[w] <= j /\ j <= hi[w]
    BY <1>2, <1>7, <1>9 DEF Covered
  <2>1. CASE Placed(m, out, j)
    BY <1>6, <2>1
  <2>2. CASE ~Placed(m, out, j)
    <3>1. PICK w \in Workers : Busy(w) /\ lo[w] <= j /\ j <= hi[w]
      BY <1>0, <1>1, <1>2, <2>2 DEF Progress, Covered
    <3> QED
      BY <1>0, <1>10, <3>1 DEF Busy
  <2> QED
    BY <2>1, <2>2
<1>14. Dispatched(task', out')
  BY <1>2, <1>3, <1>6, <1>9 DEF Dispatched
<1>15. Progress(lo, hi)'
  BY <1>0, <1>7, <1>9, <1>12, <1>13, <1>14 DEF Progress
<1>16. Working'
  BY <1>0, <1>11, <1>15 DEF Working
<1>17. task.checked = Len(task.msg.sids) /\ Success
  BY <1>0, AtWork
<1> QED
  BY <1>0, <1>7, <1>8, <1>16, <1>17, NoCrash, LocalKeeps

-----------------------------------------------------------------------------
(* The sub tasks.                                                          *)

\* A sub task at work takes a step: its part and what is covered are to be shown.
LEMMA SubStep ==
  ASSUME IInv, crashed = "no", UNCHANGED <<task, held, service>>, crashed' = "no",
         NEW lo \in [Workers -> Nat], NEW hi \in [Workers -> Nat], Progress(lo, hi),
         NEW w \in Workers, Running(w),
         NEW lj \in [Workers -> Nat],
         worker' \in [Workers -> WorkerType], worker'[w].pc # "new",
         \A v \in Workers : v # w => worker'[v] = worker[v] /\ lj[v] = lo[v],
         out' \in BufferType, out'.gen >= out.gen, out'.cells[0] = out.cells[0],
         task.proto \in {"btc", "ont"} => out'.len = out.len,
         Parts(lj, hi)',
         task.pc \in {"dispatch", "header", "wait"} => Covered(lj, hi)',
         task.proto = "consensus" /\ worker'[0].pc = "completed" =>
             WholeCopied(task, worker'[0], out')
  PROVE  IInv'
<1>0. /\ Working /\ task \in TaskType /\ out \in BufferType /\ task.proto \in Protocols
      /\ task.pc \in {"dispatch", "header", "wait", "failed"}
      /\ w \in Nat
  BY Sizes DEF IInv, TypeOK, TaskType, Working, Quiet
<1>1. Local
  BY <1>0 DEF Local, Aside
<1>2. \A v \in Workers : Running(v)' => Running(v)
  BY DEF Running
<1>3. ASSUME task.pc = "dispatch"
      PROVE  /\ task.proto \in Split /\ ~Running(task.idx) /\ w # task.idx
             /\ worker'[task.idx] = worker[task.idx] /\ task.idx \in Workers
             /\ \A v \in Workers : v > task.idx =>
                   ~Running(v) /\ worker'[v].todo = <<>> /\ worker'[v].sidLen = 0
  <2>1. /\ task.idx \in Workers /\ task.proto \in Split /\ ~Running(task.idx)
        /\ \A v \in Workers : v > task.idx =>
                ~Running(v) /\ worker[v].todo = <<>> /\ worker[v].sidLen = 0
    BY <1>0, <1>3 DEF TaskType, Working, Quiet
  <2>2. \A v \in Workers : v > task.idx => v # w
    BY <2>1
  <2> QED
    BY <2>1, <2>2
<1>4. Quiet'
  <2>1. task.pc = "dispatch" /\ task.proto # "eth" => out'.len <= task.off
    BY <1>0, <1>3 DEF Working, Quiet, Split
  <2>2. task.pc = "dispatch" => ~Running(task.idx)'
    BY <1>2, <1>3
  <2>3. task.pc \in {"header", "wait"} => \A v \in Workers : v > task.idx => ~Running(v)'
    BY <1>0, <1>2 DEF Working, Quiet
  <2>4. task.pc = "dispatch" => \A v \in Workers : v > task.idx =>
                ~Running(v)' /\ worker'[v].todo = <<>> /\ worker'[v].sidLen = 0
    BY <1>2, <1>3
  <2>5. task.pc = "wait" /\ task.proto = "consensus" => task.idx = 0 /\ worker'[0].pc # "new"
    BY <1>0, Sizes DEF Working, Quiet
  <2>6. /\ task.msg \in Messages
        /\ task.pc = "dispatch" => task.proto \in Split /\ ~task.large
        /\ task.pc = "header" => task.proto \in {"btc", "ont"}
        /\ task.pc = "failed" => task.threw
    BY <1>0 DEF Working, Quiet
  <2> QED
    BY <1>0, <2>1, <2>2, <2>3, <2>4, <2>5, <2>6 DEF Quiet
<1>5. task.pc = "dispatch" => Dispatching(task, worker'[task.idx], lj[task.idx], hi[task.idx])
  BY <1>3 DEF Progress
<1>6. task.pc \in {"header", "wait"} => Dispatched(task, out')
  BY DEF Progress, Dispatched
<1>7. Progress(lj, hi)'
  BY <1>5, <1>6 DEF Progress
<1>8. Working'
  BY <1>4, <1>7 DEF Working
<1>9. task.checked = Len(task.msg.sids) /\ Success
  BY <1>0, AtWork
<1> QED
  BY <1>0, <1>1, <1>8, <1>9, NoCrash, LocalKeeps

\* A sub task uses memory that is gone, for a reason.
LEMMA SubCrash ==
  ASSUME IInv, crashed = "no", UNCHANGED <<task, out, held, service>>,
         NEW w \in Workers, Running(w), crashed' # "no", CrashesExplained'
  PROVE  IInv'
<1>0. /\ Working /\ task \in TaskType /\ out \in BufferType /\ out.gen \in Nat
      /\ task.pc \in {"dispatch", "header", "wait", "failed"}
  BY DEF IInv, TypeOK, TaskType, Working, Quiet, BufferType
<1>1. Local
  BY <1>0 DEF Local, Aside
<1>2. task.checked = Len(task.msg.sids) /\ Success
  BY <1>0, AtWork
<1> QED
  BY <1>0, <1>1, <1>2, LocalKeeps

\* A transaction of the block was removed while it was worked on.
LEMMA RemovedExplained ==
  ASSUME IInv, crashed = "no", UNCHANGED <<task, removed>>, NEW w \in Workers, Running(w),
         NEW j \in 1 .. Len(task.msg.sids), ~HasContents(task.msg.sids[j]),
         crashed' = "transaction removed"
  PROVE  CrashesExplained'
<1>0. Working /\ task.pc \in {"dispatch", "header", "wait", "failed"}
  BY DEF IInv, TypeOK, TaskType, Working, Quiet
<1>1. \E s \in Elements(task.msg.sids) : HashOf[s] \in removed
  BY <1>0, AtWork
<1> QED
  BY <1>1 DEF CrashesExplained

\* So it was if there is a stale pointer.
LEMMA StaleExplained ==
  ASSUME IInv, UNCHANGED <<task, removed>>, NEW w \in stale, crashed' = "transaction removed"
  PROVE  CrashesExplained'
  BY DEF IInv, Dangling, CrashesExplained

\* Sub task w is at the a-th transaction of m.
AtEntry(w, m, a, z) ==
    /\ a \in 1 .. z /\ z <= Len(m.txs)
    /\ worker[w].off = StartOf(m, a)
    /\ CurrentHash(w) = OriginalTx(m, a)
    /\ TotalLength(w) = StartOf(m, a + 1) /\ TotalLength(w) \in Nat
    /\ StartOf(m, a) \in Nat /\ StartOf(m, a) <= StartOf(m, a + 1)
    /\ Current(w) = Short => \E j \in 1 .. Len(m.sids) : CurrentSid(w) = m.sids[j]

\* Sub task w when it has copied it.
Advanced(w) ==
    [worker EXCEPT ![w].pc = "fetch", ![w].todo = Tail(@), ![w].off = TotalLength(w),
                   ![w].sidOff = @ + (IF Current(w) = Short THEN 1 ELSE 0)]

AtNextEntry(w, m, a, z) ==
    \E q \in WorkerType : /\ Advanced(w) = [worker EXCEPT ![w] = q]
                          /\ q.pc = "fetch" /\ Part(q, m, a + 1, z)

\* What a sub task does next: the transaction that its first entry stands for.
LEMMA CurrentEntry ==
  ASSUME NEW w \in Workers, NEW r \in WorkerType, r = worker[w],
         NEW m \in Messages, m = task.msg, NEW a \in Nat, NEW z \in Nat, Part(r, m, a, z),
         r.todo # <<>>, Enough(m, a)
  PROVE  AtEntry(w, m, a, z) /\ AtNextEntry(w, m, a, z)
<1>0. /\ Slice(r.todo, m, a, z) /\ r.off = StartOf(m, a) /\ r.sidOff = FlagsUpTo(m.txs, a - 1)
      /\ r.todo \in Seq(Entries) /\ r.sidOff \in Nat
  BY DEF Part, WorkerType
<1>1. /\ Len(r.todo) \in Nat \ {0} /\ Len(m.txs) \in Nat /\ Len(m.sids) \in Nat
      /\ \A k \in 1 .. Len(m.txs) : m.txs[k] \in Entries
  BY <1>0, MessagesOK
<1>2. a \in 1 .. z /\ z <= Len(m.txs) /\ a \in 1 .. Len(m.txs) /\ a - 1 \in Nat /\ a \in 1 .. a
  BY <1>0, <1>1 DEF Slice
<1>3. PICK x : x = m.txs[a] /\ x = Current(w) /\ x \in Entries
  <2>1. Head(r.todo) = r.todo[1]
    BY <1>0, <1>1
  <2>2. r.todo[1] = m.txs[(a - 1) + 1] /\ (a - 1) + 1 = a
    BY <1>0, <1>1 DEF Slice
  <2> QED
    BY <1>1, <1>2, <2>1, <2>2 DEF Current
<1>4. PICK k : k = IF x = Short THEN 1 ELSE 0
  OBVIOUS
<1>5. k \in Nat /\ FlagsUpTo(m.txs, a) = r.sidOff + k
  <2>0. PICK txs : txs = m.txs
    OBVIOUS
  <2>1. PICK c \in Nat : txs = m.txs /\ c = a - 1 /\ c + 1 = a
    BY <1>2, <2>0
  <2>2. /\ txs[c + 1] = Short => FlagsUpTo(txs, c + 1) = FlagsUpTo(txs, c) + 1
        /\ txs[c + 1] # Short => FlagsUpTo(txs, c + 1) = FlagsUpTo(txs, c)
    BY FlagsStep
  <2>3. PICK f, g : f \in Nat /\ f = r.sidOff /\ f = FlagsUpTo(txs, c) /\ g = FlagsUpTo(txs, a)
    BY <1>0, <2>1
  <2>4. (x = Short => g = f + 1) /\ (x # Short => g = f)
    BY <1>3, <2>1, <2>2, <2>3
  <2>5. k \in Nat /\ g = f + k
    BY <2>3, <1>4, <2>4
  <2> QED
    BY <2>1, <2>3, <2>5
<1>6. FlagsUpTo(m.txs, a) <= Len(m.sids)
  BY DEF Enough
<1>7. x = Short => CurrentSid(w) = m.sids[FlagsUpTo(m.txs, a)] /\ FlagsUpTo(m.txs, a) \in 1 .. Len(m.sids)
  <2>1. x = Short => FlagsUpTo(m.txs, a) = r.sidOff + 1
    BY <1>4, <1>5
  <2> QED
    BY <1>0, <1>1, <1>6, <2>1 DEF CurrentSid
<1>8. CurrentHash(w) = OriginalTx(m, a)
  BY <1>3, <1>7 DEF CurrentHash, OriginalTx
<1>9. /\ TotalLength(w) = StartOf(m, a + 1) /\ TotalLength(w) \in Nat
      /\ StartOf(m, a) \in Nat /\ StartOf(m, a) <= StartOf(m, a + 1)
  <2>1. StartOf(m, a) \in Nat /\ StartOf(m, a + 1) = StartOf(m, a) + SizeOf[OriginalTx(m, a)]
    BY <1>2, StartStep
  <2>2. SizeOf[OriginalTx(m, a)] \in Nat
    BY <1>2, OriginalKnown
  <2>3. TotalLength(w) = StartOf(m, a) + SizeOf[OriginalTx(m, a)]
    BY <1>0, <1>8 DEF TotalLength
  <2>4. PICK e, g, l : /\ l \in Nat /\ e = StartOf(m, a + 1) /\ g = StartOf(m, a)
                       /\ l = SizeOf[OriginalTx(m, a)]
    BY <2>2
  <2>5. g \in Nat /\ e = g + l
    BY <2>1, <2>4
  <2>6. e \in Nat /\ g <= e
    BY <2>4, <2>5
  <2> QED
    BY <2>1, <2>3, <2>4, <2>6
<1>10. PICK o, todo, s : o \in Nat /\ o = TotalLength(w) /\ todo = Tail(r.todo) /\ s = r.sidOff + k
  BY <1>9
<1>11. /\ todo \in Seq(Entries) /\ Len(todo) = Len(r.todo) - 1
       /\ \A n \in 1 .. Len(todo) : todo[n] = r.todo[n + 1]
  BY <1>0, <1>1, <1>10
<1>12. PICK q : q = [r EXCEPT !.pc = "fetch", !.todo = todo, !.off = o, !.sidOff = s]
  OBVIOUS
<1>13. q \in WorkerType /\ q.pc = "fetch" /\ q.todo = todo /\ q.off = o /\ q.sidOff = s
  <2>1. s \in Nat /\ todo \in Seq(Entries)
    BY <1>0, <1>5, <1>10, <1>11
  <2> QED
    BY <1>10, <1>12, <2>1 DEF WorkerType
<1>14. Advanced(w) = [worker EXCEPT ![w] = q]
  <2>1. Advanced(w) = [worker EXCEPT ![w].pc = "fetch", ![w].todo = Tail(@), ![w].off = o,
                                     ![w].sidOff = @ + k]
    BY <1>3, <1>4, <1>10, Zenon DEF Advanced
  <2> QED
    BY <1>10, <1>12, <2>1
<1>15. Part(q, m, a + 1, z)
  <2>1. (a + 1) - 1 = a
    OBVIOUS
  <2>2. Slice(todo, m, a + 1, z)
    <3>1. 1 <= a + 1 /\ a + 1 <= z + 1 /\ z <= Len(m.txs)
      BY <1>2
    <3>2. Len(r.todo) = z - a + 1 /\ \A n \in 1 .. Len(r.todo) : r.todo[n] = m.txs[(a - 1) + n]
      BY <1>0 DEF Slice
    <3>3. Len(todo) = z - (a + 1) + 1
      BY <1>2, <1>11, <3>2
    <3>4. ASSUME NEW n \in 1 .. Len(todo) PROVE todo[n] = m.txs[((a + 1) - 1) + n]
      <4>1. n + 1 \in 1 .. Len(r.todo) /\ (a - 1) + (n + 1) = ((a + 1) - 1) + n
        <5>1. PICK l \in Nat : l = Len(r.todo) /\ n \in 1 .. l - 1
          BY <1>1, <1>11, <3>4
        <5> QED
          BY <5>1
      <4>2. todo[n] = r.todo[n + 1]
        BY <1>11, <3>4
      <4>3. r.todo[n + 1] = m.txs[(a - 1) + (n + 1)]
        BY <3>2, <4>1
      <4> QED
        BY <4>1, <4>2, <4>3
    <3> QED
      BY <3>1, <3>3, <3>4 DEF Slice
  <2>3. o = StartOf(m, a + 1) /\ s = FlagsUpTo(m.txs, a)
    BY <1>5, <1>9, <1>10
  <2> QED
    BY <1>13, <2>1, <2>2, <2>3 DEF Part
<1> QED
  <2>1. AtEntry(w, m, a, z)
    BY <1>0, <1>2, <1>3, <1>7, <1>8, <1>9 DEF AtEntry
  <2>2. AtNextEntry(w, m, a, z)
    BY <1>13, <1>14, <1>15 DEF AtNextEntry
  <2> QED
    BY <2>1, <2>2

\* The transaction a running sub task of a split block is at.
LEMMA SplitEntry ==
  ASSUME IInv, crashed = "no", task.proto \in Split, NEW w \in Workers, Running(w),
         NEW lo \in [Workers -> Nat], NEW hi \in [Workers -> Nat], Progress(lo, hi),
         worker[w].todo # <<>>
  PROVE  /\ task.msg \in Messages /\ worker[w] \in WorkerType
         /\ SplitPart(task, worker[w], out, lo[w], hi[w]) /\ Enough(task.msg, hi[w])
         /\ Part(worker[w], task.msg, lo[w], hi[w])
         /\ lo[w] \in 1 .. hi[w] /\ Enough(task.msg, lo[w])
         /\ StartOf(task.msg, hi[w] + 1) \in Nat
         /\ StartOf(task.msg, lo[w] + 1) <= StartOf(task.msg, hi[w] + 1)
<1>0. Working /\ worker[w] \in WorkerType
  BY DEF IInv, Working
<1>1. /\ task.pc \in {"dispatch", "header", "wait", "failed"}
      /\ SplitPart(task, worker[w], out, lo[w], hi[w])
      /\ Enough(task.msg, hi[w])
      /\ lo[w] \in 1 .. hi[w] + 1 /\ hi[w] \in 0 .. Len(task.msg.txs)
      /\ StartOf(task.msg, hi[w] + 1) \in Nat
  BY <1>0, RunningPart
<1>2. task.msg \in Messages
  BY <1>0, <1>1, AtWork
<1>3. Part(worker[w], task.msg, lo[w], hi[w])
  BY <1>1 DEF SplitPart
<1>4. PICK a \in Nat, z \in Nat, m \in Messages, r \in WorkerType :
         a = lo[w] /\ z = hi[w] /\ m = task.msg /\ r = worker[w]
  BY <1>0, <1>2
<1>5. a \in 1 .. z
  <2>1. Len(r.todo) = z - a + 1 /\ r.todo # <<>> /\ r.todo \in Seq(Entries) /\ 1 <= a
    BY <1>3, <1>4 DEF Part, Slice, WorkerType
  <2>2. Len(r.todo) \in Nat \ {0}
    BY <2>1
  <2> QED
    BY <2>1, <2>2
<1>6. Enough(m, a) /\ Enough(m, z)
  BY <1>1, <1>4, <1>5, EnoughForFewer
<1>7. StartOf(m, a + 1) <= StartOf(m, z + 1)
  <2>1. a + 1 \in 1 .. z + 1 /\ z + 1 \in (a + 1) .. z + 1
    BY <1>5
  <2> QED
    BY <1>6, <2>1, StartGrows
<1> QED
  BY <1>0, <1>1, <1>2, <1>3, <1>4, <1>5, <1>6, <1>7

\* A sub task of a large Ethereum block keeps its part whatever the buffer does.
LEMMA LargeStays ==
  ASSUME NEW t, NEW r, NEW b, NEW d, NEW a, NEW z, SplitPart(t, r, b, a, z),
         t.proto = "eth", t.large
  PROVE  SplitPart(t, r, d, a, z)
  BY DEF SplitPart

\* The contents are found and the output has the length for them.
LEMMA FetchOK ==
  ASSUME IInv, crashed = "no", task.proto \in Split, NEW w \in Workers, Fetch(w)
  PROVE  IInv'
<1>0. /\ Working /\ worker \in [Workers -> WorkerType] /\ out \in BufferType
      /\ out.len \in Nat /\ out.cap \in Nat /\ out.gen \in Nat
      /\ Running(w) /\ worker[w].todo # <<>> /\ worker[w].pc = "fetch"
      /\ UNCHANGED <<task, held, service>>
  BY DEF IInv, TypeOK, Working, Running, Fetch, BufferType
<1>1. PICK lo \in [Workers -> Nat], hi \in [Workers -> Nat] : Progress(lo, hi)
  BY <1>0 DEF Working
<1>2. PICK a \in Nat, z \in Nat, m \in Messages, r \in WorkerType :
         /\ a = lo[w] /\ z = hi[w] /\ m = task.msg /\ r = worker[w]
         /\ SplitPart(task, r, out, a, z) /\ Part(r, m, a, z) /\ Enough(m, z) /\ Enough(m, a)
         /\ StartOf(m, z + 1) \in Nat /\ StartOf(m, a + 1) <= StartOf(m, z + 1)
         /\ r.todo # <<>>
  <2>1. /\ task.msg \in Messages /\ worker[w] \in WorkerType
        /\ SplitPart(task, worker[w], out, lo[w], hi[w]) /\ Enough(task.msg, hi[w])
        /\ Part(worker[w], task.msg, lo[w], hi[w])
        /\ Enough(task.msg, lo[w])
        /\ StartOf(task.msg, hi[w] + 1) \in Nat
        /\ StartOf(task.msg, lo[w] + 1) <= StartOf(task.msg, hi[w] + 1)
    BY <1>0, <1>1, SplitEntry
  <2>2. lo[w] \in Nat /\ hi[w] \in Nat
    OBVIOUS
  <2> QED
    BY <1>0, <2>1, <2>2, Zenon
<1>3. /\ TotalLength(w) = StartOf(m, a + 1) /\ TotalLength(w) \in Nat
      /\ Current(w) = Short => \E j \in 1 .. Len(m.sids) : CurrentSid(w) = m.sids[j]
  <2>1. /\ r = worker[w] /\ m = task.msg /\ Part(r, m, a, z) /\ r.todo # <<>> /\ Enough(m, a)
    BY <1>2
  <2>2. AtEntry(w, m, a, z)
    BY <2>1, CurrentEntry
  <2> QED
    BY <2>2 DEF AtEntry
<1>4. CASE /\ Current(w) = Short /\ ~HasContents(CurrentSid(w))
           /\ crashed' = "transaction removed"
           /\ UNCHANGED <<worker, out>>
  <2>1. PICK j \in 1 .. Len(m.sids) : CurrentSid(w) = m.sids[j]
    BY <1>3, <1>4
  <2>2. CrashesExplained'
    BY <1>0, <1>2, <1>4, <2>1, RemovedExplained DEF service
  <2> QED
    BY <1>0, <1>4, <2>2, SubCrash
<1>5. CASE /\ out' = CopyResize(out, TotalLength(w))
           /\ worker' = [worker EXCEPT ![w].pc = "copy", ![w].gen = out'.gen]
           /\ UNCHANGED crashed
  <2>1. PICK n \in Nat, e \in Nat : n = TotalLength(w) /\ e = StartOf(m, z + 1) /\ n <= e
    BY <1>2, <1>3
  <2>2. /\ out' \in BufferType /\ out'.cells = out.cells /\ out'.gen \in Nat
        /\ out'.len >= out.len /\ out'.gen >= out.gen /\ out'.cap >= out.cap
        /\ n <= out.cap => out'.gen = out.gen
        /\ n <= out.len => out' = out
    <3>1. Roomy(out, out', n)
      BY <1>0, <1>5, <2>1, CopyRoom
    <3> QED
      BY <3>1 DEF Roomy, BufferType
  <2>3. task.proto # "eth" => out' = out
    <3>1. task.proto # "eth" => e <= out.len
      BY <1>2, <2>1 DEF SplitPart
    <3> QED
      BY <1>0, <2>1, <2>2, <3>1
  <2>4. ~(task.proto = "eth" /\ task.large) => out'.gen = out.gen
    <3>1. task.proto = "eth" /\ ~task.large => e <= out.cap
      BY <1>2, <2>1 DEF SplitPart
    <3> QED
      BY <1>0, <2>1, <2>2, <2>3, <3>1
  <2>5. PICK g, q : g \in Nat /\ g = out'.gen /\ q = [r EXCEPT !.pc = "copy", !.gen = g]
    BY <2>2
  <2>6. /\ q \in WorkerType /\ q.pc = "copy" /\ q.gen = g /\ q.todo = r.todo
        /\ q.off = r.off /\ q.sidOff = r.sidOff
    BY <2>5 DEF WorkerType
  <2>7. worker' = [worker EXCEPT ![w] = q]
    <3>1. worker' = [worker EXCEPT ![w].pc = "copy", ![w].gen = g]
      BY <1>5, <2>5, Zenon
    <3> QED
      BY <1>0, <1>2, <2>5, <3>1
  <2>8. /\ worker' \in [Workers -> WorkerType] /\ worker'[w] = q
        /\ \A v \in Workers : v # w => worker'[v] = worker[v]
    BY <1>0, <2>6, <2>7, WorkerSet
  <2>9. \A v \in Workers : Running(v)' <=> Running(v)
    BY <1>0, <2>6, <2>8 DEF Running
  <2>10. ASSUME NEW v \in Workers, Running(v)
         PROVE  SplitPart(task, worker[v], out', lo[v], hi[v])
    <3>1. CASE task.proto = "eth" /\ task.large
      <4>1. SplitPart(task, worker[v], out, lo[v], hi[v])
        BY <1>0, <1>1, <2>10, RunningPart
      <4> QED
        BY <3>1, <4>1, LargeStays
    <3>2. CASE ~(task.proto = "eth" /\ task.large)
      <4>1. out'.gen = out.gen /\ (task.proto # "eth" => out'.len >= out.len)
        BY <2>2, <2>4, <3>2
      <4>2. SplitPart(task', worker[v], out', lo[v], hi[v])
        BY <1>0, <1>1, <2>2, <2>10, <4>1, OthersStay
      <4> QED
        BY <1>0, <4>2
    <3> QED
      BY <3>1, <3>2
  <2>11. SplitPart(task, q, out', a, z)
    <3>1. SplitPart(task, r, out', a, z)
      BY <1>0, <1>2, <2>10
    <3> QED
      BY <1>2, <2>5, <2>6, <3>1 DEF SplitPart, Part
  <2>12. Parts(lo, hi)'
    <3> SUFFICES ASSUME NEW v \in Workers, Running(v)'
                 PROVE  SplitPart(task, worker'[v], out', lo[v], hi[v])
      BY <1>0 DEF Parts
    <3>1. CASE v = w
      BY <1>2, <2>8, <2>11, <3>1
    <3>2. CASE v # w
      BY <2>8, <2>9, <2>10, <3>2
    <3> QED
      BY <3>1, <3>2
  <2>13. task.pc \in {"dispatch", "header", "wait"} => Covered(lo, hi)'
    <3>1. \A i : Placed(task.msg, out, i) => Placed(task.msg, out', i)
      BY <2>2 DEF Placed
    <3>2. \A v \in Workers : Busy(v) => Busy(v)'
      BY <1>0, <2>9 DEF Busy
    <3>3. task.pc \in {"dispatch", "header", "wait"} => Covered(lo, hi)
      BY <1>1 DEF Progress
    <3> QED
      BY <1>0, <3>1, <3>2, <3>3 DEF Covered
  <2>14. out'.cells[0] = out.cells[0] /\ (task.proto \in {"btc", "ont"} => out'.len = out.len)
    BY <2>2, <2>3
  <2>15. worker'[w].pc # "new" /\ task.proto # "consensus" /\ crashed' = "no"
    BY <1>5, <2>6, <2>8 DEF Split
  <2> QED
    BY <1>0, <1>1, <2>2, <2>8, <2>12, <2>13, <2>14, <2>15, SubStep
<1> QED
  BY <1>4, <1>5 DEF Fetch

\* The sub task is through.
LEMMA CompletesOK ==
  ASSUME IInv, crashed = "no", task.proto \in Split, NEW w \in Workers, Completes(w)
  PROVE  IInv'
<1>0. /\ Working /\ worker \in [Workers -> WorkerType] /\ out \in BufferType
      /\ out.gen \in Nat /\ out.cap \in Nat /\ out.len \in Nat
      /\ Running(w) /\ worker[w].todo = <<>> /\ out' = out
      /\ UNCHANGED <<task, held, crashed, service>>
  BY DEF IInv, TypeOK, Working, Running, Completes, BufferType
<1>1. PICK lo \in [Workers -> Nat], hi \in [Workers -> Nat] : Progress(lo, hi)
  BY <1>0 DEF Working
<1>2. lo[w] > hi[w]
  <2>1. SplitPart(task, worker[w], out, lo[w], hi[w])
    BY <1>0, <1>1, RunningPart
  <2>2. Len(worker[w].todo) = 0
    BY <1>0
  <2> QED
    BY <2>1, <2>2 DEF SplitPart, Part, Slice
<1>3. PICK r, q : r \in WorkerType /\ r = worker[w] /\ q = [r EXCEPT !.pc = "completed"]
  BY <1>0
<1>4. q \in WorkerType /\ q.pc = "completed"
  BY <1>3 DEF WorkerType
<1>5. worker' = [worker EXCEPT ![w] = q]
  BY <1>0, <1>3 DEF Completes
<1>6. /\ worker' \in [Workers -> WorkerType] /\ worker'[w] = q
      /\ \A v \in Workers : v # w => worker'[v] = worker[v]
  BY <1>0, <1>4, <1>5, WorkerSet
<1>7. /\ ~Running(w)' /\ \A v \in Workers : v # w => (Running(v)' <=> Running(v))
  BY <1>4, <1>6 DEF Running
<1>8. Parts(lo, hi)'
  <2> SUFFICES ASSUME NEW v \in Workers, Running(v)'
               PROVE  SplitPart(task, worker'[v], out, lo[v], hi[v])
    BY <1>0 DEF Parts
  <2>1. v # w /\ Running(v) /\ worker'[v] = worker[v]
    BY <1>6, <1>7
  <2> QED
    BY <1>0, <1>1, <2>1, RunningPart
<1>9. task.pc \in {"dispatch", "header", "wait"} => Covered(lo, hi)'
  <2>1. \A v \in Workers, i \in Nat : Busy(v) /\ lo[v] <= i /\ i <= hi[v] => Busy(v)'
    <3> SUFFICES ASSUME NEW v \in Workers, NEW i \in Nat, Busy(v), lo[v] <= i, i <= hi[v]
                 PROVE  Busy(v)'
      OBVIOUS
    <3>1. v # w
      BY <1>2
    <3> QED
      BY <1>0, <1>7, <3>1 DEF Busy
  <2>2. task.pc \in {"dispatch", "header", "wait"} => Covered(lo, hi)
    BY <1>1 DEF Progress
  <2>3. \A i, n : i \in 1 .. n => i \in Nat
    OBVIOUS
  <2> QED
    BY <1>0, <2>1, <2>2, <2>3 DEF Covered
<1>10. worker'[w].pc # "new" /\ task.proto # "consensus" /\ crashed' = "no"
  BY <1>0, <1>4, <1>6 DEF Split
<1>11. out' \in BufferType /\ out'.gen >= out.gen /\ out'.cells[0] = out.cells[0] /\ out'.len = out.len
  BY <1>0
<1> QED
  BY <1>0, <1>1, <1>6, <1>8, <1>9, <1>10, <1>11, SubStep

\* The transactions that have been handed out so far, those of sub task w included.
LEMMA HandedOut ==
  ASSUME IInv, crashed = "no", task.proto \in Split,
         NEW lo \in [Workers -> Nat], NEW hi \in [Workers -> Nat], Progress(lo, hi),
         NEW z \in Nat, Enough(task.msg, z),
         task.pc \in {"dispatch", "header", "wait", "failed"}
  PROVE  \E n \in Nat :
            /\ Enough(task.msg, n) /\ z <= n
            /\ task.pc = "dispatch" => task.count <= n
            /\ task.pc \in {"header", "wait"} => Len(task.msg.txs) <= n
<1>0. Working /\ task \in TaskType /\ task.msg \in Messages
  BY AtWork DEF IInv, TypeOK
<1>1. PICK m \in Messages, c \in Nat, l \in Nat : m = task.msg /\ c = task.count /\ l = Len(m.txs)
  BY <1>0, MessagesOK DEF TaskType
<1>2. \A n \in 0 .. l : FlagsUpTo(m.txs, n) <= Len(m.sids) => Enough(m, n)
  BY <1>0, <1>1, AtWork
<1>3. z \in 0 .. l
  BY <1>1 DEF Enough
<1>4. CASE task.pc = "dispatch"
  <2>1. c <= l /\ FlagsUpTo(m.txs, c) <= Len(m.sids)
    BY <1>1, <1>4 DEF Progress, Dispatching, Slice
  <2>2. Enough(m, c)
    BY <1>2, <2>1
  <2>3. PICK n \in Nat : n = IF z <= c THEN c ELSE z
    OBVIOUS
  <2>4. z <= n /\ c <= n /\ (n = z \/ n = c)
    BY <2>3
  <2> QED
    BY <1>1, <1>4, <2>2, <2>4
<1>5. CASE task.pc \in {"header", "wait"}
  <2>1. FlagsUpTo(m.txs, l) <= Len(m.sids)
    BY <1>1, <1>5 DEF Progress, Dispatched
  <2>2. Enough(m, l) /\ z <= l /\ l <= l
    BY <1>2, <1>3, <2>1
  <2> QED
    BY <1>1, <1>5, <2>2
<1>6. CASE task.pc = "failed"
  <2>1. z <= z
    OBVIOUS
  <2> QED
    BY <1>6, <2>1
<1> QED
  BY <1>4, <1>5, <1>6

\* A sub task copies a transaction to its place.
LEMMA CopyOK ==
  ASSUME IInv, crashed = "no", task.proto \in Split, NEW w \in Workers, Copy(w)
  PROVE  IInv'
<1>0. /\ Working /\ worker \in [Workers -> WorkerType] /\ out \in BufferType
      /\ out.len \in Nat /\ out.cap \in Nat /\ out.gen \in Nat
      /\ Running(w) /\ worker[w].pc = "copy"
      /\ crashed' = CopyCrash(w) /\ worker' = Advanced(w)
      /\ UNCHANGED <<task, held, service>>
  BY DEF IInv, TypeOK, Working, Running, Copy, BufferType, Advanced
<1>1. PICK lo \in [Workers -> Nat], hi \in [Workers -> Nat] : Progress(lo, hi)
  BY <1>0 DEF Working
<1>2. /\ task.pc \in {"dispatch", "header", "wait", "failed"}
      /\ SplitPart(task, worker[w], out, lo[w], hi[w])
      /\ worker[w].todo # <<>>
  <2>1. /\ task.pc \in {"dispatch", "header", "wait", "failed"}
        /\ SplitPart(task, worker[w], out, lo[w], hi[w])
    BY <1>0, <1>1, RunningPart
  <2> QED
    BY <1>0, <2>1 DEF SplitPart
<1>3. PICK a \in Nat, z \in Nat, m \in Messages, r \in WorkerType :
         /\ a = lo[w] /\ z = hi[w] /\ m = task.msg /\ r = worker[w]
         /\ SplitPart(task, r, out, a, z) /\ Part(r, m, a, z) /\ Enough(m, z) /\ Enough(m, a)
         /\ r.todo # <<>> /\ a \in 1 .. z
  <2>1. /\ task.msg \in Messages /\ worker[w] \in WorkerType
        /\ Enough(task.msg, hi[w])
        /\ Part(worker[w], task.msg, lo[w], hi[w])
        /\ lo[w] \in 1 .. hi[w] /\ Enough(task.msg, lo[w])
    BY <1>0, <1>1, <1>2, SplitEntry
  <2>2. lo[w] \in Nat /\ hi[w] \in Nat
    OBVIOUS
  <2> QED
    BY <1>2, <2>1, <2>2, Zenon
<1>4. AtEntry(w, m, a, z) /\ AtNextEntry(w, m, a, z)
  <2>1. /\ r = worker[w] /\ m = task.msg /\ Part(r, m, a, z) /\ r.todo # <<>> /\ Enough(m, a)
    BY <1>3
  <2> QED
    BY <2>1, CurrentEntry
<1>5. CASE crashed' = "transaction removed"
  <2>1. w \in stale
    BY <1>0, <1>5 DEF CopyCrash
  <2>3. CrashesExplained'
    BY <1>0, <1>5, <2>1, StaleExplained DEF service
  <2>4. out' = out
    BY <1>5 DEF Copy
  <2> QED
    BY <1>0, <1>5, <2>3, <2>4, SubCrash
<1>6. CASE crashed' = "output moved"
  <2>1. worker[w].gen # out.gen
    BY <1>0, <1>6 DEF CopyCrash
  <2>2. task.proto = "eth" /\ task.large
    BY <1>0, <1>2, <2>1 DEF SplitPart
  <2>3. CrashesExplained'
    BY <1>0, <1>6, <2>2 DEF CrashesExplained
  <2>4. out' = out
    BY <1>6 DEF Copy
  <2> QED
    BY <1>0, <1>6, <2>3, <2>4, SubCrash
<1>7. CASE crashed' = "no"
  <2>1. PICK n \in Nat :
           /\ Enough(m, n) /\ z <= n
           /\ task.pc = "dispatch" => task.count <= n
           /\ task.pc \in {"header", "wait"} => Len(m.txs) <= n
    BY <1>1, <1>2, <1>3, HandedOut
  <2>2. a \in 1 .. n
    BY <1>3, <2>1
  <2>3. /\ out' \in BufferType /\ out'.len = out.len /\ out'.gen = out.gen /\ out'.cap = out.cap
        /\ out'.cells[0] = out.cells[0]
        /\ Placed(m, out', a)
        /\ \A j \in 1 .. n : Placed(m, out, j) => Placed(m, out', j)
    <3>1. PICK b, c : b \in BufferType /\ b = out /\ c = out'
      BY <1>0
    <3>2. c = Copied(b, StartOf(m, a), Units(OriginalTx(m, a)))
      <4>1. out' = Copied(out, worker[w].off, Units(CurrentHash(w)))
        BY <1>7 DEF Copy
      <4>2. worker[w].off = StartOf(m, a) /\ CurrentHash(w) = OriginalTx(m, a)
        BY <1>4 DEF AtEntry
      <4> QED
        BY <3>1, <4>1, <4>2, Zenon
    <3>3. /\ c \in BufferType /\ c.len = b.len /\ c.gen = b.gen /\ c.cap = b.cap
          /\ c.cells[0] = b.cells[0]
          /\ Placed(m, c, a)
          /\ \A j \in 1 .. n : Placed(m, b, j) => Placed(m, c, j)
      BY <3>1, <2>1, <2>2, <3>2, CopyPlaces
    <3> QED
      BY <3>1, <3>3, Zenon
  <2>4. PICK q \in WorkerType : /\ worker' = [worker EXCEPT ![w] = q]
                                /\ q.pc = "fetch" /\ Part(q, m, a + 1, z)
    BY <1>0, <1>4 DEF AtNextEntry
  <2>5. /\ worker' \in [Workers -> WorkerType] /\ worker'[w] = q
        /\ \A v \in Workers : v # w => worker'[v] = worker[v]
    BY <1>0, <2>4, WorkerSet
  <2>6. \A v \in Workers : Running(v)' <=> Running(v)
    BY <1>0, <2>4, <2>5 DEF Running
  <2>7. PICK lj \in [Workers -> Nat] : lj = [lo EXCEPT ![w] = a + 1]
    <3>1. [lo EXCEPT ![w] = a + 1] \in [Workers -> Nat]
      OBVIOUS
    <3> QED
      BY <3>1
  <2>8. lj[w] = a + 1 /\ \A v \in Workers : v # w => lj[v] = lo[v]
    BY <2>7
  <2>9. out'.gen >= out.gen /\ out'.cap >= out.cap /\ out'.len >= out.len
    BY <1>0, <2>3
  <2>10. ASSUME NEW v \in Workers, Running(v)
         PROVE  SplitPart(task, worker[v], out', lo[v], hi[v])
    <3>1. SplitPart(task', worker[v], out', lo[v], hi[v])
      BY <1>0, <1>1, <2>3, <2>9, <2>10, OthersStay
    <3> QED
      BY <1>0, <3>1
  <2>11. SplitPart(task, q, out', a + 1, z)
    <3>1. SplitPart(task, r, out', a, z)
      BY <1>0, <1>3, <2>10
    <3> QED
      BY <1>3, <2>4, <3>1 DEF SplitPart
  <2>12. Parts(lj, hi)'
    <3> SUFFICES ASSUME NEW v \in Workers, Running(v)'
                 PROVE  SplitPart(task, worker'[v], out', lj[v], hi[v])
      BY <1>0 DEF Parts
    <3>1. CASE v = w
      BY <1>3, <2>5, <2>8, <2>11, <3>1
    <3>2. CASE v # w
      BY <2>5, <2>6, <2>8, <2>10, <3>2
    <3> QED
      BY <3>1, <3>2
  <2>13. ASSUME task.pc \in {"dispatch", "header", "wait"} PROVE Covered(lj, hi)'
    <3>1. PICK k : k = IF task.pc = "dispatch" THEN task.count ELSE Len(m.txs)
      OBVIOUS
    <3>2. k \in Nat /\ k <= n
      <4>1. task.count \in Nat /\ Len(m.txs) \in Nat
        BY MessagesOK DEF IInv, TypeOK, TaskType
      <4> QED
        BY <2>1, <2>13, <3>1, <4>1
    <3> SUFFICES ASSUME NEW i \in 1 .. k
                 PROVE  \/ Placed(m, out', i)
                        \/ \E v \in Workers : Busy(v)' /\ lj[v] <= i /\ i <= hi[v]
      BY <1>0, <1>3, <3>1 DEF Covered
    <3>3. i \in Nat /\ i \in 1 .. n
      BY <3>2
    <3>4. CASE Placed(m, out, i)
      BY <2>3, <3>3, <3>4
    <3>5. CASE ~Placed(m, out, i)
      <4>1. PICK v \in Workers : Busy(v) /\ lo[v] <= i /\ i <= hi[v]
        BY <1>1, <1>3, <2>13, <3>1, <3>5 DEF Progress, Covered
      <4>2. Busy(v)'
        BY <1>0, <2>6, <4>1 DEF Busy
      <4>3. CASE v = w
        <5>1. CASE i = a
          BY <2>3, <5>1
        <5>2. CASE i # a
          BY <1>3, <2>8, <3>3, <4>1, <4>2, <4>3, <5>2
        <5> QED
          BY <5>1, <5>2
      <4>4. CASE v # w
        BY <2>8, <4>1, <4>2, <4>4
      <4> QED
        BY <4>3, <4>4
    <3> QED
      BY <3>4, <3>5
  <2>14. worker'[w].pc # "new" /\ task.proto # "consensus"
    BY <2>4, <2>5 DEF Split
  <2>15. \A v \in Workers : v # w => worker'[v] = worker[v] /\ lj[v] = lo[v]
    BY <2>5, <2>8
  <2> QED
    BY <1>0, <1>1, <1>7, <2>3, <2>5, <2>9, <2>12, <2>13, <2>14, <2>15, SubStep
<1> QED
  BY <1>0, <1>5, <1>6, <1>7 DEF CopyCrash

-----------------------------------------------------------------------------
(* The consensus task copies by itself.                                     *)

LEMMA WholeEntry ==
  ASSUME IInv, crashed = "no", task.proto = "consensus", Running(0),
         NEW lo \in [Workers -> Nat], NEW hi \in [Workers -> Nat], Progress(lo, hi)
  PROVE  /\ 0 \in Workers /\ task.msg \in Messages /\ worker[0] \in WorkerType
         /\ lo[0] \in Nat /\ hi[0] \in Nat
         /\ Part(worker[0], task.msg, lo[0], hi[0])
         /\ WholePart(task, worker[0], out, lo[0], hi[0])
         /\ hi[0] = Len(task.msg.txs) /\ lo[0] \in 1 .. hi[0] + 1
         /\ \A v \in Workers : Running(v) => v = 0
         /\ \A n \in 0 .. Len(task.msg.txs) :
               FlagsUpTo(task.msg.txs, n) <= Len(task.msg.sids) => Enough(task.msg, n)
<1>0. Working /\ 0 \in Workers /\ worker[0] \in WorkerType
  BY Sizes DEF IInv, Working
<1>1. task.pc \in {"dispatch", "header", "wait", "failed"}
  BY <1>0 DEF IInv, TypeOK, TaskType, Working, Quiet
<1>2. /\ task.msg \in Messages
      /\ \A n \in 0 .. Len(task.msg.txs) :
            FlagsUpTo(task.msg.txs, n) <= Len(task.msg.sids) => Enough(task.msg, n)
  BY <1>0, <1>1, AtWork
<1>3. WholePart(task, worker[0], out, lo[0], hi[0]) /\ \A v \in Workers : Running(v) => v = 0
  BY <1>0 DEF Progress, Parts, Split
<1>4. Part(worker[0], task.msg, lo[0], hi[0]) /\ hi[0] = Len(task.msg.txs)
  BY <1>3 DEF WholePart
<1>5. lo[0] \in Nat /\ hi[0] \in Nat
  BY <1>0
<1>6. lo[0] \in 1 .. hi[0] + 1
  BY <1>4, <1>5 DEF Part, Slice
<1> QED
  BY <1>0, <1>2, <1>3, <1>4, <1>5, <1>6

\* A flag for which there is no short id: the message has too few of them.
LEMMA TooFewShortIds ==
  ASSUME IInv, crashed = "no", task.proto = "consensus",
         worker[0].pc = "fetch", worker[0].todo # <<>>, NoShortIdLeft
  PROVE  Running(0) /\ FlagsUpTo(task.msg.txs, Len(task.msg.txs)) > Len(task.msg.sids)
<1>0. Running(0) /\ Working
  BY DEF Running, IInv
<1>1. PICK lo \in [Workers -> Nat], hi \in [Workers -> Nat] : Progress(lo, hi)
  BY <1>0 DEF Working
<1>2. PICK a \in Nat, l \in Nat, m \in Messages, r \in WorkerType :
         /\ a = lo[0] /\ m = task.msg /\ r = worker[0] /\ l = Len(m.txs)
         /\ Part(r, m, a, l) /\ 0 \in Workers
  BY <1>0, <1>1, WholeEntry
<1>3. /\ Slice(r.todo, m, a, l) /\ r.sidOff = FlagsUpTo(m.txs, a - 1) /\ r.todo \in Seq(Entries)
      /\ Len(r.todo) \in Nat \ {0} /\ Len(m.sids) \in Nat
  <2>1. Slice(r.todo, m, a, l) /\ r.sidOff = FlagsUpTo(m.txs, a - 1) /\ r.todo \in Seq(Entries)
    BY <1>2 DEF Part, WorkerType
  <2>2. r.todo # <<>>
    BY <1>2
  <2> QED
    BY <2>1, <2>2, MessagesOK
<1>4. a \in 1 .. l /\ a - 1 \in Nat /\ m.txs[a] = Head(r.todo)
  <2>1. a \in 1 .. l /\ r.todo[1] = m.txs[(a - 1) + 1] /\ (a - 1) + 1 = a
    BY <1>3 DEF Slice
  <2>2. Head(r.todo) = r.todo[1]
    BY <1>3
  <2> QED
    BY <2>1, <2>2
<1>5. m.txs[a] = Short /\ r.sidOff >= Len(m.sids)
  BY <1>2, <1>4 DEF NoShortIdLeft, Current
<1>6. FlagsUpTo(m.txs, l) > Len(m.sids)
  <2>0. PICK txs : txs = m.txs
    OBVIOUS
  <2>1. PICK c \in Nat : c = a - 1 /\ c + 1 = a
    BY <1>4
  <2>2. FlagsUpTo(txs, c) \in Nat /\ (txs[c + 1] = Short => FlagsUpTo(txs, c + 1) = FlagsUpTo(txs, c) + 1)
    BY FlagsStep
  <2>3. FlagsUpTo(txs, a) \in Nat /\ FlagsUpTo(txs, l) \in Nat /\ FlagsUpTo(txs, a) <= FlagsUpTo(txs, l)
    <3>1. a <= l
      BY <1>4
    <3> QED
      BY <3>1, FlagsGrow
  <2>4. PICK f \in Nat, g \in Nat, h \in Nat, k \in Nat :
           f = FlagsUpTo(txs, c) /\ g = FlagsUpTo(txs, a) /\ h = FlagsUpTo(txs, l) /\ k = Len(m.sids)
    BY <1>3, <2>2, <2>3
  <2>5. g = f + 1 /\ g <= h /\ f >= k
    BY <1>3, <1>5, <2>0, <2>1, <2>2, <2>3, <2>4
  <2>6. h > k
    BY <2>5
  <2> QED
    BY <2>0, <2>4, <2>6
<1> QED
  BY <1>0, <1>2, <1>6

LEMMA PastShortIds ==
  ASSUME IInv, crashed = "no", task.proto = "consensus",
         worker[0].pc = "fetch", worker[0].todo # <<>>, NoShortIdLeft,
         crashed' = "past the short ids", UNCHANGED <<task, worker, out, held, service>>
  PROVE  IInv'
<1>1. Running(0) /\ FlagsUpTo(task.msg.txs, Len(task.msg.txs)) > Len(task.msg.sids)
  BY TooFewShortIds
<1>2. 0 \in Workers /\ crashed' # "no" /\ UNCHANGED <<task, out, held, service>>
  BY Sizes, Zenon
<1>3. CrashesExplained'
  BY <1>1, Zenon DEF CrashesExplained
<1> QED
  BY <1>1, <1>2, <1>3, SubCrash

LEMMA ConsensusFetchOK ==
  ASSUME IInv, crashed = "no", task.proto = "consensus",
         worker[0].todo # <<>>, ~NoShortIdLeft, Fetch(0)
  PROVE  IInv'
<1>0. /\ Working /\ worker \in [Workers -> WorkerType] /\ out \in BufferType
      /\ out.len \in Nat /\ out.cap \in Nat /\ out.gen \in Nat
      /\ Running(0) /\ worker[0].pc = "fetch" /\ 0 \in Workers
      /\ UNCHANGED <<task, held, service>>
  BY Sizes DEF IInv, TypeOK, Working, Running, Fetch, BufferType
<1>1. PICK lo \in [Workers -> Nat], hi \in [Workers -> Nat] : Progress(lo, hi)
  BY <1>0 DEF Working
<1>2. PICK a \in Nat, l \in Nat, m \in Messages, r \in WorkerType :
         /\ a = lo[0] /\ m = task.msg /\ r = worker[0] /\ l = Len(m.txs) /\ hi[0] = l
         /\ Part(r, m, a, l) /\ WholePart(task, r, out, a, l)
         /\ \A v \in Workers : Running(v) => v = 0
         /\ \A n \in 0 .. l : FlagsUpTo(m.txs, n) <= Len(m.sids) => Enough(m, n)
  BY <1>0, <1>1, WholeEntry
<1>3. /\ Slice(r.todo, m, a, l) /\ r.sidOff = FlagsUpTo(m.txs, a - 1) /\ r.todo \in Seq(Entries)
      /\ Len(r.todo) \in Nat \ {0} /\ Len(m.sids) \in Nat
      /\ FlagsUpTo(m.txs, a - 1) <= Len(m.sids) /\ out.len = StartOf(m, a)
  <2>1. /\ Slice(r.todo, m, a, l) /\ r.sidOff = FlagsUpTo(m.txs, a - 1) /\ r.todo \in Seq(Entries)
        /\ FlagsUpTo(m.txs, a - 1) <= Len(m.sids) /\ out.len = StartOf(m, a)
    BY <1>0, <1>2 DEF Part, WorkerType, WholePart
  <2>2. r.todo # <<>>
    BY <1>2
  <2> QED
    BY <2>1, <2>2, MessagesOK
<1>4. a \in 1 .. l /\ a - 1 \in Nat /\ m.txs[a] = Head(r.todo)
  <2>1. a \in 1 .. l /\ r.todo[1] = m.txs[(a - 1) + 1] /\ (a - 1) + 1 = a
    BY <1>3 DEF Slice
  <2>2. Head(r.todo) = r.todo[1]
    BY <1>3
  <2> QED
    BY <2>1, <2>2
<1>5. Enough(m, a)
  <2>0. PICK txs : txs = m.txs
    OBVIOUS
  <2>1. PICK c \in Nat : c = a - 1 /\ c + 1 = a
    BY <1>4
  <2>2. /\ FlagsUpTo(txs, c) \in Nat
        /\ (txs[c + 1] = Short => FlagsUpTo(txs, c + 1) = FlagsUpTo(txs, c) + 1)
        /\ (txs[c + 1] # Short => FlagsUpTo(txs, c + 1) = FlagsUpTo(txs, c))
    BY FlagsStep
  <2>3. m.txs[a] = Short => ~(r.sidOff >= Len(m.sids))
    BY <1>2, <1>4 DEF NoShortIdLeft, Current
  <2>4. PICK f, g, k :
         /\ f \in Nat
         /\ k \in Nat
         /\ f = FlagsUpTo(txs, c)
         /\ g = FlagsUpTo(txs, a)
         /\ k = Len(m.sids)
    BY <1>3, <2>1, <2>2
  <2>5. /\ f <= k /\ (txs[a] = Short => g = f + 1 /\ ~(f >= k)) /\ (txs[a] # Short => g = f)
    BY <1>3, <2>0, <2>1, <2>2, <2>3, <2>4
  <2>6. g <= k
    BY <2>4, <2>5
  <2>7. a \in 0 .. l
    BY <1>4
  <2> QED
    BY <1>2, <2>0, <2>4, <2>6, <2>7
<1>6. /\ TotalLength(0) = StartOf(m, a + 1) /\ TotalLength(0) \in Nat
      /\ StartOf(m, a) \in Nat /\ StartOf(m, a) <= StartOf(m, a + 1)
      /\ Current(0) = Short => \E j \in 1 .. Len(m.sids) : CurrentSid(0) = m.sids[j]
  <2>1. /\ r = worker[0] /\ m = task.msg /\ Part(r, m, a, l) /\ r.todo # <<>> /\ Enough(m, a)
    BY <1>2, <1>5
  <2>2. AtEntry(0, m, a, l)
    BY <1>0, <2>1, CurrentEntry
  <2> QED
    BY <2>2 DEF AtEntry
<1>7. CASE /\ Current(0) = Short /\ ~HasContents(CurrentSid(0))
           /\ crashed' = "transaction removed"
           /\ UNCHANGED <<worker, out>>
  <2>1. PICK j \in 1 .. Len(m.sids) : CurrentSid(0) = m.sids[j]
    BY <1>6, <1>7
  <2>2. CrashesExplained'
    BY <1>0, <1>2, <1>7, <2>1, RemovedExplained DEF service
  <2> QED
    BY <1>0, <1>7, <2>2, SubCrash
<1>8. CASE /\ out' = CopyResize(out, TotalLength(0))
           /\ worker' = [worker EXCEPT ![0].pc = "copy", ![0].gen = out'.gen]
           /\ UNCHANGED crashed
  <2>1. PICK n \in Nat : n = TotalLength(0) /\ n >= out.len
    BY <1>0, <1>3, <1>6
  <2>2. /\ out' \in BufferType /\ out'.cells = out.cells /\ out'.gen \in Nat
        /\ out'.len = n /\ out'.gen >= out.gen
    <3>1. Roomy(out, out', n)
      BY <1>0, <1>8, <2>1, CopyRoom
    <3> QED
      BY <2>1, <3>1 DEF Roomy, BufferType
  <2>3. PICK g, q : g \in Nat /\ g = out'.gen /\ q = [r EXCEPT !.pc = "copy", !.gen = g]
    BY <2>2
  <2>4. /\ q \in WorkerType /\ q.pc = "copy" /\ q.todo = r.todo
        /\ q.off = r.off /\ q.sidOff = r.sidOff
    BY <2>3 DEF WorkerType
  <2>5. worker' = [worker EXCEPT ![0] = q]
    <3>1. worker' = [worker EXCEPT ![0].pc = "copy", ![0].gen = g]
      BY <1>8, <2>3, Zenon
    <3> QED
      BY <1>0, <1>2, <2>3, <3>1
  <2>6. /\ worker' \in [Workers -> WorkerType] /\ worker'[0] = q
        /\ \A v \in Workers : v # 0 => worker'[v] = worker[v]
    BY <1>0, <2>4, <2>5, WorkerSet
  <2>7. \A v \in Workers : Running(v)' <=> Running(v)
    BY <1>0, <2>4, <2>6 DEF Running
  <2>8. WholePart(task, q, out', a, l)
    <3>1. Part(q, m, a, l) /\ q.todo # <<>>
      BY <1>2, <2>4 DEF Part
    <3>2. FlagsUpTo(m.txs, a) <= Len(m.sids)
      BY <1>5 DEF Enough
    <3> QED
      BY <1>2, <1>3, <1>6, <2>1, <2>2, <2>4, <3>1, <3>2 DEF WholePart
  <2>9. Parts(lo, hi)'
    BY <1>0, <1>2, <2>6, <2>7, <2>8 DEF Parts, Split
  <2>10. task.pc \in {"dispatch", "header", "wait"} => Covered(lo, hi)'
    <3>1. \A i : Placed(task.msg, out, i) => Placed(task.msg, out', i)
      BY <2>2 DEF Placed
    <3>2. \A v \in Workers : Busy(v) => Busy(v)'
      BY <1>0, <2>7 DEF Busy
    <3>3. task.pc \in {"dispatch", "header", "wait"} => Covered(lo, hi)
      BY <1>1 DEF Progress
    <3> QED
      BY <1>0, <3>1, <3>2, <3>3 DEF Covered
  <2>11. /\ out'.cells[0] = out.cells[0] /\ task.proto \notin {"btc", "ont"}
         /\ worker'[0].pc # "new" /\ worker'[0].pc # "completed" /\ crashed' = "no"
    BY <1>8, <2>2, <2>4, <2>6
  <2> QED
    BY <1>0, <1>1, <2>2, <2>6, <2>9, <2>10, <2>11, SubStep
<1> QED
  BY <1>7, <1>8 DEF Fetch

LEMMA ConsensusCopyOK ==
  ASSUME IInv, crashed = "no", task.proto = "consensus", worker[0].pc = "copy",
         out' = Copied(out, worker[0].off, Units(CurrentHash(0))), worker' = Advanced(0),
         UNCHANGED <<task, held, crashed, service>>
  PROVE  IInv'
<1>0. /\ Working /\ worker \in [Workers -> WorkerType] /\ out \in BufferType
      /\ out.len \in Nat /\ out.cap \in Nat /\ out.gen \in Nat
      /\ Running(0) /\ 0 \in Workers
  BY Sizes DEF IInv, TypeOK, Working, Running, BufferType
<1>1. PICK lo \in [Workers -> Nat], hi \in [Workers -> Nat] : Progress(lo, hi)
  BY <1>0 DEF Working
<1>2. PICK a \in Nat, l \in Nat, m \in Messages, r \in WorkerType :
         /\ a = lo[0] /\ m = task.msg /\ r = worker[0] /\ l = Len(m.txs) /\ hi[0] = l
         /\ Part(r, m, a, l) /\ WholePart(task, r, out, a, l) /\ a \in 1 .. l + 1
         /\ \A v \in Workers : Running(v) => v = 0
         /\ \A n \in 0 .. l : FlagsUpTo(m.txs, n) <= Len(m.sids) => Enough(m, n)
  BY <1>0, <1>1, WholeEntry
<1>3. /\ r.todo # <<>> /\ FlagsUpTo(m.txs, a) <= Len(m.sids) /\ out.len = StartOf(m, a + 1)
  BY <1>2 DEF WholePart
<1>4. a \in 1 .. l
  <2>1. Len(r.todo) = l - a + 1 /\ r.todo \in Seq(Entries)
    BY <1>2 DEF Part, Slice, WorkerType
  <2>2. Len(r.todo) \in Nat \ {0}
    BY <1>3, <2>1
  <2> QED
    BY <1>2, <2>1, <2>2
<1>5. Enough(m, a) /\ a \in 1 .. a
  <2>1. a \in 0 .. l /\ a \in 1 .. a
    BY <1>4
  <2> QED
    BY <1>2, <1>3, <2>1
<1>6. AtEntry(0, m, a, l) /\ AtNextEntry(0, m, a, l)
  <2>1. /\ r = worker[0] /\ m = task.msg /\ Part(r, m, a, l) /\ r.todo # <<>> /\ Enough(m, a)
    BY <1>2, <1>3, <1>5
  <2> QED
    BY <1>0, <2>1, CurrentEntry
<1>7. /\ out' \in BufferType /\ out'.len = out.len /\ out'.gen = out.gen
      /\ out'.cells[0] = out.cells[0]
      /\ Placed(m, out', a)
      /\ \A j \in 1 .. a : Placed(m, out, j) => Placed(m, out', j)
  <2>1. PICK b, c : b \in BufferType /\ b = out /\ c = out'
    BY <1>0
  <2>2. c = Copied(b, StartOf(m, a), Units(OriginalTx(m, a)))
    <3>1. worker[0].off = StartOf(m, a) /\ CurrentHash(0) = OriginalTx(m, a)
      BY <1>6 DEF AtEntry
    <3> QED
      BY <2>1, <3>1, Zenon
  <2>3. /\ c \in BufferType /\ c.len = b.len /\ c.gen = b.gen
        /\ c.cells[0] = b.cells[0]
        /\ Placed(m, c, a)
        /\ \A j \in 1 .. a : Placed(m, b, j) => Placed(m, c, j)
    BY <2>1, <1>5, <2>2, CopyPlaces
  <2> QED
    BY <2>1, <2>3, Zenon
<1>8. PICK q \in WorkerType : /\ worker' = [worker EXCEPT ![0] = q]
                              /\ q.pc = "fetch" /\ Part(q, m, a + 1, l)
  BY <1>0, <1>6 DEF AtNextEntry
<1>9. /\ worker' \in [Workers -> WorkerType] /\ worker'[0] = q
      /\ \A v \in Workers : v # 0 => worker'[v] = worker[v]
  BY <1>0, <1>8, WorkerSet
<1>10. \A v \in Workers : Running(v)' <=> Running(v)
  BY <1>0, <1>8, <1>9 DEF Running
<1>11. PICK lj \in [Workers -> Nat] : lj = [lo EXCEPT ![0] = a + 1]
  <2>1. [lo EXCEPT ![0] = a + 1] \in [Workers -> Nat]
    <3>1. PICK p \in Workers : p = 0
      BY <1>0
    <3>2. [lo EXCEPT ![p] = a + 1] \in [Workers -> Nat]
      OBVIOUS
    <3> QED
      BY <3>1, <3>2
  <2> QED
    BY <2>1
<1>12. lj[0] = a + 1 /\ \A v \in Workers : v # 0 => worker'[v] = worker[v] /\ lj[v] = lo[v]
  BY <1>0, <1>9, <1>11
<1>13. WholePart(task, q, out', a + 1, l)
  <2>1. (a + 1) - 1 = a
    OBVIOUS
  <2> QED
    BY <1>2, <1>3, <1>7, <1>8, <2>1 DEF WholePart
<1>14. Parts(lj, hi)'
  BY <1>0, <1>2, <1>9, <1>10, <1>12, <1>13 DEF Parts, Split
<1>15. ASSUME task.pc \in {"dispatch", "header", "wait"} PROVE Covered(lj, hi)'
  <2>0. task.pc # "dispatch"
    BY <1>0 DEF Working, Quiet, Split
  <2> SUFFICES ASSUME NEW i \in 1 .. l
               PROVE  \/ Placed(m, out', i)
                      \/ \E v \in Workers : Busy(v)' /\ lj[v] <= i /\ i <= hi[v]
    BY <1>2, <2>0 DEF Covered
  <2>1. CASE i <= a
    <3>1. CASE i = a
      BY <1>7, <3>1
    <3>2. CASE i # a
      <4>1. i \in 1 .. a /\ ~(a <= i)
        BY <2>1, <3>2
      <4>2. \A v \in Workers : Busy(v) => v = 0
        BY <1>2, <2>0 DEF Busy
      <4>3. Placed(m, out, i)
        BY <1>1, <1>2, <1>15, <2>0, <4>1, <4>2 DEF Progress, Covered
      <4> QED
        BY <1>7, <4>1, <4>3
    <3> QED
      BY <3>1, <3>2
  <2>2. CASE ~(i <= a)
    <3>1. a + 1 <= i /\ i <= l /\ Busy(0)'
      BY <1>0, <1>10, <2>2 DEF Busy
    <3> QED
      BY <1>0, <1>2, <1>12, <3>1
  <2> QED
    BY <2>1, <2>2
<1>16. /\ task.proto \notin {"btc", "ont"} /\ out'.gen >= out.gen
       /\ worker'[0].pc # "new" /\ worker'[0].pc # "completed" /\ crashed' = "no"
  BY <1>0, <1>7, <1>8, <1>9
<1> QED
  BY <1>0, <1>1, <1>7, <1>9, <1>12, <1>14, <1>15, <1>16, SubStep

LEMMA ConsensusCompletesOK ==
  ASSUME IInv, crashed = "no", task.proto = "consensus", Completes(0)
  PROVE  IInv'
<1>0. /\ Working /\ worker \in [Workers -> WorkerType] /\ out \in BufferType
      /\ out.gen \in Nat /\ out' = out
      /\ Running(0) /\ worker[0].todo = <<>> /\ worker[0].pc = "fetch" /\ 0 \in Workers
      /\ UNCHANGED <<task, held, crashed, service>>
  BY Sizes DEF IInv, TypeOK, Working, Running, Completes, BufferType
<1>1. PICK lo \in [Workers -> Nat], hi \in [Workers -> Nat] : Progress(lo, hi)
  BY <1>0 DEF Working
<1>2. PICK a \in Nat, l \in Nat, m \in Messages, r \in WorkerType :
         /\ a = lo[0] /\ m = task.msg /\ r = worker[0] /\ l = Len(m.txs) /\ hi[0] = l
         /\ Part(r, m, a, l) /\ WholePart(task, r, out, a, l)
         /\ \A v \in Workers : Running(v) => v = 0
  BY <1>0, <1>1, WholeEntry
<1>3. a = l + 1 /\ r.off = StartOf(m, l + 1) /\ out.len = r.off /\ FlagsUpTo(m.txs, l) <= Len(m.sids)
  <2>1. Len(r.todo) = 0
    BY <1>0, <1>2
  <2>2. Len(r.todo) = l - a + 1 /\ r.off = StartOf(m, a) /\ FlagsUpTo(m.txs, a - 1) <= Len(m.sids)
        /\ out.len = StartOf(m, a)
    BY <1>0, <1>2 DEF Part, Slice, WholePart
  <2>3. a = l + 1 /\ a - 1 = l
    BY <2>1, <2>2
  <2> QED
    BY <2>2, <2>3
<1>4. PICK q : q = [r EXCEPT !.pc = "completed"]
  OBVIOUS
<1>5. q \in WorkerType /\ q.pc = "completed" /\ q.off = r.off
  BY <1>4 DEF WorkerType
<1>6. worker' = [worker EXCEPT ![0] = q]
  BY <1>0, <1>2, <1>4 DEF Completes
<1>7. /\ worker' \in [Workers -> WorkerType] /\ worker'[0] = q
      /\ \A v \in Workers : v # 0 => worker'[v] = worker[v]
  BY <1>0, <1>5, <1>6, WorkerSet
<1>8. \A v \in Workers : ~Running(v)'
  BY <1>2, <1>5, <1>7 DEF Running
<1>9. Parts(lo, hi)'
  BY <1>8 DEF Parts
<1>10. ASSUME task.pc \in {"dispatch", "header", "wait"} PROVE Covered(lo, hi)'
  <2>0. task.pc # "dispatch"
    BY <1>0 DEF Working, Quiet, Split
  <2> SUFFICES ASSUME NEW i \in 1 .. l
               PROVE  Placed(m, out, i)
    BY <1>0, <1>2, <2>0 DEF Covered
  <2>1. \A v \in Workers : Busy(v) => v = 0
    BY <1>2, <2>0 DEF Busy
  <2>2. ~(a <= i)
    BY <1>3
  <2> QED
    BY <1>1, <1>2, <1>10, <2>0, <2>1, <2>2 DEF Progress, Covered
<1>11. WholeCopied(task, worker'[0], out')
  BY <1>0, <1>2, <1>3, <1>5, <1>7 DEF WholeCopied
<1>12. /\ task.proto \notin {"btc", "ont"} /\ out' \in BufferType /\ out'.gen >= out.gen
       /\ out'.cells[0] = out.cells[0] /\ worker'[0].pc # "new" /\ crashed' = "no"
  BY <1>0, <1>5, <1>7
<1> QED
  BY <1>0, <1>1, <1>7, <1>9, <1>10, <1>11, <1>12, SubStep

LEMMA ConsensusTransactionsOK ==
  ASSUME IInv, crashed = "no", ConsensusTransactions
  PROVE  IInv'
<1>0. task.proto = "consensus"
  BY DEF ConsensusTransactions
<1>1. CASE /\ worker[0].pc = "fetch" /\ worker[0].todo # <<>>
           /\ NoShortIdLeft
           /\ crashed' = "past the short ids"
           /\ UNCHANGED <<task, worker, out, held, service>>
  BY <1>0, <1>1, PastShortIds, Zenon
<1>2. CASE worker[0].todo # <<>> /\ ~NoShortIdLeft /\ Fetch(0)
  BY <1>0, <1>2, ConsensusFetchOK
<1>3. CASE Completes(0)
  BY <1>0, <1>3, ConsensusCompletesOK
<1>4. CASE /\ worker[0].pc = "copy"
           /\ out' = Copied(out, worker[0].off, Units(CurrentHash(0)))
           /\ worker' = Advanced(0)
           /\ UNCHANGED <<task, held, crashed, service>>
  BY <1>0, <1>4, ConsensusCopyOK
<1> QED
  BY <1>1, <1>2, <1>3, <1>4, Zenon DEF ConsensusTransactions, Advanced

LEMMA SubTasksOK ==
  ASSUME IInv, crashed = "no", NEW w \in Workers,
         BtcSubExecute(w) \/ OntSubExecute(w) \/ EthSubExecute(w)
  PROVE  IInv'
<1>1. task.proto \in Split /\ (Fetch(w) \/ Copy(w) \/ Completes(w))
  BY DEF BtcSubExecute, OntSubExecute, EthSubExecute, Split
<1> QED
  BY <1>1, FetchOK, CopyOK, CompletesOK

-----------------------------------------------------------------------------
(* The end of a block.                                                     *)

\* When all sub tasks that were started are through, every transaction is in place.
LEMMA AllPlaced ==
  ASSUME IInv, crashed = "no", Waited
  PROVE  /\ task.msg \in Messages /\ Success /\ task.pc = "wait"
         /\ Enough(task.msg, Len(task.msg.txs))
         /\ \A w \in Workers : ~Running(w)
         /\ \A i \in 1 .. Len(task.msg.txs) : Placed(task.msg, out, i)
         /\ task.proto \in {"btc", "ont"} => out.len = StartOf(task.msg, Len(task.msg.txs) + 1)
         /\ task.proto = "eth" => task.off = StartOf(task.msg, Len(task.msg.txs) + 1)
         /\ task.proto # "eth" => out.cells[0] = Header[1]
         /\ task.proto = "consensus" =>
               /\ worker[0].off = StartOf(task.msg, Len(task.msg.txs) + 1)
               /\ out.len = worker[0].off
<1>0. /\ Working /\ task.pc = "wait" /\ task \in TaskType /\ task.idx \in Workers
      /\ task.proto \in Protocols
  BY DEF IInv, TypeOK, TaskType, Waited
<1>1. task.msg \in Messages /\ Success
      /\ \A n \in 0 .. Len(task.msg.txs) :
            FlagsUpTo(task.msg.txs, n) <= Len(task.msg.sids) => Enough(task.msg, n)
  BY <1>0, AtWork
<1>2. \A w \in Workers : ~Running(w)
  <2>1. ASSUME NEW w \in Workers, w \in Awaited PROVE ~Running(w)
    BY <2>1 DEF Waited, Running
  <2>2. ASSUME NEW w \in Workers, w \notin Awaited PROVE ~Running(w)
    <3>1. ~(w <= task.idx) /\ w \in Nat /\ task.idx \in Nat
      BY <1>0, <2>2, Sizes DEF Awaited
    <3>2. w > task.idx
      BY <3>1
    <3> QED
      BY <1>0, <3>2 DEF Working, Quiet
  <2> QED
    BY <2>1, <2>2
<1>3. PICK lo \in [Workers -> Nat], hi \in [Workers -> Nat] : Progress(lo, hi)
  BY <1>0 DEF Working
<1>4. \A i \in 1 .. Len(task.msg.txs) : Placed(task.msg, out, i)
  <2>1. \A w \in Workers : ~Busy(w)
    BY <1>0, <1>2 DEF Busy
  <2> QED
    BY <1>0, <1>3, <2>1 DEF Progress, Covered
<1>5. Dispatched(task, out)
  BY <1>0, <1>3 DEF Progress
<1>6. task.proto = "consensus" => WholeCopied(task, worker[0], out)
  <2>1. ASSUME task.proto = "consensus" PROVE worker[0].pc = "completed"
    <3>1. task.idx = 0
      BY <1>0, <2>1 DEF Working, Quiet
    <3>2. 0 \in Awaited
      BY <2>1, <3>1, Sizes DEF Awaited
    <3> QED
      BY <3>2 DEF Waited
  <2> QED
    BY <1>0, <1>3, <2>1 DEF Progress
<1>7. task.proto \in Split \cup {"consensus"}
  BY <1>0, BlockDecompressionAssumption DEF Split
<1>8. FlagsUpTo(task.msg.txs, Len(task.msg.txs)) <= Len(task.msg.sids)
  BY <1>5, <1>6, <1>7 DEF Dispatched, WholeCopied
<1>9. Enough(task.msg, Len(task.msg.txs))
  <2>1. Len(task.msg.txs) \in Nat
    BY <1>1, MessagesOK
  <2>2. Len(task.msg.txs) \in 0 .. Len(task.msg.txs)
    BY <2>1
  <2> QED
    BY <1>1, <1>8, <2>2
<1> QED
  BY <1>0, <1>1, <1>2, <1>4, <1>5, <1>6, <1>9 DEF Dispatched, WholeCopied, Split

\* The task is done with the block that has been put together.
LEMMA FinishKeeps ==
  ASSUME IInv, crashed = "no", Waited, Done, out' \in BufferType, out'.gen >= out.gen,
         Built(task.msg, task.proto, out'), UNCHANGED <<worker, held, crashed, service>>
  PROVE  IInv'
<1>0. Working /\ task \in TaskType
  BY DEF IInv, TypeOK
<1>1. task.msg \in Messages /\ Success /\ task.pc = "wait" /\ \A w \in Workers : ~Running(w)
  BY AllPlaced
<1>2. /\ task' \in TaskType /\ task'.pc = "done" /\ SameBlock(task, task') /\ SamePlace(task, task')
  BY <1>0, PcSet DEF Done, TaskPcs
<1>3. Local
  BY <1>2 DEF Local, Aside, SameBlock
<1>4. Quiet'
  BY <1>1, <1>2 DEF Quiet, SameBlock, Running
<1>5. Working'
  BY <1>0, <1>1, <1>2, <1>4, Resting
<1>6. task.checked = Len(task.msg.sids)
  BY <1>0, <1>1, AtWork
<1> QED
  BY <1>1, <1>2, <1>3, <1>5, <1>6, NoCrash, LocalKeeps

LEMMA BtcFinishOK ==
  ASSUME IInv, crashed = "no", BtcFinish
  PROVE  IInv'
<1>0. out \in BufferType /\ out.gen \in Nat /\ out' = out /\ task.proto = "btc" /\ Waited /\ Done
      /\ UNCHANGED <<worker, held, crashed, service>>
  BY DEF IInv, TypeOK, BufferType, BtcFinish
<1>1. Built(task.msg, task.proto, out)
  BY <1>0, AllPlaced DEF Built
<1> QED
  BY <1>0, <1>1, FinishKeeps

\* The merkle root is put behind the transactions.
LEMMA OntFinishOK ==
  ASSUME IInv, crashed = "no", OntFinish
  PROVE  IInv'
<1>0. /\ out \in BufferType /\ out.gen \in Nat /\ out.len \in Nat /\ out.cap \in Nat
      /\ task.proto = "ont" /\ Waited /\ Working /\ worker \in [Workers -> WorkerType]
      /\ UNCHANGED <<worker, held, crashed, service>>
  BY DEF IInv, TypeOK, BufferType, OntFinish, Working
<1>1. CASE TooLarge(out.len + 1) /\ Throw /\ UNCHANGED out
  <2>1. \A w \in Workers : Running(w)' => Running(w) /\ worker'[w] = worker[w]
    BY <1>0 DEF Running
  <2>2. Grows
    BY <1>0, Steady
  <2> QED
    BY <1>0, <1>1, <2>1, <2>2, ThrowOK DEF Waited, Split
<1>2. CASE ~TooLarge(out.len + 1) /\ Done /\ out' = Copied(Resize(out, out.len + 1), out.len, Trailer)
  <2>1. PICK m, l : m \in Messages /\ m = task.msg /\ l = Len(m.txs)
    BY <1>0, AllPlaced
  <2>2. /\ m \in Messages /\ Enough(m, l) /\ \A i \in 1 .. l : Placed(m, out, i)
        /\ out.len = StartOf(m, l + 1) /\ out.cells[0] = Header[1]
    BY <1>0, <2>1, AllPlaced
  <2>3. PICK n, d : n \in Nat /\ n = out.len + 1 /\ d = Resize(out, n)
    BY <1>0
  <2>4. d \in BufferType /\ d.cells = out.cells /\ d.len = n /\ d.gen >= out.gen
    <3>1. Sized(out, d, n)
      BY <1>0, <2>3, SizeSet
    <3> QED
      BY <3>1 DEF Sized
  <2>5. PICK c : c = out'
    OBVIOUS
  <2>6. c = Copied(d, StartOf(m, l + 1), Trailer)
    BY <1>2, <2>2, <2>3, <2>5
  <2>7. /\ c \in BufferType /\ c.len = d.len /\ c.gen = d.gen
        /\ c.cells[0] = d.cells[0]
        /\ c.cells[StartOf(m, l + 1)] = Trailer[1]
        /\ \A j \in 1 .. l : Placed(m, d, j) => Placed(m, c, j)
    BY <2>2, <2>4, <2>6, TrailerPlaced
  <2>8. \A j \in 1 .. l : Placed(m, c, j)
    <3>1. \A j \in 1 .. l : Placed(m, d, j)
      BY <2>2, <2>4 DEF Placed
    <3> QED
      BY <2>7, <3>1
  <2>9. Built(m, "ont", c)
    BY <2>1, <2>2, <2>3, <2>4, <2>7, <2>8 DEF Built
  <2>10. out' \in BufferType /\ out'.gen >= out.gen /\ Built(task.msg, task.proto, out')
    BY <1>0, <2>1, <2>4, <2>5, <2>7, <2>9
  <2> QED
    BY <1>0, <1>2, <2>10, FinishKeeps
<1> QED
  BY <1>1, <1>2 DEF OntFinish

\* _set_output_buffer.
LEMMA EthFinishOK ==
  ASSUME IInv, crashed = "no", EthFinish
  PROVE  IInv'
<1>0. /\ out \in BufferType /\ out.gen \in Nat /\ out.len \in Nat
      /\ task.proto = "eth" /\ Waited /\ Done /\ out' = EthOutput /\ task.off \in Nat
      /\ UNCHANGED <<worker, held, crashed, service>>
  BY DEF IInv, TypeOK, BufferType, TaskType, EthFinish
<1>1. PICK m, l : m \in Messages /\ m = task.msg /\ l = Len(m.txs)
  BY <1>0, AllPlaced
<1>2. /\ m \in Messages /\ Enough(m, l) /\ \A i \in 1 .. l : Placed(m, out, i)
      /\ task.off = StartOf(m, l + 1)
  BY <1>0, <1>1, AllPlaced
<1>3. PICK n, d : n \in Nat /\ n = task.off + 1 /\ d = Resize(out, n)
  BY <1>0
<1>4. d \in BufferType /\ d.cells = out.cells /\ d.len = n /\ d.gen >= out.gen
  <2>1. Sized(out, d, n)
    BY <1>0, <1>3, SizeSet
  <2> QED
    BY <2>1 DEF Sized
<1>5. PICK b : b = Copied(d, 0, Header)
  OBVIOUS
<1>6. /\ b \in BufferType /\ b.len = d.len /\ b.gen = d.gen
      /\ b.cells[0] = Header[1]
      /\ \A j \in 1 .. l : Placed(m, d, j) => Placed(m, b, j)
  BY <1>2, <1>4, <1>5, HeaderPlaced
<1>7. PICK c : c = out'
  OBVIOUS
<1>8. c = Copied(b, StartOf(m, l + 1), Trailer)
  BY <1>0, <1>2, <1>3, <1>5, <1>7, Zenon DEF EthOutput
<1>9. /\ c \in BufferType /\ c.len = b.len /\ c.gen = b.gen
      /\ c.cells[0] = b.cells[0]
      /\ c.cells[StartOf(m, l + 1)] = Trailer[1]
      /\ \A j \in 1 .. l : Placed(m, b, j) => Placed(m, c, j)
  BY <1>2, <1>6, <1>8, TrailerPlaced
<1>10. \A j \in 1 .. l : Placed(m, c, j)
  <2>1. \A j \in 1 .. l : Placed(m, d, j)
    BY <1>2, <1>4 DEF Placed
  <2> QED
    BY <1>6, <1>9, <2>1
<1>11. Built(m, "eth", c)
  BY <1>1, <1>2, <1>3, <1>4, <1>6, <1>9, <1>10 DEF Built
<1>12. out' \in BufferType /\ out'.gen >= out.gen /\ Built(task.msg, task.proto, out')
  BY <1>0, <1>1, <1>4, <1>6, <1>7, <1>9, <1>11
<1> QED
  BY <1>0, <1>12, FinishKeeps

LEMMA ConsensusFinishOK ==
  ASSUME IInv, crashed = "no", ConsensusFinish
  PROVE  IInv'
<1>0. /\ out \in BufferType /\ out.gen \in Nat /\ out.len \in Nat
      /\ task.proto = "consensus" /\ Waited /\ Done
      /\ out' = Copied(CopyResize(out, worker[0].off + 1), worker[0].off, Trailer)
      /\ UNCHANGED <<worker, held, crashed, service>>
  BY DEF IInv, TypeOK, BufferType, ConsensusFinish
<1>1. PICK m, l : m \in Messages /\ m = task.msg /\ l = Len(m.txs)
  BY <1>0, AllPlaced
<1>2. /\ m \in Messages /\ Enough(m, l) /\ \A i \in 1 .. l : Placed(m, out, i)
      /\ worker[0].off = StartOf(m, l + 1) /\ out.len = worker[0].off
      /\ out.cells[0] = Header[1]
  BY <1>0, <1>1, AllPlaced
<1>3. PICK n, d : n \in Nat /\ n = out.len + 1 /\ d = CopyResize(out, n) /\ n >= out.len
  <2>1. out.len + 1 \in Nat /\ out.len + 1 >= out.len
    BY <1>0
  <2> QED
    BY <2>1
<1>4. d \in BufferType /\ d.cells = out.cells /\ d.len = n /\ d.gen >= out.gen
  <2>1. Roomy(out, d, n)
    BY <1>0, <1>3, CopyRoom
  <2> QED
    BY <1>3, <2>1 DEF Roomy
<1>5. PICK c : c = out'
  OBVIOUS
<1>6. c = Copied(d, StartOf(m, l + 1), Trailer)
  BY <1>0, <1>2, <1>3, <1>5, Zenon
<1>7. /\ c \in BufferType /\ c.len = d.len /\ c.gen = d.gen
      /\ c.cells[0] = d.cells[0]
      /\ c.cells[StartOf(m, l + 1)] = Trailer[1]
      /\ \A j \in 1 .. l : Placed(m, d, j) => Placed(m, c, j)
  BY <1>2, <1>4, <1>6, TrailerPlaced
<1>8. \A j \in 1 .. l : Placed(m, c, j)
  <2>1. \A j \in 1 .. l : Placed(m, d, j)
    BY <1>2, <1>4 DEF Placed
  <2> QED
    BY <1>7, <2>1
<1>9. Built(m, "consensus", c)
  BY <1>1, <1>2, <1>3, <1>4, <1>7, <1>8 DEF Built
<1>10. out' \in BufferType /\ out'.gen >= out.gen /\ Built(task.msg, task.proto, out')
  BY <1>0, <1>1, <1>4, <1>5, <1>7, <1>9
<1> QED
  BY <1>0, <1>10, FinishKeeps

\* A step that leaves all that the invariant speaks of but the flags of the task.
LEMMA FlagsKeep ==
  ASSUME IInv, UNCHANGED <<known, contents, removed, stale, worker, out>>,
         task' \in TaskType, SameBlock(task, task'), SamePlace(task, task'),
         task'.pc = task.pc, task'.threw = task.threw,
         HeldOlder', held' = <<out.gen>> => task.pc = "done",
         CrashesExplained', crashed' = "no" => crashed = "no"
  PROVE  IInv'
<1>1. /\ task'.proto = task.proto /\ task'.msg = task.msg /\ task'.checked = task.checked
      /\ task'.unknownHashes = task.unknownHashes /\ task'.unknownSids = task.unknownSids
      /\ task'.count = task.count /\ task'.idx = task.idx /\ task'.off = task.off
      /\ task'.prevOff = task.prevOff /\ task'.sidOff = task.sidOff /\ task'.large = task.large
  BY DEF SameBlock, SamePlace
<1>2. TypeOK' /\ Dangling(stale', task'.msg, removed')
  BY <1>1 DEF IInv, TypeOK
<1>3. Lookups'
  <2>1. \A s : Settled(s)' <=> Settled(s)
    BY <1>1 DEF Settled, HasContents
  <2> QED
    BY <1>1, <2>1 DEF IInv, Lookups, Success
<1>4. OutputExact'
  BY <1>1 DEF IInv, OutputExact, Success
<1>5. ASSUME crashed' = "no" PROVE Working'
  <2>1. Working
    BY <1>5 DEF IInv
  <2>2. \A w : Running(w)' <=> Running(w)
    BY DEF Running
  <2>3. Quiet'
    BY <1>1, <2>1, <2>2 DEF Working, Quiet
  <2>4. PICK lo \in [Workers -> Nat], hi \in [Workers -> Nat] : Progress(lo, hi)
    BY <2>1 DEF Working
  <2>5. Parts(lo, hi)'
    <3>1. \A r, a, z : /\ SplitPart(task, r, out, a, z) => SplitPart(task', r, out, a, z)
                       /\ WholePart(task, r, out, a, z) => WholePart(task', r, out, a, z)
      <4>1. \A r, a, z : SplitPart(task, r, out, a, z) => SplitPart(task', r, out, a, z)
        BY <1>1, Zenon DEF SplitPart
      <4>2. \A r, a, z : WholePart(task, r, out, a, z) => WholePart(task', r, out, a, z)
        BY <1>1, Zenon DEF WholePart
      <4> QED
        BY <4>1, <4>2
    <3> QED
      BY <1>1, <2>2, <2>4, <3>1 DEF Progress, Parts
  <2>6. task.pc = "dispatch" => Dispatching(task', worker[task.idx], lo[task.idx], hi[task.idx])
    BY <1>1, <2>4, Zenon DEF Progress, Dispatching
  <2>7. task.pc \in {"dispatch", "header", "wait"} => Covered(lo, hi)'
    BY <1>1, <2>2, <2>4 DEF Progress, Covered, Busy
  <2>8. task.pc \in {"header", "wait"} => Dispatched(task', out)
    BY <1>1, <2>4, Zenon DEF Progress, Dispatched
  <2>9. task.pc = "wait" /\ task.proto = "consensus" /\ worker[0].pc = "completed" =>
           WholeCopied(task', worker[0], out)
    BY <1>1, <2>4, Zenon DEF Progress, WholeCopied
  <2>10. Progress(lo, hi)'
    BY <1>1, <2>5, <2>6, <2>7, <2>8, <2>9 DEF Progress
  <2> QED
    BY <2>1, <2>3, <2>4, <2>10 DEF Working
<1> QED
  BY <1>2, <1>3, <1>4, <1>5 DEF IInv

\* cleanup: sub tasks of a block that is released still run only if the task threw.
LEMMA CleanupOK ==
  ASSUME IInv, crashed = "no", Cleanup
  PROVE  IInv'
<1>0. /\ Working /\ task \in TaskType /\ task.pc \in {"done", "failed"}
      /\ UNCHANGED <<worker, out, held, known, contents, removed, stale>>
  BY DEF IInv, TypeOK, Cleanup, service
<1>1. /\ task' \in TaskType /\ SameBlock(task, task') /\ SamePlace(task, task')
      /\ task'.pc = task.pc /\ task'.threw = task.threw
  <2>1. task' = [task EXCEPT !.error = FALSE] \/ task' = [task EXCEPT !.released = TRUE]
    BY DEF Cleanup
  <2> QED
    <3>1. CASE task' = [task EXCEPT !.error = FALSE]
      BY <1>0, <3>1 DEF TaskType, SameBlock, SamePlace
    <3>2. CASE task' = [task EXCEPT !.released = TRUE]
      BY <1>0, <3>2 DEF TaskType, SameBlock, SamePlace
    <3> QED
      BY <2>1, <3>1, <3>2
<1>2. (\E w \in Workers : Running(w)) => task.threw
  BY <1>0 DEF Working, Quiet
<1>3. crashed' = "no" \/ (crashed' = "block freed" /\ task.threw)
  BY <1>2, Zenon DEF Cleanup
<1>4. CrashesExplained'
  BY <1>1, <1>3, Zenon DEF CrashesExplained
<1>5. HeldOlder'
  BY <1>0, <1>1 DEF IInv, HeldOlder
<1>6. held' = <<out.gen>> => task.pc = "done"
  BY <1>0 DEF IInv, OutputExact
<1> QED
  BY <1>0, <1>1, <1>4, <1>5, <1>6, FlagsKeep

\* The caller keeps the output of a block that is done.
LEMMA KeepOutputOK ==
  ASSUME IInv, crashed = "no", KeepOutput
  PROVE  IInv'
<1>0. /\ task \in TaskType /\ task.pc = "done" /\ held' = <<out.gen>> /\ out.gen \in Nat
      /\ UNCHANGED <<task, worker, out, crashed, known, contents, removed, stale>>
  BY DEF IInv, TypeOK, KeepOutput, service, BufferType
<1>1. SameBlock(task, task') /\ SamePlace(task, task')
  BY <1>0 DEF SameBlock, SamePlace
<1>2. HeldOlder'
  <2>1. PICK g, h : g \in Nat /\ g = out.gen /\ h = held'
    BY <1>0
  <2>2. h = <<g>>
    BY <1>0, <2>1
  <2>3. h = <<h[1]>> /\ h[1] \in 0 .. g
    BY <2>1, <2>2
  <2> QED
    BY <1>0, <2>1, <2>3 DEF HeldOlder
<1>3. CrashesExplained'
  BY <1>0, NoCrash
<1> QED
  BY <1>0, <1>1, <1>2, <1>3, FlagsKeep

\* A change of the service with what it can do to a lookup that is under way.
LEMMA RaceOK ==
  ASSUME IInv, crashed = "no", Grows, Race, UNCHANGED <<worker, out, held>>
  PROVE  IInv'
<1>0. Working /\ task \in TaskType /\ out \in BufferType /\ out.gen \in Nat
  BY DEF IInv, TypeOK, BufferType
<1>1. CASE UNCHANGED <<task, crashed>>
  BY <1>1, ServiceKeeps
<1>2. CASE CheckLooksUp /\ Missed(task.msg.sids[task.checked + 1]) /\ UNCHANGED crashed
  <2> PICK j, s : j = task.checked + 1 /\ s = task.msg.sids[j]
    OBVIOUS
  <2>1. LookedUp(task, task', j, s)
    BY <1>0, <1>2, ListedSid, ListedHash DEF Missed
  <2> QED
    BY <1>2, <2>1, LookupSettles
<1>3. CASE DispatchLooksUp /\ Throw /\ UNCHANGED crashed
  <2>1. task.pc = "dispatch" /\ task.proto \in Split
    BY <1>0, <1>3 DEF DispatchLooksUp, Working, Quiet
  <2>2. /\ worker' \in [Workers -> WorkerType]
        /\ \A w \in Workers : Running(w)' => Running(w) /\ worker'[w] = worker[w]
    BY <1>0 DEF Working, Running
  <2> QED
    BY <1>3, <2>1, <2>2, ThrowOK
<1>4. CASE /\ CheckLooksUp \/ DispatchLooksUp \/ \E w \in Workers : FetchLooksUp(w)
           /\ crashed' = "map changed"
           /\ UNCHANGED task
  <2>1. task.pc \notin {"idle", "done"} /\ task.msg \in Messages
    BY <1>0, <1>4 DEF CheckLooksUp, DispatchLooksUp, FetchLooksUp, Running, Working, Quiet
  <2>2. task.msg.sids # <<>>
    <3>1. CASE CheckLooksUp
      BY <1>0, <3>1 DEF CheckLooksUp, TaskType
    <3>2. CASE DispatchLooksUp
      <4>1. task.idx \in Workers /\ task.sidOff \in Nat
        BY <1>0 DEF TaskType
      <4>2. worker[task.idx].sidLen \in Nat
        BY <1>0, <4>1 DEF Working, WorkerType
      <4>3. ShortIdIdx \in Nat
        BY <4>1, <4>2 DEF ShortIdIdx
      <4> QED
        BY <3>2, <4>3 DEF DispatchLooksUp
    <3>3. CASE \E w \in Workers : FetchLooksUp(w)
      <4>1. PICK w \in Workers : FetchLooksUp(w)
        BY <3>3
      <4>2. worker[w].sidOff \in Nat
        BY <1>0 DEF Working, WorkerType
      <4> QED
        BY <4>1, <4>2 DEF FetchLooksUp
    <3> QED
      BY <1>4, <3>1, <3>2, <3>3
  <2>3. CrashesExplained'
    BY <1>4, <2>1, <2>2 DEF CrashesExplained
  <2>4. Aside
    <3>1. task' = task /\ out' = out /\ held' = held
      BY <1>4, Zenon
    <3> QED
      BY <1>0, <3>1 DEF Aside
  <2>5. /\ task.pc # "check" => task.checked = Len(task.msg.sids)
        /\ task.pc \in {"dispatch", "header", "wait", "failed"} => Success
    BY DEF IInv, Lookups
  <2> QED
    BY <1>4, <2>1, <2>3, <2>4, <2>5, AsideKeeps
<1> QED
  BY <1>1, <1>2, <1>3, <1>4 DEF Race

LEMMA AssignShortIdOK ==
  ASSUME IInv, crashed = "no", NEW s \in Sids, AssignShortId(s)
  PROVE  IInv'
<1>1. Grows
  BY DEF AssignShortId, IInv, TypeOK, HasContents, Grows
<1> QED
  BY <1>1, RaceOK DEF AssignShortId

LEMMA SetContentsOK ==
  ASSUME IInv, crashed = "no", NEW h \in Hashes, SetContents(h)
  PROVE  IInv'
<1>1. Grows
  BY DEF SetContents, IInv, TypeOK, HasContents, Grows
<1> QED
  BY <1>1, RaceOK DEF SetContents

\* A sub task with a raw pointer has it for a short id of the block.
LEMMA PointerOfBlock ==
  ASSUME IInv, crashed = "no", NEW h \in Hashes, NEW w \in PointingTo(h)
  PROVE  \E s \in Elements(task.msg.sids) : HashOf[s] = h
<1>0. /\ w \in Workers /\ task.proto \in Split /\ Running(w) /\ worker[w].pc = "copy"
      /\ Current(w) = Short /\ HashOf[CurrentSid(w)] = h /\ Working
  BY DEF PointingTo, Running, CurrentHash, IInv
<1>1. PICK lo \in [Workers -> Nat], hi \in [Workers -> Nat] : Progress(lo, hi)
  BY <1>0 DEF Working
<1>2. SplitPart(task, worker[w], out, lo[w], hi[w])
  BY <1>0, <1>1, RunningPart
<1>3. worker[w].todo # <<>>
  BY <1>0, <1>2 DEF SplitPart
<1>4. PICK a \in Nat, z \in Nat, m \in Messages, r \in WorkerType :
         /\ m = task.msg /\ r = worker[w]
         /\ Part(r, m, a, z) /\ Enough(m, a) /\ r.todo # <<>>
  <2>1. /\ task.msg \in Messages /\ worker[w] \in WorkerType
        /\ Part(worker[w], task.msg, lo[w], hi[w]) /\ Enough(task.msg, lo[w])
    BY <1>0, <1>1, <1>3, SplitEntry
  <2>2. lo[w] \in Nat /\ hi[w] \in Nat
    BY <1>0
  <2> QED
    BY <1>3, <2>1, <2>2, Zenon
<1>5. AtEntry(w, m, a, z)
  BY <1>0, <1>4, CurrentEntry
<1>6. PICK j \in 1 .. Len(m.sids) : CurrentSid(w) = m.sids[j]
  BY <1>0, <1>5 DEF AtEntry
<1>7. j \in DOMAIN m.sids
  BY <1>4, MessagesOK
<1> QED
  BY <1>0, <1>4, <1>6, <1>7 DEF Elements

LEMMA RemoveTransactionOK ==
  ASSUME IInv, crashed = "no", NEW h \in Hashes, RemoveTransaction(h)
  PROVE  IInv'
<1>1. removed' = removed \cup {h} /\ stale' = stale \cup PointingTo(h)
  BY DEF RemoveTransaction
<1>2. Dangling(stale', task.msg, removed')
  <2>1. Working /\ Dangling(stale, task.msg, removed)
    BY DEF IInv
  <2>2. ASSUME NEW w \in PointingTo(h)
        PROVE  \E s \in Elements(task.msg.sids) : HashOf[s] \in removed'
    BY <1>1, <2>1, PointerOfBlock
  <2> QED
    BY <1>1, <2>1, <2>2 DEF Dangling
<1>3. /\ known' \subseteq Sids /\ contents' \subseteq Hashes /\ removed' \subseteq Hashes
      /\ removed \subseteq removed'
      /\ \A u \in Sids : HasContents(u) => HasContents(u)' \/ HashOf[u] \in removed'
  BY DEF RemoveTransaction, IInv, TypeOK, HasContents
<1>4. Grows
  BY <1>2, <1>3 DEF Grows
<1> QED
  BY <1>4, RaceOK DEF RemoveTransaction

LEMMA NextOK == IInv /\ [Next]_vars => IInv'
<1> SUFFICES ASSUME IInv, [Next]_vars PROVE IInv'
  OBVIOUS
<1>1. CASE UNCHANGED vars
  <2>0. UNCHANGED <<known, contents, task, worker, out, held, crashed, removed, stale>>
    BY <1>1 DEF vars
  <2>1. task \in TaskType /\ SameBlock(task, task') /\ SamePlace(task, task')
    BY <2>0 DEF SameBlock, SamePlace, IInv, TypeOK
  <2>2. HeldOlder' /\ (held' = <<out.gen>> => task.pc = "done")
    BY <2>0 DEF IInv, HeldOlder, OutputExact
  <2>3. CrashesExplained'
    BY <2>0, Zenon DEF IInv, CrashesExplained
  <2> QED
    BY <2>0, <2>1, <2>2, <2>3, FlagsKeep
<1>2. CASE Next
  <2>0. crashed = "no"
    BY <1>2 DEF Next
  <2>1. CASE \E m \in Messages : BtcInit(m) \/ OntInit(m) \/ EthInit(m) \/ ConsensusInit(m)
    BY <2>0, <2>1, BlocksStart
  <2>2. CASE GetMissingTransactions \/ Checked
    BY <2>0, <2>2, LookupOK, CheckedOK
  <2>3. CASE BtcDispatch \/ OntDispatch \/ EthDispatch
    BY <2>0, <2>3, DispatchOK
  <2>4. CASE CopyHeader
    BY <2>0, <2>4, CopyHeaderOK
  <2>5. CASE \E w \in Workers : BtcSubExecute(w) \/ OntSubExecute(w) \/ EthSubExecute(w)
    BY <2>0, <2>5, SubTasksOK
  <2>6. CASE ConsensusTransactions
    BY <2>0, <2>6, ConsensusTransactionsOK
  <2>7. CASE BtcFinish \/ OntFinish
    BY <2>0, <2>7, BtcFinishOK, OntFinishOK
  <2>8. CASE EthFinish \/ ConsensusFinish
    BY <2>0, <2>8, EthFinishOK, ConsensusFinishOK
  <2>9. CASE KeepOutput \/ Cleanup
    BY <2>0, <2>9, KeepOutputOK, CleanupOK
  <2>10. CASE \E s \in Sids : AssignShortId(s)
    BY <2>0, <2>10, AssignShortIdOK
  <2>11. CASE \E h \in Hashes : SetContents(h) \/ RemoveTransaction(h)
    BY <2>0, <2>11, SetContentsOK, RemoveTransactionOK
  <2> QED
    BY <1>2, <2>1, <2>2, <2>3, <2>4, <2>5, <2>6, <2>7, <2>8, <2>9, <2>10, <2>11 DEF Next
<1> QED
  BY <1>1, <1>2

LEMMA Invariance == Spec => []IInv
  BY InitOK, NextOK, PTL DEF Spec

-----------------------------------------------------------------------------

\* A block that is reported as decompressed is the original one, for every number of
\* sub tasks and every order in which they, the task and the service take steps: the
\* header, each transaction in its place and the trailer; and no task writes to a
\* buffer that its caller has kept.
THEOREM DecompressedExactly == Spec => []OutputExact
<1>1. IInv => OutputExact
  BY DEF IInv
<1> QED
  BY <1>1, Invariance, PTL

\* get_missing_transactions and the lists it fills: what a completed task does not
\* report as missing was there when it was looked up, and all it reports is of its block.
THEOREM MissingAreReported == Spec => []MissingReported
<1>1. IInv => MissingReported
  <2> SUFFICES ASSUME IInv, task.pc = "done" PROVE MissingReported
    BY DEF MissingReported
  <2>1. /\ task.checked = Len(task.msg.sids)
        /\ Elements(task.unknownSids) \subseteq Elements(task.msg.sids)
        /\ Elements(task.unknownHashes) \subseteq
              {HashOf[s] : s \in Elements(task.msg.sids) \ {NullSid}}
        /\ \A j \in 1 .. task.checked : Settled(task.msg.sids[j])
    BY DEF IInv, Lookups
  <2>2. DOMAIN task.msg.sids = 1 .. Len(task.msg.sids)
    <3>1. task.msg \in Messages \/ task.msg = NoMessage
      BY DEF IInv, TypeOK, TaskType
    <3>2. NoMessage.sids = <<>>
      BY DEF NoMessage
    <3> QED
      BY <3>1, <3>2, MessagesOK
  <2>3. \A s \in Elements(task.msg.sids) : Settled(s)
    BY <2>1, <2>2 DEF Elements
  <2> QED
    BY <2>1, <2>3 DEF MissingReported, Settled
<1> QED
  BY <1>1, Invariance, PTL

\* Memory that is gone is used for the five reasons of CrashesExplained and no other,
\* for every message, pool size and order of steps.
THEOREM EveryCrashExplained == Spec => []CrashesExplained
<1>1. IInv => CrashesExplained
  BY DEF IInv
<1> QED
  BY <1>1, Invariance, PTL

\* While nothing has crashed, the parts of the sub tasks and the transactions in their
\* places make up the block: the type invariant and the argument behind the theorems.
THEOREM TypesAndParts == Spec => [](TypeOK /\ (crashed = "no" => Working))
<1>1. IInv => TypeOK /\ (crashed = "no" => Working)
  BY DEF IInv
<1> QED
  BY <1>1, Invariance, PTL
=============================================================================
