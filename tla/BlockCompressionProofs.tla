---------------------- MODULE BlockCompressionProofs ----------------------
(***************************************************************************)
(* Proofs about BlockCompression, for every size of the sub pool, every    *)
(* block and every assignment of short ids.                                *)
(*                                                                         *)
(* The argument: the sub tasks cut the block into consecutive segments     *)
(* (cut), and what a sub task has written stands for the first part of its *)
(* segment while its offsets are the rest (Segment).  A compressed part    *)
(* may be extended by an entry and by the part that follows it             *)
(* (StandsFlag, StandsFull, StandsBoth), which is all a sub task and the   *)
(* collection of their results do.                                         *)
(***************************************************************************)
EXTENDS BlockCompression, FunctionTheorems, FiniteSetTheorems, SequenceTheorems, TLAPS

OutEntry == Hashes \cup {Flag}

WorkerType ==
    [pc : {"idle", "look", "age", "again", "decide", "take", "ignore"},
     todo : Seq(Hashes), ready : BOOLEAN, out : Seq(OutEntry),
     shortIds : Seq(Sids), ignored : Seq(Sids)]

TaskType ==
    [proto : Protocols, pc : {"idle", "dispatch", "collect", "done", "failed"},
     block : Seq(Hashes), enabled : BOOLEAN, count : Nat, idx : Nat,
     out : Seq(OutEntry), shortIds : Seq(Sids), ignored : Seq(Sids), blocks : Nat]

KeptType ==
    [held : BOOLEAN, same : BOOLEAN, taken : Seq(OutEntry), apart : Seq(OutEntry)]

\* The values of the variables.
TypeOK ==
    /\ bound \subseteq Sids
    /\ old \subseteq wasOld
    /\ wasOld \subseteq Sids
    /\ task \in TaskType
    /\ worker \in [Workers -> WorkerType]
    /\ kept \in KeptType

\* Entries and short ids that stand for the transactions of a block from
\* position a + 1 on.
Stands(out, sids, block, a) ==
    /\ Len(sids) = FlagsUpTo(out, Len(out))
    /\ a + Len(out) <= Len(block)
    /\ \A k \in 1 .. Len(out) :
          IF out[k] = Flag THEN HashOf[sids[FlagsUpTo(out, k)]] = block[a + k]
          ELSE out[k] = block[a + k]

\* Offsets that are the transactions of a block up to position b.
Remains(todo, block, b) ==
    /\ Len(todo) <= b /\ b <= Len(block)
    /\ \A k \in 1 .. Len(todo) : todo[k] = block[(b - Len(todo)) + k]

\* Ignored short ids are of transactions in the output.
IgnoredIn(out, ignored) ==
    \A i \in 1 .. Len(ignored) : \E k \in 1 .. Len(out) : out[k] = HashOf[ignored[i]]

\* A sub task of task t at work on the segment from a to b.
Segment(t, r, a, b) ==
    /\ Stands(r.out, r.shortIds, t.block, a)
    /\ Remains(r.todo, t.block, b)
    /\ a + Len(r.out) + Len(r.todo) = b
    /\ t.proto \in {"ont", "eth"} => IgnoredIn(r.out, r.ignored)

\* A worker in the middle of a transaction has one.
Busy == \A w \in Workers : worker[w].pc \in {"idle", "look"} \/ worker[w].todo # <<>>

AllIdle(W) == \A w \in W : worker[w].pc = "idle"

Cuts == [0 .. PoolSize -> Nat]

\* The segments of the sub tasks from i to j that are at work.
Segments(cut, i, j) ==
    \A w \in Workers : i <= w /\ w <= j /\ worker[w].pc # "idle" =>
        Segment(task, worker[w], cut[w], cut[w + 1])

\* While the block is split: the sub task idx gets the offsets up to count.
Dispatching(cut) ==
    /\ task.idx \in Workers /\ task.idx <= Target
    /\ task.count <= Len(task.block)
    /\ cut[0] = 0 /\ cut[task.idx + 1] = task.count
    /\ Segments(cut, 0, task.idx - 1)
    /\ cut[task.idx] + Len(worker[task.idx].todo) = task.count
    /\ Remains(worker[task.idx].todo, task.block, task.count)
    /\ \A w \in Workers : w >= task.idx => worker[w].pc = "idle"
    /\ \A w \in Workers : w > task.idx => worker[w].todo = <<>>
    /\ task.out = <<>> /\ task.shortIds = <<>> /\ task.ignored = <<>>

\* What the task has so far.
TaskStands ==
    /\ Stands(task.out, task.shortIds, task.block, 0)
    /\ task.proto \in {"ont", "eth"} => IgnoredIn(task.out, task.ignored)

\* While the results are collected: those before idx are in.
Collecting(cut) ==
    /\ task.count \in Workers /\ task.idx <= task.count + 1
    /\ cut[task.count + 1] = Len(task.block) /\ cut[task.idx] = Len(task.out)
    /\ Segments(cut, task.idx, task.count)
    /\ TaskStands
    /\ AllIdle({w \in Workers : w < task.idx \/ w > task.count})

\* What a task that works alone does while it is executed.
Alone ==
    /\ Segment(task, worker[0], 0, Len(task.block))
    /\ AllIdle(Workers \ {0})

\* How far the task is with its block.
Progress ==
    /\ task.pc = "dispatch" /\ task.proto \in Split => \E cut \in Cuts : Dispatching(cut)
    /\ task.pc = "dispatch" /\ task.proto \notin Split => Alone
    /\ task.pc = "collect" => task.proto \in Split /\ \E cut \in Cuts : Collecting(cut)
    /\ task.pc = "done" => TaskStands /\ Len(task.out) = Len(task.block)
    /\ task.pc \in {"idle", "done"} => AllIdle(Workers)

\* The only short id of its transaction.
OnlySid(s) == \A t \in Sids : HashOf[t] = HashOf[s] => t = s

\* A short id that a worker decides on by its age, or has used, has been old.
WorkerAge(r, wereOld) ==
    /\ r.pc # "again"
    /\ r.pc = "take" => r.ready
    /\ r.pc \in {"decide", "take"} /\ r.ready => \E s \in wereOld : HashOf[s] = Head(r.todo)
    /\ \A i \in 1 .. Len(r.shortIds) : OnlySid(r.shortIds[i]) => r.shortIds[i] \in wereOld

Ages == task.proto = "eth" => \A w \in Workers : WorkerAge(worker[w], wasOld)

\* The caller's pointer is to the task's buffer only until the next init; after it
\* the buffer is the caller's own.
KeptApart ==
    /\ kept.same => kept.held /\ task.pc = "done" /\ task.out = kept.taken
    /\ kept.held /\ ~kept.same => kept.apart = kept.taken

IInv == TypeOK /\ Busy /\ Progress /\ Ages /\ KeptApart

LEMMA KeptAtWork ==
  ASSUME IInv, UNCHANGED kept, task.pc # "done"
  PROVE  KeptApart'
BY DEF IInv, KeptApart

-----------------------------------------------------------------------------
(* Flags and the entries they count.                                        *)

\* One more entry is one more flag or none.
LEMMA FlagsStep ==
  ASSUME NEW out, NEW n \in Nat
  PROVE  /\ IsFiniteSet({i \in 1 .. n : out[i] = Flag})
         /\ FlagsUpTo(out, n) \in Nat
         /\ FlagsUpTo(out, 0) = 0
         /\ out[n + 1] = Flag => FlagsUpTo(out, n + 1) = FlagsUpTo(out, n) + 1
         /\ out[n + 1] # Flag => FlagsUpTo(out, n + 1) = FlagsUpTo(out, n)
<1> DEFINE A(m) == {i \in 1 .. m : out[i] = Flag}
<1>1. ASSUME NEW m \in Nat PROVE IsFiniteSet(A(m)) /\ Cardinality(A(m)) \in Nat
  <2>1. IsFiniteSet(1 .. m) /\ A(m) \in SUBSET (1 .. m)
    BY FS_Interval
  <2>2. IsFiniteSet(A(m))
    BY <2>1, FS_Subset
  <2> QED
    BY <2>2, FS_CardinalityType
<1>2. Cardinality(A(0)) = 0
  <2>1. A(0) = {}
    OBVIOUS
  <2> QED
    BY <2>1, FS_EmptySet
<1>3. CASE out[n + 1] = Flag
  <2>1. A(n + 1) = A(n) \cup {n + 1} /\ n + 1 \notin A(n)
    BY <1>3
  <2> HIDE DEF A
  <2>2. Cardinality(A(n + 1)) = Cardinality(A(n)) + 1
    BY <1>1, <2>1, FS_AddElement
  <2> QED
    BY <1>1, <1>2, <1>3, <2>2 DEF A, FlagsUpTo
<1>4. CASE out[n + 1] # Flag
  <2>1. A(n + 1) = A(n)
    BY <1>4
  <2> QED
    BY <1>1, <1>2, <1>4, <2>1 DEF FlagsUpTo
<1> QED
  BY <1>3, <1>4

\* Entries that agree have as many flags.
LEMMA FlagsSame ==
  ASSUME NEW out, NEW more, NEW n \in Nat, \A i \in 1 .. n : out[i] = more[i]
  PROVE  FlagsUpTo(out, n) = FlagsUpTo(more, n)
<1>1. {i \in 1 .. n : out[i] = Flag} = {i \in 1 .. n : more[i] = Flag}
  OBVIOUS
<1> QED
  BY <1>1 DEF FlagsUpTo

\* A flag is counted, and no later count is smaller.
LEMMA FlagsBounds ==
  ASSUME NEW out, NEW n \in Nat, NEW k \in 1 .. n, out[k] = Flag
  PROVE  FlagsUpTo(out, k) \in 1 .. FlagsUpTo(out, n)
<1> DEFINE A(m) == {i \in 1 .. m : out[i] = Flag}
<1>1. IsFiniteSet(A(n)) /\ IsFiniteSet(A(k)) /\ FlagsUpTo(out, n) \in Nat /\ FlagsUpTo(out, k) \in Nat
  BY FlagsStep
<1>2. A(k) \in SUBSET A(n) /\ k \in A(k)
  OBVIOUS
<1> HIDE DEF A
<1>3. Cardinality(A(k)) <= Cardinality(A(n))
  BY <1>1, <1>2, FS_Subset
<1>4. Cardinality(A(k)) # 0
  BY <1>1, <1>2, FS_EmptySet
<1> QED
  BY <1>1, <1>3, <1>4 DEF A, FlagsUpTo

\* The flags of two parts, one after the other, add up.
LEMMA FlagsOfBoth ==
  ASSUME NEW S, NEW first \in Seq(S), NEW second \in Seq(S), NEW n \in 0 .. Len(second)
  PROVE  FlagsUpTo(first \o second, Len(first) + n)
            = FlagsUpTo(first, Len(first)) + FlagsUpTo(second, n)
<1> DEFINE m == Len(first)
           A == {i \in 1 .. m : first[i] = Flag}
           B == {i \in 1 .. n : second[i] = Flag}
           C == {i \in 1 .. m + n : (first \o second)[i] = Flag}
           D == {i \in (m + 1) .. m + n : (first \o second)[i] = Flag}
           f == [i \in B |-> m + i]
<1>1. m \in Nat /\ n \in Nat
  OBVIOUS
<1>2. /\ \A i \in 1 .. m : (first \o second)[i] = first[i]
      /\ \A i \in 1 .. n : (first \o second)[m + i] = second[i]
  OBVIOUS
<1>3. /\ IsFiniteSet(A) /\ IsFiniteSet(B)
      /\ Cardinality(A) \in Nat /\ Cardinality(B) \in Nat
  BY <1>1, FlagsStep DEF FlagsUpTo
<1>4. C = A \cup D /\ A \cap D = {}
  BY <1>1, <1>2
<1>5. f \in Bijection(B, D)
  <2> DEFINE g == [j \in D |-> j - m]
  <2>1. \A i \in B : m + i \in D
    BY <1>1, <1>2
  <2>2. \A j \in D : j - m \in B /\ m + (j - m) = j
    <3> SUFFICES ASSUME NEW j \in D PROVE j - m \in B /\ m + (j - m) = j
      OBVIOUS
    <3>1. j \in Int /\ j - m \in 1 .. n /\ m + (j - m) = j
      BY <1>1
    <3> QED
      BY <1>2, <3>1
  <2>3. f \in [B -> D]
    BY <2>1
  <2>4. \A a, b \in B : f[a] = f[b] => a = b
    BY <1>1
  <2>5. \A j \in D : \E i \in B : f[i] = j
    BY <2>2
  <2> HIDE DEF f, B, D
  <2> QED
    BY <2>3, <2>4, <2>5, Fun_IsBij
<1> HIDE DEF A, B, C, D, f
<1>6. IsFiniteSet(D) /\ Cardinality(D) = Cardinality(B)
  BY <1>3, <1>5, FS_Bijection, Fun_ExistsBij
<1>7. Cardinality(C) = Cardinality(A) + Cardinality(D)
  <2>1. Cardinality(A \cup D) = Cardinality(A) + Cardinality(D) - Cardinality(A \cap D)
    BY <1>3, <1>6, FS_Union
  <2>2. Cardinality(A \cap D) = 0
    BY <1>4, FS_EmptySet
  <2> QED
    BY <1>3, <1>4, <1>6, <2>1, <2>2
<1> QED
  BY <1>6, <1>7 DEF A, B, C, FlagsUpTo

-----------------------------------------------------------------------------
(* Compressed parts of a block.                                             *)

LEMMA StandsEmpty ==
  ASSUME NEW block, NEW a \in Nat, a <= Len(block), Len(block) \in Nat
  PROVE  Stands(<<>>, <<>>, block, a)
<1>1. FlagsUpTo(<<>>, 0) = 0
  BY FlagsStep
<1>2. Len(<<>>) = 0
  OBVIOUS
<1> QED
  BY <1>1, <1>2 DEF Stands

\* A flag and a short id of the next transaction.
LEMMA StandsFlag ==
  ASSUME NEW out \in Seq(OutEntry), NEW sids \in Seq(Sids), NEW block \in Seq(Hashes), NEW a \in Nat,
         Stands(out, sids, block, a), NEW s \in Sids,
         (a + Len(out)) + 1 <= Len(block), HashOf[s] = block[(a + Len(out)) + 1]
  PROVE  Stands(Append(out, Flag), Append(sids, s), block, a)
<1> DEFINE n == Len(out)
           more == Append(out, Flag)
           sidsMore == Append(sids, s)
<1>1. /\ n \in Nat /\ Len(sids) \in Nat
      /\ Len(more) = n + 1 /\ Len(sidsMore) = Len(sids) + 1
      /\ more[n + 1] = Flag /\ sidsMore[Len(sids) + 1] = s
      /\ \A i \in 1 .. n : more[i] = out[i]
      /\ \A i \in 1 .. Len(sids) : sidsMore[i] = sids[i]
  BY DEF OutEntry
<1> HIDE DEF n, more, sidsMore
<1>2. Len(sids) = FlagsUpTo(out, n)
  BY DEF Stands, n
<1>3. \A k \in 1 .. n : FlagsUpTo(more, k) = FlagsUpTo(out, k)
  <2> SUFFICES ASSUME NEW k \in 1 .. n PROVE FlagsUpTo(more, k) = FlagsUpTo(out, k)
    OBVIOUS
  <2>1. k \in Nat /\ \A i \in 1 .. k : more[i] = out[i]
    BY <1>1
  <2> QED
    BY <2>1, FlagsSame
<1>4. FlagsUpTo(more, n) = FlagsUpTo(out, n)
  BY <1>1, FlagsSame
<1>5. FlagsUpTo(more, n + 1) = Len(sids) + 1
  <2>1. FlagsUpTo(more, n + 1) = FlagsUpTo(more, n) + 1
    BY <1>1, FlagsStep
  <2> QED
    BY <1>2, <1>4, <2>1
<1>6. ASSUME NEW k \in 1 .. (n + 1)
      PROVE  IF more[k] = Flag THEN HashOf[sidsMore[FlagsUpTo(more, k)]] = block[a + k]
             ELSE more[k] = block[a + k]
  <2>1. CASE k = n + 1
    <3>1. a + k = (a + n) + 1
      BY <1>1, <2>1
    <3> QED
      BY <1>1, <1>5, <2>1, <3>1 DEF n
  <2>2. CASE k # n + 1
    <3>1. k \in 1 .. n
      BY <1>1, <2>2
    <3>2. CASE out[k] = Flag
      <4>1. FlagsUpTo(out, k) \in 1 .. Len(sids)
        BY <1>1, <1>2, <3>1, <3>2, FlagsBounds
      <4>2. HashOf[sids[FlagsUpTo(out, k)]] = block[a + k]
        BY <3>1, <3>2 DEF Stands, n
      <4> QED
        BY <1>1, <1>3, <3>1, <3>2, <4>1, <4>2
    <3>3. CASE out[k] # Flag
      BY <1>1, <3>1, <3>3 DEF Stands, n
    <3> QED
      BY <3>2, <3>3
  <2> QED
    BY <2>1, <2>2
<1>7. a + Len(more) <= Len(block)
  BY <1>1 DEF n
<1> QED
  BY <1>1, <1>5, <1>6, <1>7 DEF Stands, n, more, sidsMore

\* The next transaction in full.
LEMMA StandsFull ==
  ASSUME NEW out \in Seq(OutEntry), NEW sids \in Seq(Sids), NEW block \in Seq(Hashes), NEW a \in Nat,
         Stands(out, sids, block, a), NEW h \in Hashes,
         (a + Len(out)) + 1 <= Len(block), h = block[(a + Len(out)) + 1]
  PROVE  Stands(Append(out, h), sids, block, a)
<1> DEFINE n == Len(out)
           more == Append(out, h)
<1>0. h # Flag
  BY BlockCompressionAssumption
<1>1. /\ n \in Nat /\ Len(sids) \in Nat
      /\ Len(more) = n + 1
      /\ more[n + 1] = h
      /\ \A i \in 1 .. n : more[i] = out[i]
  BY DEF OutEntry
<1> HIDE DEF n, more
<1>2. Len(sids) = FlagsUpTo(out, n)
  BY DEF Stands, n
<1>3. \A k \in 1 .. n : FlagsUpTo(more, k) = FlagsUpTo(out, k)
  <2> SUFFICES ASSUME NEW k \in 1 .. n PROVE FlagsUpTo(more, k) = FlagsUpTo(out, k)
    OBVIOUS
  <2>1. k \in Nat /\ \A i \in 1 .. k : more[i] = out[i]
    BY <1>1
  <2> QED
    BY <2>1, FlagsSame
<1>4. FlagsUpTo(more, n) = FlagsUpTo(out, n)
  BY <1>1, FlagsSame
<1>5. FlagsUpTo(more, n + 1) = Len(sids)
  BY <1>0, <1>1, <1>2, <1>4, FlagsStep
<1>6. ASSUME NEW k \in 1 .. (n + 1)
      PROVE  IF more[k] = Flag THEN HashOf[sids[FlagsUpTo(more, k)]] = block[a + k]
             ELSE more[k] = block[a + k]
  <2>1. CASE k = n + 1
    <3>1. a + k = (a + n) + 1
      BY <1>1, <2>1
    <3> QED
      BY <1>0, <1>1, <2>1, <3>1 DEF n
  <2>2. CASE k # n + 1
    <3>1. k \in 1 .. n
      BY <1>1, <2>2
    <3> QED
      BY <1>1, <1>3, <3>1 DEF Stands, n
  <2> QED
    BY <2>1, <2>2
<1>7. a + Len(more) <= Len(block)
  BY <1>1 DEF n
<1> QED
  BY <1>1, <1>5, <1>6, <1>7 DEF Stands, n, more

\* A part and the one that follows it.
LEMMA StandsBoth ==
  ASSUME NEW out \in Seq(OutEntry), NEW sids \in Seq(Sids),
         NEW next \in Seq(OutEntry), NEW nextSids \in Seq(Sids), NEW block \in Seq(Hashes),
         Stands(out, sids, block, 0), Stands(next, nextSids, block, Len(out))
  PROVE  /\ Stands(out \o next, sids \o nextSids, block, 0)
         /\ Len(out \o next) = Len(out) + Len(next)
<1> DEFINE n == Len(out)
           m == Len(sids)
           both == out \o next
           bothSids == sids \o nextSids
<1>1. /\ n \in Nat /\ m \in Nat /\ Len(next) \in Nat /\ Len(nextSids) \in Nat /\ Len(block) \in Nat
      /\ Len(both) = n + Len(next) /\ Len(bothSids) = m + Len(nextSids)
      /\ \A i \in 1 .. n : both[i] = out[i]
      /\ \A i \in 1 .. Len(next) : both[n + i] = next[i]
      /\ \A i \in 1 .. m : bothSids[i] = sids[i]
      /\ \A i \in 1 .. Len(nextSids) : bothSids[m + i] = nextSids[i]
  OBVIOUS
<1>2. \A k \in 0 .. Len(next) : FlagsUpTo(both, n + k) = FlagsUpTo(out, n) + FlagsUpTo(next, k)
  BY FlagsOfBoth
<1> HIDE DEF n, m, both, bothSids
<1>3. m = FlagsUpTo(out, n) /\ Len(nextSids) = FlagsUpTo(next, Len(next)) /\ n + Len(next) <= Len(block)
  BY DEF Stands, n, m
<1>4. Len(bothSids) = FlagsUpTo(both, Len(both))
  <2>1. Len(next) \in 0 .. Len(next)
    BY <1>1
  <2> QED
    BY <1>1, <1>2, <1>3, <2>1
<1>5. ASSUME NEW k \in 1 .. n
      PROVE  IF both[k] = Flag THEN HashOf[bothSids[FlagsUpTo(both, k)]] = block[0 + k]
             ELSE both[k] = block[0 + k]
  <2>1. FlagsUpTo(both, k) = FlagsUpTo(out, k)
    <3>1. k \in Nat /\ \A i \in 1 .. k : both[i] = out[i]
      BY <1>1
    <3> QED
      BY <3>1, FlagsSame
  <2>2. CASE out[k] = Flag
    <3>1. FlagsUpTo(out, k) \in 1 .. m
      BY <1>1, <1>3, <2>2, FlagsBounds
    <3>2. HashOf[sids[FlagsUpTo(out, k)]] = block[0 + k]
      BY <2>2 DEF Stands, n
    <3> QED
      BY <1>1, <2>1, <2>2, <3>1, <3>2
  <2>3. CASE out[k] # Flag
    BY <1>1, <2>3 DEF Stands, n
  <2> QED
    BY <2>2, <2>3
<1>6. ASSUME NEW k \in 1 .. Len(next)
      PROVE  IF both[n + k] = Flag THEN HashOf[bothSids[FlagsUpTo(both, n + k)]] = block[n + k]
             ELSE both[n + k] = block[n + k]
  <2>1. FlagsUpTo(both, n + k) = m + FlagsUpTo(next, k)
    BY <1>1, <1>2, <1>3
  <2>2. CASE next[k] = Flag
    <3>1. FlagsUpTo(next, k) \in 1 .. Len(nextSids)
      BY <1>1, <1>3, <2>2, FlagsBounds
    <3>2. HashOf[nextSids[FlagsUpTo(next, k)]] = block[n + k]
      BY <2>2 DEF Stands, n
    <3> QED
      BY <1>1, <2>1, <2>2, <3>1, <3>2
  <2>3. CASE next[k] # Flag
    BY <1>1, <2>3 DEF Stands, n
  <2> QED
    BY <2>2, <2>3
<1>7. ASSUME NEW k \in 1 .. Len(both)
      PROVE  IF both[k] = Flag THEN HashOf[bothSids[FlagsUpTo(both, k)]] = block[0 + k]
             ELSE both[k] = block[0 + k]
  <2>1. CASE k \in 1 .. n
    BY <1>5, <2>1
  <2>2. CASE k \notin 1 .. n
    <3>1. k - n \in 1 .. Len(next) /\ n + (k - n) = k /\ 0 + k = k
      BY <1>1, <2>2
    <3> QED
      BY <1>6, <3>1
  <2> QED
    BY <2>1, <2>2
<1>8. 0 + Len(both) <= Len(block)
  BY <1>1, <1>3
<1> QED
  BY <1>1, <1>4, <1>7, <1>8 DEF Stands, n, both, bothSids

\* Ignored short ids stay in a part that grows.
LEMMA IgnoredAppend ==
  ASSUME NEW out \in Seq(OutEntry), NEW ignored \in Seq(Sids), IgnoredIn(out, ignored), NEW e \in OutEntry
  PROVE  /\ IgnoredIn(Append(out, e), ignored)
         /\ \A s \in Sids : e = HashOf[s] => IgnoredIn(Append(out, e), Append(ignored, s))
<1> DEFINE more == Append(out, e)
<1>1. /\ Len(out) \in Nat /\ Len(more) = Len(out) + 1
      /\ more[Len(out) + 1] = e /\ \A i \in 1 .. Len(out) : more[i] = out[i]
      /\ Len(out) + 1 \in 1 .. Len(more) /\ \A i \in 1 .. Len(out) : i \in 1 .. Len(more)
  OBVIOUS
<1> HIDE DEF more
<1>2. IgnoredIn(more, ignored)
  <2> SUFFICES ASSUME NEW i \in 1 .. Len(ignored)
               PROVE  \E k \in 1 .. Len(more) : more[k] = HashOf[ignored[i]]
    BY DEF IgnoredIn
  <2> PICK k \in 1 .. Len(out) : out[k] = HashOf[ignored[i]]
    BY DEF IgnoredIn
  <2> QED
    BY <1>1
<1>3. ASSUME NEW s \in Sids, e = HashOf[s] PROVE IgnoredIn(more, Append(ignored, s))
  <2> DEFINE longer == Append(ignored, s)
  <2>1. /\ Len(ignored) \in Nat /\ Len(longer) = Len(ignored) + 1 /\ longer[Len(ignored) + 1] = s
        /\ \A i \in 1 .. Len(ignored) : longer[i] = ignored[i]
    OBVIOUS
  <2> HIDE DEF longer
  <2>2. ASSUME NEW i \in 1 .. Len(longer)
        PROVE  \E k \in 1 .. Len(more) : more[k] = HashOf[longer[i]]
    <3>1. CASE i = Len(ignored) + 1
      BY <1>1, <1>3, <2>1, <3>1
    <3>2. CASE i # Len(ignored) + 1
      <4>1. i \in 1 .. Len(ignored)
        BY <2>1, <3>2
      <4> QED
        BY <1>2, <2>1, <4>1 DEF IgnoredIn
    <3> QED
      BY <3>1, <3>2
  <2> QED
    BY <2>2 DEF IgnoredIn, longer
<1> QED
  BY <1>2, <1>3 DEF more

LEMMA IgnoredBoth ==
  ASSUME NEW out \in Seq(OutEntry), NEW ignored \in Seq(Sids), IgnoredIn(out, ignored),
         NEW next \in Seq(OutEntry), NEW more \in Seq(Sids), IgnoredIn(next, more)
  PROVE  IgnoredIn(out \o next, ignored \o more)
<1> DEFINE both == out \o next
           bothIgnored == ignored \o more
<1>1. /\ Len(out) \in Nat /\ Len(next) \in Nat /\ Len(both) = Len(out) + Len(next)
      /\ \A i \in 1 .. Len(out) : i \in 1 .. Len(both) /\ both[i] = out[i]
      /\ \A i \in 1 .. Len(next) : Len(out) + i \in 1 .. Len(both) /\ both[Len(out) + i] = next[i]
  OBVIOUS
<1>2. /\ Len(ignored) \in Nat /\ Len(more) \in Nat /\ Len(bothIgnored) = Len(ignored) + Len(more)
      /\ \A i \in 1 .. Len(ignored) : bothIgnored[i] = ignored[i]
      /\ \A i \in 1 .. Len(more) : bothIgnored[Len(ignored) + i] = more[i]
  OBVIOUS
<1> HIDE DEF both, bothIgnored
<1>3. ASSUME NEW i \in 1 .. Len(bothIgnored)
      PROVE  \E k \in 1 .. Len(both) : both[k] = HashOf[bothIgnored[i]]
  <2>1. CASE i \in 1 .. Len(ignored)
    <3> PICK k \in 1 .. Len(out) : out[k] = HashOf[ignored[i]]
      BY <2>1 DEF IgnoredIn
    <3> QED
      BY <1>1, <1>2, <2>1
  <2>2. CASE i \notin 1 .. Len(ignored)
    <3>1. i - Len(ignored) \in 1 .. Len(more) /\ Len(ignored) + (i - Len(ignored)) = i
      BY <1>2, <2>2
    <3>2. PICK k \in 1 .. Len(next) : next[k] = HashOf[more[i - Len(ignored)]]
      BY <3>1 DEF IgnoredIn
    <3>3. bothIgnored[i] = more[i - Len(ignored)]
      BY <1>2, <3>1
    <3> QED
      BY <1>1, <3>2, <3>3
  <2> QED
    BY <2>1, <2>2
<1> QED
  BY <1>3 DEF IgnoredIn, both, bothIgnored

-----------------------------------------------------------------------------
(* The steps of the service, and those of a worker.                         *)

LEMMA NewWorkerOK ==
  /\ NewWorker \in WorkerType
  /\ \A wereOld : WorkerAge(NewWorker, wereOld)
  /\ NewWorker.pc = "idle"
<1>1. <<>> \in Seq(Hashes) /\ <<>> \in Seq(OutEntry) /\ <<>> \in Seq(Sids)
  OBVIOUS
<1>2. Len(<<>>) = 0
  OBVIOUS
<1>3. NewWorker \in WorkerType
  BY <1>1 DEF NewWorker, WorkerType
<1> QED
  BY <1>2, <1>3 DEF NewWorker, WorkerAge

LEMMA InitOK == Init => IInv
<1> SUFFICES ASSUME Init PROVE IInv
  OBVIOUS
<1>1. <<>> \in Seq(Hashes) /\ <<>> \in Seq(OutEntry) /\ <<>> \in Seq(Sids)
  OBVIOUS
<1>2. task \in TaskType /\ task.pc = "idle"
  BY <1>1 DEF Init, TaskType
<1>3. kept \in KeptType /\ ~kept.held /\ ~kept.same
  BY <1>1 DEF Init, KeptType, Nothing
<1>4. \A w \in Workers : worker[w] = NewWorker
  BY DEF Init
<1>5. worker \in [Workers -> WorkerType]
  BY <1>4, NewWorkerOK DEF Init
<1>6. TypeOK
  BY <1>2, <1>3, <1>5, BlockCompressionAssumption DEF Init, TypeOK
<1>7. Progress
  BY <1>2, <1>4, NewWorkerOK DEF Progress, AllIdle
<1>8. Ages
  BY <1>4, NewWorkerOK DEF Ages
<1>9. Busy
  BY <1>4, NewWorkerOK DEF Busy
<1> QED
  BY <1>3, <1>6, <1>7, <1>8, <1>9 DEF IInv, KeptApart

\* What the proofs read off TypeOK.
LEMMA WorkerFields ==
  ASSUME TypeOK, NEW w \in Workers
  PROVE  /\ worker[w] \in WorkerType
         /\ worker[w].todo \in Seq(Hashes) /\ worker[w].out \in Seq(OutEntry)
         /\ worker[w].shortIds \in Seq(Sids) /\ worker[w].ignored \in Seq(Sids)
         /\ Len(worker[w].todo) \in Nat /\ Len(worker[w].out) \in Nat
<1>1. worker[w] \in WorkerType
  BY DEF TypeOK
<1>2. /\ worker[w].todo \in Seq(Hashes) /\ worker[w].out \in Seq(OutEntry)
      /\ worker[w].shortIds \in Seq(Sids) /\ worker[w].ignored \in Seq(Sids)
  BY <1>1 DEF WorkerType
<1> QED
  BY <1>1, <1>2

LEMMA TaskFields ==
  ASSUME TypeOK
  PROVE  /\ task.block \in Seq(Hashes) /\ task.out \in Seq(OutEntry)
         /\ task.shortIds \in Seq(Sids) /\ task.ignored \in Seq(Sids)
         /\ task.count \in Nat /\ task.idx \in Nat
         /\ Len(task.block) \in Nat /\ Len(task.out) \in Nat
<1>1. /\ task.block \in Seq(Hashes) /\ task.out \in Seq(OutEntry)
      /\ task.shortIds \in Seq(Sids) /\ task.ignored \in Seq(Sids)
      /\ task.count \in Nat /\ task.idx \in Nat
  BY DEF TypeOK, TaskType
<1> QED
  BY <1>1

LEMMA WorkersAre == PoolSize \in Nat \ {0} /\ Workers = 0 .. PoolSize - 1 /\ 0 \in Workers
  BY BlockCompressionAssumption DEF Workers

\* The ends of a sub task's segment.
LEMMA CutEnds ==
  ASSUME NEW cut \in Cuts, NEW w \in Workers
  PROVE  /\ w \in Nat /\ w \in 0 .. PoolSize /\ w + 1 \in 0 .. PoolSize
         /\ cut[w] \in Nat /\ cut[w + 1] \in Nat
<1>1. w \in Nat /\ w \in 0 .. PoolSize /\ w + 1 \in 0 .. PoolSize
  BY WorkersAre
<1> QED
  BY <1>1 DEF Cuts

\* An age read stays one while short ids get older.
LEMMA AgeKept ==
  ASSUME NEW r, NEW W, NEW W2, W \subseteq W2, WorkerAge(r, W)
  PROVE  WorkerAge(r, W2)
BY DEF WorkerAge

\* The service changes, or nothing that IInv is about.
LEMMA ServiceStep ==
  ASSUME IInv, UNCHANGED <<task, worker, kept>>, bound' \subseteq Sids,
         old' \subseteq wasOld', wasOld \subseteq wasOld', wasOld' \subseteq Sids
  PROVE  IInv'
<1>1. TypeOK'
  BY DEF IInv, TypeOK
<1>2. Progress'
  BY DEF IInv, Progress, AllIdle, TaskStands, Alone, Collecting, Dispatching, Segments,
         Target, BulkSize, Larger, Smaller
<1>3. Ages'
  BY AgeKept DEF IInv, Ages
<1> QED
  BY <1>1, <1>2, <1>3 DEF IInv, KeptApart, Busy

\* A worker at work takes a step within its segment.
LEMMA WorkerStep ==
  ASSUME IInv, NEW w \in Workers, NEW r \in WorkerType,
         worker[w].pc # "idle", r.pc # "idle", r.pc = "look" \/ r.todo # <<>>, worker' = [worker EXCEPT ![w] = r],
         UNCHANGED <<task, kept, bound, old, wasOld>>,
         \A a, b \in Nat : Segment(task, worker[w], a, b) => Segment(task, r, a, b),
         task.proto = "eth" => WorkerAge(r, wasOld)
  PROVE  IInv'
<1>0. /\ worker'[w] = r
      /\ \A v \in Workers : v # w => worker'[v] = worker[v]
      /\ worker' \in [Workers -> WorkerType]
  BY DEF IInv, TypeOK
<1>1. TypeOK'
  BY <1>0 DEF IInv, TypeOK
<1>2. Ages'
  BY <1>0 DEF IInv, Ages
<1>3. Target' = Target
  BY DEF Target, BulkSize, Larger, Smaller
<1>4. ASSUME NEW cut \in Cuts, NEW i, NEW j, Segments(cut, i, j)
      PROVE  \A v \in Workers : i <= v /\ v <= j /\ worker'[v].pc # "idle" =>
                 Segment(task', worker'[v], cut[v], cut[v + 1])
  <2> SUFFICES ASSUME NEW v \in Workers, i <= v, v <= j, worker'[v].pc # "idle"
               PROVE  Segment(task', worker'[v], cut[v], cut[v + 1])
    OBVIOUS
  <2>1. cut[v] \in Nat /\ cut[v + 1] \in Nat
    BY WorkersAre DEF Cuts
  <2>2. CASE v = w
    BY <1>0, <1>4, <2>1, <2>2 DEF Segments
  <2>3. CASE v # w
    BY <1>0, <1>4, <2>3 DEF Segments
  <2> QED
    BY <2>2, <2>3
<1>5. Progress'
  <2>1. task.pc \notin {"idle", "done"}
    BY DEF IInv, Progress, AllIdle
  <2>2. CASE task.pc = "dispatch" /\ task.proto \in Split
    <3> PICK cut \in Cuts : Dispatching(cut)
      BY <2>2 DEF IInv, Progress
    <3>1. w # task.idx /\ ~(w >= task.idx)
      BY WorkersAre DEF Dispatching
    <3>2. Dispatching(cut)'
      <4>1. \A v \in Workers : 0 <= v /\ v <= task.idx - 1 /\ worker'[v].pc # "idle" =>
                 Segment(task', worker'[v], cut[v], cut[v + 1])
        BY <1>4 DEF Dispatching
      <4>2. /\ worker'[task.idx] = worker[task.idx]
            /\ \A v \in Workers : v >= task.idx => worker'[v].pc = "idle"
            /\ \A v \in Workers : v > task.idx => worker'[v].todo = <<>>
        BY <1>0, <3>1 DEF Dispatching, Workers
      <4> QED
        BY <1>3, <4>1, <4>2 DEF Dispatching, Segments
    <3> QED
      BY <2>2, <3>2 DEF Progress
  <2>3. CASE task.pc = "dispatch" /\ task.proto \notin Split
    <3>1. w = 0 /\ Segment(task, worker[0], 0, Len(task.block))
      BY <2>3 DEF IInv, Progress, Alone, AllIdle
    <3>2. Segment(task, r, 0, Len(task.block))
      BY <3>1, TaskFields DEF IInv
    <3>3. Alone'
      BY <1>0, <2>3, <3>1, <3>2 DEF IInv, Progress, Alone, AllIdle
    <3> QED
      BY <2>3, <3>3 DEF Progress
  <2>4. CASE task.pc = "collect"
    <3> PICK cut \in Cuts : Collecting(cut)
      BY <2>4 DEF IInv, Progress
    <3>1. ~(w < task.idx \/ w > task.count)
      BY DEF Collecting, AllIdle
    <3>2. Collecting(cut)'
      <4>1. \A v \in Workers : task.idx <= v /\ v <= task.count /\ worker'[v].pc # "idle" =>
                 Segment(task', worker'[v], cut[v], cut[v + 1])
        BY <1>4 DEF Collecting
      <4>2. \A v \in {u \in Workers : u < task.idx \/ u > task.count} : worker'[v].pc = "idle"
        BY <1>0, <3>1 DEF Collecting, AllIdle
      <4>3. TaskStands'
        BY DEF Collecting, TaskStands
      <4> QED
        BY <4>1, <4>2, <4>3 DEF Collecting, Segments, AllIdle
    <3> QED
      BY <2>4, <3>2 DEF IInv, Progress
  <2>5. CASE task.pc = "failed"
    BY <2>5 DEF Progress
  <2> QED
    BY <2>1, <2>2, <2>3, <2>4, <2>5 DEF IInv, TypeOK, TaskType
<1>6. Busy'
  BY <1>0 DEF IInv, Busy
<1> QED
  BY <1>1, <1>2, <1>5, <1>6 DEF IInv, KeptApart

\* The first of the offsets is the next transaction of the segment.
LEMMA RemainsTail ==
  ASSUME NEW todo \in Seq(Hashes), todo # <<>>
  PROVE  /\ Head(todo) \in Hashes /\ Tail(todo) \in Seq(Hashes)
         /\ Len(todo) \in Nat \ {0} /\ Len(Tail(todo)) = Len(todo) - 1
         /\ \A block \in Seq(Hashes), b \in Nat : Remains(todo, block, b) =>
               Head(todo) = block[(b - Len(todo)) + 1] /\ Remains(Tail(todo), block, b)
<1>1. /\ Head(todo) \in Hashes /\ Tail(todo) \in Seq(Hashes)
      /\ Len(todo) \in Nat \ {0} /\ Len(Tail(todo)) = Len(todo) - 1
      /\ Head(todo) = todo[1] /\ \A k \in 1 .. Len(Tail(todo)) : Tail(todo)[k] = todo[k + 1]
  OBVIOUS
<1>2. ASSUME NEW block \in Seq(Hashes), NEW b \in Nat, Remains(todo, block, b)
      PROVE  Head(todo) = block[(b - Len(todo)) + 1] /\ Remains(Tail(todo), block, b)
  <2> DEFINE n == Len(todo)
             rest == Tail(todo)
  <2>1. n \in Nat \ {0} /\ Len(rest) = n - 1 /\ \A k \in 1 .. (n - 1) : rest[k] = todo[k + 1]
    BY <1>1
  <2>2. n <= b /\ b <= Len(block) /\ \A k \in 1 .. n : todo[k] = block[(b - n) + k]
    BY <1>2 DEF Remains
  <2>3. ASSUME NEW k \in 1 .. (n - 1) PROVE rest[k] = block[(b - (n - 1)) + k]
    <3>1. k + 1 \in 1 .. n /\ (b - n) + (k + 1) = (b - (n - 1)) + k
      BY <2>1, <2>2
    <3> QED
      BY <2>1, <2>2, <3>1
  <2>4. 1 \in 1 .. n /\ Len(rest) <= b
    BY <2>1, <2>2
  <2> QED
    BY <1>1, <2>1, <2>2, <2>3, <2>4 DEF Remains
<1> QED
  BY <1>1, <1>2

\* The first of the offsets is the transaction after those in the output.
LEMMA SegmentHead ==
  ASSUME NEW t \in TaskType, NEW r \in WorkerType, NEW a \in Nat, NEW b \in Nat,
         Segment(t, r, a, b), r.todo # <<>>
  PROVE  /\ Head(r.todo) \in Hashes /\ Len(Tail(r.todo)) = Len(r.todo) - 1
         /\ (a + Len(r.out)) + 1 <= Len(t.block)
         /\ Head(r.todo) = t.block[(a + Len(r.out)) + 1]
         /\ Remains(Tail(r.todo), t.block, b)
         /\ Len(r.todo) \in Nat
<1>1. r.todo \in Seq(Hashes) /\ r.out \in Seq(OutEntry) /\ t.block \in Seq(Hashes)
  BY DEF WorkerType, TaskType
<1>2. Len(r.out) \in Nat /\ Len(t.block) \in Nat
  BY <1>1
<1>3. Remains(r.todo, t.block, b) /\ (a + Len(r.out)) + Len(r.todo) = b /\ b <= Len(t.block)
  BY DEF Segment, Remains
<1>4. /\ Head(r.todo) \in Hashes /\ Len(r.todo) \in Nat \ {0} /\ Len(Tail(r.todo)) = Len(r.todo) - 1
      /\ Head(r.todo) = t.block[(b - Len(r.todo)) + 1] /\ Remains(Tail(r.todo), t.block, b)
  BY <1>1, <1>3, RemainsTail
<1>5. \A x, y, z, c \in Nat : y # 0 /\ (a + x) + y = b /\ b <= c =>
         (a + x) + 1 = (b - y) + 1 /\ (a + x) + 1 <= c
  OBVIOUS
<1>6. /\ (a + Len(r.out)) + 1 = (b - Len(r.todo)) + 1
      /\ (a + Len(r.out)) + 1 <= Len(t.block)
  BY <1>2, <1>3, <1>4, <1>5
<1> QED
  BY <1>4, <1>6

\* A worker is done with a transaction: it is written in full, or a flag and a
\* short id of its own are.
LEMMA SegmentStep ==
  ASSUME NEW t \in TaskType, NEW r \in WorkerType, NEW a \in Nat, NEW b \in Nat,
         Segment(t, r, a, b), r.todo # <<>>
  PROVE  \A q \in WorkerType :
            /\ q.todo = Tail(r.todo)
            /\ \/ /\ q.out = Append(r.out, Head(r.todo)) /\ q.shortIds = r.shortIds
                  /\ \/ q.ignored = r.ignored
                     \/ \E s \in Sids : HashOf[s] = Head(r.todo) /\ q.ignored = Append(r.ignored, s)
               \/ /\ q.out = Append(r.out, Flag) /\ q.ignored = r.ignored
                  /\ \E s \in Sids : HashOf[s] = Head(r.todo) /\ q.shortIds = Append(r.shortIds, s)
            => Segment(t, q, a, b)
<1> DEFINE n == Len(r.out)
           h == Head(r.todo)
<1>1. /\ r.todo \in Seq(Hashes) /\ r.out \in Seq(OutEntry) /\ r.shortIds \in Seq(Sids)
      /\ r.ignored \in Seq(Sids) /\ t.block \in Seq(Hashes)
  BY DEF WorkerType, TaskType
<1>2. n \in Nat /\ Len(t.block) \in Nat
  BY <1>1
<1>3. /\ h \in Hashes /\ Len(Tail(r.todo)) = Len(r.todo) - 1
      /\ (a + n) + 1 <= Len(t.block) /\ h = t.block[(a + n) + 1]
      /\ Remains(Tail(r.todo), t.block, b) /\ Len(r.todo) \in Nat
  BY SegmentHead
<1>4. h \in OutEntry /\ Flag \in OutEntry
  BY <1>3 DEF OutEntry
<1>5. /\ Len(Append(r.out, h)) = n + 1 /\ Len(Append(r.out, Flag)) = n + 1
  BY <1>1, <1>4
<1> DEFINE m == Len(r.todo)
<1>0. a + (n + 1) + (m - 1) = b
  <2>1. a + n + m = b /\ m \in Nat
    BY <1>3 DEF Segment
  <2> HIDE DEF n, m
  <2> QED
    BY <1>2, <2>1
<1>6. /\ Stands(Append(r.out, h), r.shortIds, t.block, a)
      /\ \A s \in Sids : HashOf[s] = h => Stands(Append(r.out, Flag), Append(r.shortIds, s), t.block, a)
  <2>1. Stands(r.out, r.shortIds, t.block, a)
    BY DEF Segment
  <2> HIDE DEF h
  <2> QED
    BY <1>1, <1>3, <2>1, StandsFull, StandsFlag
<1>7. ASSUME t.proto \in {"ont", "eth"}
      PROVE  /\ IgnoredIn(Append(r.out, h), r.ignored) /\ IgnoredIn(Append(r.out, Flag), r.ignored)
             /\ \A s \in Sids : HashOf[s] = h => IgnoredIn(Append(r.out, h), Append(r.ignored, s))
  <2>1. IgnoredIn(r.out, r.ignored)
    BY <1>7 DEF Segment
  <2> HIDE DEF h
  <2> QED
    BY <1>1, <1>4, <2>1, IgnoredAppend
<1> HIDE DEF n, h
<1> SUFFICES ASSUME NEW q \in WorkerType, q.todo = Tail(r.todo),
                    \/ /\ q.out = Append(r.out, h) /\ q.shortIds = r.shortIds
                       /\ \/ q.ignored = r.ignored
                          \/ \E s \in Sids : HashOf[s] = h /\ q.ignored = Append(r.ignored, s)
                    \/ /\ q.out = Append(r.out, Flag) /\ q.ignored = r.ignored
                       /\ \E s \in Sids : HashOf[s] = h /\ q.shortIds = Append(r.shortIds, s)
             PROVE  Segment(t, q, a, b)
  BY Zenon DEF h
<1>8. Stands(q.out, q.shortIds, t.block, a)
  BY <1>6, Zenon
<1>9. t.proto \in {"ont", "eth"} => IgnoredIn(q.out, q.ignored)
  BY <1>7, Zenon
<1>10. a + Len(q.out) + Len(q.todo) = b
  BY <1>0, <1>3, <1>5, Zenon
<1> QED
  BY <1>3, <1>8, <1>9, <1>10, Zenon DEF Segment

LEMMA PcOnly ==
  ASSUME NEW r \in WorkerType, NEW p
  PROVE  [r EXCEPT !.pc = p] = [r EXCEPT !.pc = p, !.ready = r.ready]
BY DEF WorkerType

\* The short ids of a transaction.
LEMMA SidsOfAre ==
  ASSUME TypeOK, NEW h
  PROVE  \A s \in SidsOf(h) : s \in Sids /\ s \in bound /\ HashOf[s] = h
BY DEF SidsOf, TypeOK

\* The records that a worker becomes when it is done with a transaction.
LEMMA Records ==
  ASSUME NEW r \in WorkerType, r.todo # <<>>, NEW e \in OutEntry, NEW s \in Sids
  PROVE  /\ LET q == Advance([r EXCEPT !.out = Append(r.out, e)]) IN
            /\ q \in WorkerType /\ q.pc = "look" /\ q.todo = Tail(r.todo)
            /\ q.out = Append(r.out, e) /\ q.shortIds = r.shortIds /\ q.ignored = r.ignored
         /\ LET q == TakeShortId(r, s) IN
            /\ q \in WorkerType /\ q.pc = "look" /\ q.todo = Tail(r.todo)
            /\ q.out = Append(r.out, Flag) /\ q.shortIds = Append(r.shortIds, s)
            /\ q.ignored = r.ignored
         /\ LET q == IgnoreShortId(r, s) IN
            /\ q \in WorkerType /\ q.pc = "look" /\ q.todo = Tail(r.todo)
            /\ q.out = Append(r.out, Head(r.todo)) /\ q.shortIds = r.shortIds
            /\ q.ignored = Append(r.ignored, s)
<1>1. /\ r.todo \in Seq(Hashes) /\ r.out \in Seq(OutEntry) /\ r.shortIds \in Seq(Sids)
      /\ r.ignored \in Seq(Sids)
  BY DEF WorkerType
<1>2. Tail(r.todo) \in Seq(Hashes) /\ Head(r.todo) \in Hashes
  BY <1>1, RemainsTail
<1>3. Head(r.todo) \in OutEntry /\ Flag \in OutEntry
  BY <1>2 DEF OutEntry
<1>4. /\ Append(r.out, e) \in Seq(OutEntry) /\ Append(r.out, Flag) \in Seq(OutEntry)
      /\ Append(r.out, Head(r.todo)) \in Seq(OutEntry)
      /\ Append(r.shortIds, s) \in Seq(Sids) /\ Append(r.ignored, s) \in Seq(Sids)
  BY <1>1, <1>3
<1> QED
  BY <1>2, <1>4 DEF WorkerType, Advance, TakeShortId, IgnoreShortId

\* The parts of WorkerStep that are about the record of the worker.
LEMMA GoesOn ==
  ASSUME IInv, NEW w \in Workers, NEW p \in {"look", "age", "again", "decide", "take", "ignore"},
         NEW y \in BOOLEAN, worker[w].pc # "idle", p = "look" \/ worker[w].todo # <<>>,
         worker' = [worker EXCEPT ![w] = [worker[w] EXCEPT !.pc = p, !.ready = y]],
         UNCHANGED <<task, kept, bound, old, wasOld>>,
         task.proto = "eth" =>
            /\ p # "again" /\ (p = "take" => y)
            /\ p \in {"decide", "take"} /\ y => \E s \in wasOld : HashOf[s] = Current(w)
  PROVE  IInv'
<1>1. worker[w] \in WorkerType
  BY WorkerFields DEF IInv
<1>0. PICK q : q = [worker[w] EXCEPT !.pc = p, !.ready = y]
  OBVIOUS
<1>2. q \in WorkerType
  BY <1>0, <1>1 DEF WorkerType
<1>3. /\ q.pc = p /\ q.ready = y /\ q.todo = worker[w].todo /\ q.shortIds = worker[w].shortIds
      /\ \A a, b \in Nat : Segment(task, worker[w], a, b) => Segment(task, q, a, b)
  <2>1. /\ q.pc = p /\ q.ready = y /\ q.todo = worker[w].todo /\ q.shortIds = worker[w].shortIds
        /\ q.out = worker[w].out /\ q.ignored = worker[w].ignored
    BY <1>0, <1>1 DEF WorkerType
  <2> QED
    BY <2>1 DEF Segment
<1>4. task.proto = "eth" => WorkerAge(q, wasOld)
  <2> SUFFICES ASSUME task.proto = "eth" PROVE WorkerAge(q, wasOld)
    OBVIOUS
  <2>1. WorkerAge(worker[w], wasOld)
    BY DEF IInv, Ages
  <2> QED
    BY <1>3, <2>1 DEF WorkerAge, Current
<1>5. worker' = [worker EXCEPT ![w] = q] /\ q.pc # "idle"
  BY <1>0, <1>3
<1> QED
  BY <1>2, <1>3, <1>4, <1>5, WorkerStep

\* A worker is done with a transaction, its own short ids apart.
LEMMA Writes ==
  ASSUME IInv, NEW w \in Workers, NEW q \in WorkerType, worker[w].pc # "idle", worker[w].todo # <<>>,
         q.pc = "look", q.todo = Tail(worker[w].todo),
         worker' = [worker EXCEPT ![w] = q], UNCHANGED <<task, kept, bound, old, wasOld>>,
         \/ /\ q.out = Append(worker[w].out, Current(w)) /\ q.shortIds = worker[w].shortIds
            /\ \/ q.ignored = worker[w].ignored
               \/ \E s \in Sids : HashOf[s] = Current(w) /\ q.ignored = Append(worker[w].ignored, s)
         \/ /\ q.out = Append(worker[w].out, Flag) /\ q.ignored = worker[w].ignored
            /\ worker[w].pc = "take"
            /\ \E s \in Sids : HashOf[s] = Current(w) /\ q.shortIds = Append(worker[w].shortIds, s)
  PROVE  IInv'
<1>1. worker[w] \in WorkerType /\ worker[w].shortIds \in Seq(Sids) /\ task \in TaskType
  BY WorkerFields DEF IInv, TypeOK
<1>2. \A a, b \in Nat : Segment(task, worker[w], a, b) => Segment(task, q, a, b)
  BY <1>1, SegmentStep DEF Current
<1>3. ASSUME task.proto = "eth" PROVE WorkerAge(q, wasOld)
  <2>1. WorkerAge(worker[w], wasOld)
    BY <1>3 DEF IInv, Ages
  <2>2. CASE q.shortIds = worker[w].shortIds
    BY <2>1, <2>2 DEF WorkerAge
  <2>3. CASE /\ worker[w].pc = "take"
             /\ \E s \in Sids : HashOf[s] = Current(w) /\ q.shortIds = Append(worker[w].shortIds, s)
    <3> PICK s \in Sids : HashOf[s] = Current(w) /\ q.shortIds = Append(worker[w].shortIds, s)
      BY <2>3
    <3>1. PICK o \in wasOld : HashOf[o] = HashOf[s]
      BY <2>1, <2>3 DEF WorkerAge, Current
    <3>2. OnlySid(s) => s \in wasOld
      BY <3>1 DEF OnlySid, IInv, TypeOK
    <3> DEFINE n == Len(worker[w].shortIds)
    <3>3. /\ n \in Nat /\ Len(q.shortIds) = n + 1 /\ q.shortIds[n + 1] = s
          /\ \A i \in 1 .. n : q.shortIds[i] = worker[w].shortIds[i]
      BY <1>1
    <3>4. \A i \in 1 .. n : OnlySid(worker[w].shortIds[i]) => worker[w].shortIds[i] \in wasOld
      BY <2>1 DEF WorkerAge
    <3> HIDE DEF n
    <3>5. \A i \in 1 .. Len(q.shortIds) : i = n + 1 \/ i \in 1 .. n
      BY <3>3
    <3> QED
      BY <3>2, <3>3, <3>4, <3>5 DEF WorkerAge
  <2> QED
    BY <2>2, <2>3
<1> QED
  BY <1>2, <1>3, WorkerStep

LEMMA CrashStep ==
  ASSUME IInv, UNCHANGED <<task, worker, kept, bound, old, wasOld>>
  PROVE  IInv'
BY ServiceStep DEF IInv, TypeOK

LEMMA LookOK ==
  ASSUME IInv, NEW w \in Workers, task.proto # "eth", Look(w)
  PROVE  IInv'
<1> DEFINE p == IF SidsOf(Current(w)) # {} THEN "age" ELSE "again"
<1>1. /\ p \in {"look", "age", "again", "decide", "take", "ignore"}
      /\ worker[w].pc # "idle" /\ worker[w].todo # <<>>
      /\ worker' = [worker EXCEPT ![w] = [worker[w] EXCEPT !.pc = p, !.ready = TRUE]]
      /\ UNCHANGED <<task, kept, bound, old, wasOld>>
  BY DEF Look, Becomes
<1> HIDE DEF p
<1> QED
  BY <1>1, GoesOn

\* A transaction written in full, without its short ids.
LEMMA CopyOK ==
  ASSUME IInv, NEW w \in Workers, worker[w].pc # "idle", worker[w].todo # <<>>,
         Becomes(w, CopiedInFull(w)), UNCHANGED <<task, kept, bound, old, wasOld>>
  PROVE  IInv'
<1>1. worker[w] \in WorkerType
  BY WorkerFields DEF IInv
<1>2. Current(w) \in OutEntry
  BY WorkerFields, RemainsTail DEF IInv, OutEntry, Current
<1>3. PICK q : q = CopiedInFull(w)
  OBVIOUS
<1>4. /\ q \in WorkerType /\ q.pc = "look" /\ q.todo = Tail(worker[w].todo)
      /\ q.out = Append(worker[w].out, Current(w)) /\ q.shortIds = worker[w].shortIds
      /\ q.ignored = worker[w].ignored
  <2>1. q = Advance([worker[w] EXCEPT !.out = Append(worker[w].out, Current(w))])
    BY <1>3 DEF CopiedInFull
  <2>2. /\ worker[w].todo \in Seq(Hashes) /\ worker[w].out \in Seq(OutEntry)
        /\ Tail(worker[w].todo) \in Seq(Hashes)
    BY WorkerFields, RemainsTail DEF IInv
  <2>3. Append(worker[w].out, Current(w)) \in Seq(OutEntry)
    BY <1>2, <2>2
  <2> HIDE DEF Current
  <2> QED
    BY <1>1, <2>1, <2>2, <2>3 DEF Advance, WorkerType
<1>5. worker' = [worker EXCEPT ![w] = q]
  BY <1>3 DEF Becomes
<1> QED
  BY <1>4, <1>5, Writes

LEMMA LookOnceOK ==
  ASSUME IInv, NEW w \in Workers, LookOnce(w)
  PROVE  IInv'
<1>1. /\ worker[w].pc = "look" /\ worker[w].todo # <<>>
      /\ UNCHANGED <<task, kept, bound, old, wasOld>>
  BY DEF LookOnce
<1>2. CASE SidsOf(Current(w)) = {}
  <2>1. Becomes(w, CopiedInFull(w))
    BY <1>2 DEF LookOnce
  <2> QED
    BY <1>1, <2>1, CopyOK
<1>3. CASE SidsOf(Current(w)) # {}
  <2>1. worker' = [worker EXCEPT ![w] = [worker[w] EXCEPT !.pc = "age"]]
    BY <1>3 DEF LookOnce, Becomes
  <2>2. worker[w] \in WorkerType /\ worker[w].ready \in BOOLEAN
    BY WorkerFields DEF IInv, WorkerType
  <2>3. worker' = [worker EXCEPT ![w] = [worker[w] EXCEPT !.pc = "age", !.ready = worker[w].ready]]
    BY <2>1, <2>2, PcOnly
  <2> QED
    BY <1>1, <2>2, <2>3, GoesOn
<1> QED
  BY <1>2, <1>3

LEMMA ReadAgeOK ==
  ASSUME IInv, NEW w \in Workers, NEW next \in {"again", "decide"}, ReadAge(w, next),
         task.proto = "eth" => next = "decide"
  PROVE  IInv'
<1>1. UNCHANGED <<task, kept, bound, old, wasOld>> /\ worker[w].pc = "age"
  BY DEF ReadAge
<1>2. CASE UNCHANGED worker
  BY <1>1, <1>2, CrashStep
<1>3. CASE \E s \in SidsOf(Current(w)) :
              Becomes(w, [worker[w] EXCEPT !.pc = next, !.ready = s \in old])
  <2>1. PICK s \in SidsOf(Current(w)) :
              worker' = [worker EXCEPT ![w] = [worker[w] EXCEPT !.pc = next, !.ready = s \in old]]
    BY <1>3 DEF Becomes
  <2>2. PICK y \in BOOLEAN : y = (s \in old)
    <3>1. CASE s \in old
      BY <3>1, (s \in old) = TRUE
    <3>2. CASE s \notin old
      BY <3>2, (s \in old) = FALSE
    <3> QED
      BY <3>1, <3>2
  <2>3. worker' = [worker EXCEPT ![w] = [worker[w] EXCEPT !.pc = next, !.ready = y]]
    BY <2>1, <2>2
  <2>4. worker[w].todo # <<>>
    BY <1>1 DEF IInv, Busy
  <2>5. HashOf[s] = Current(w) /\ (y => s \in wasOld)
    BY <2>2, SidsOfAre DEF IInv, TypeOK
  <2> QED
    BY <1>1, <2>3, <2>4, <2>5, GoesOn
<1> QED
  BY <1>2, <1>3 DEF ReadAge

\* The decision between the short id and the full transaction.
LEMMA UseOK ==
  ASSUME IInv, NEW w \in Workers, worker[w].pc \in {"again", "decide"},
         Becomes(w, [worker[w] EXCEPT !.pc = Use(w)]), UNCHANGED <<task, kept, bound, old, wasOld>>,
         task.proto = "eth" => worker[w].pc = "decide"
  PROVE  IInv'
<1>1. Use(w) \in {"take", "ignore"} /\ (Use(w) = "take" => worker[w].ready)
  BY DEF Use
<1>2. worker[w] \in WorkerType /\ worker[w].ready \in BOOLEAN /\ worker[w].todo # <<>>
  BY WorkerFields DEF IInv, WorkerType, Busy
<1>3. worker' = [worker EXCEPT ![w] = [worker[w] EXCEPT !.pc = Use(w), !.ready = worker[w].ready]]
  BY <1>2, PcOnly DEF Becomes
<1>4. task.proto = "eth" /\ worker[w].ready => \E s \in wasOld : HashOf[s] = Current(w)
  BY DEF IInv, Ages, WorkerAge, Current
<1>5. PICK p : p = Use(w)
  OBVIOUS
<1> QED
  BY <1>1, <1>2, <1>3, <1>4, <1>5, GoesOn

LEMMA LookAgainOK ==
  ASSUME IInv, NEW w \in Workers, task.proto # "eth", LookAgain(w)
  PROVE  IInv'
<1>1. /\ worker[w].pc = "again" /\ worker[w].todo # <<>>
      /\ UNCHANGED <<task, kept, bound, old, wasOld>>
  BY DEF LookAgain, IInv, Busy
<1>2. CASE SidsOf(Current(w)) = {}
  <2>1. Becomes(w, CopiedInFull(w))
    BY <1>2 DEF LookAgain
  <2> QED
    BY <1>1, <2>1, CopyOK
<1>3. CASE SidsOf(Current(w)) # {}
  <2>1. Becomes(w, [worker[w] EXCEPT !.pc = Use(w)])
    BY <1>3 DEF LookAgain
  <2> QED
    BY <1>1, <2>1, UseOK
<1> QED
  BY <1>2, <1>3

LEMMA DecideOK ==
  ASSUME IInv, NEW w \in Workers, Decide(w)
  PROVE  IInv'
BY UseOK DEF Decide

LEMMA WriteOK ==
  ASSUME IInv, NEW w \in Workers, Write(w)
  PROVE  IInv'
<1>1. /\ UNCHANGED <<task, kept, bound, old, wasOld>> /\ worker[w].pc \in {"take", "ignore"}
      /\ worker[w].todo # <<>>
  BY DEF Write, IInv, Busy
<1>2. CASE UNCHANGED worker
  BY <1>1, <1>2, CrashStep
<1>3. CASE \E s \in SidsOf(Current(w)) :
              Becomes(w, IF worker[w].pc = "take" THEN TakeShortId(worker[w], s)
                         ELSE IgnoreShortId(worker[w], s))
  <2>1. PICK s \in SidsOf(Current(w)) :
           worker' = [worker EXCEPT ![w] = IF worker[w].pc = "take" THEN TakeShortId(worker[w], s)
                                           ELSE IgnoreShortId(worker[w], s)]
    BY <1>3 DEF Becomes
  <2>2. s \in Sids /\ HashOf[s] = Current(w)
    BY SidsOfAre DEF IInv
  <2>3. worker[w] \in WorkerType /\ Flag \in OutEntry
    BY WorkerFields DEF IInv, OutEntry
  <2>4. CASE worker[w].pc = "take"
    <3>1. PICK q : q = TakeShortId(worker[w], s)
      OBVIOUS
    <3>2. /\ q \in WorkerType /\ q.pc = "look" /\ q.todo = Tail(worker[w].todo)
          /\ q.out = Append(worker[w].out, Flag) /\ q.shortIds = Append(worker[w].shortIds, s)
          /\ q.ignored = worker[w].ignored
      BY <1>1, <2>2, <2>3, <3>1, Records
    <3>3. worker' = [worker EXCEPT ![w] = q]
      BY <2>1, <2>4, <3>1
    <3> QED
      BY <1>1, <2>2, <2>4, <3>2, <3>3, Writes
  <2>5. CASE worker[w].pc = "ignore"
    <3>1. PICK q : q = IgnoreShortId(worker[w], s)
      OBVIOUS
    <3>2. /\ q \in WorkerType /\ q.pc = "look" /\ q.todo = Tail(worker[w].todo)
          /\ q.out = Append(worker[w].out, Current(w)) /\ q.shortIds = worker[w].shortIds
          /\ q.ignored = Append(worker[w].ignored, s)
      BY <1>1, <2>2, <2>3, <3>1, Records DEF Current
    <3>3. worker' = [worker EXCEPT ![w] = q]
      BY <2>1, <2>5, <3>1
    <3> QED
      BY <1>1, <2>2, <3>2, <3>3, Writes
  <2> QED
    BY <1>1, <2>4, <2>5
<1> QED
  BY <1>2, <1>3 DEF Write

-----------------------------------------------------------------------------
(* The steps of the task.                                                   *)

LEMMA Division ==
  ASSUME NEW n \in Nat, NEW size \in Nat \ {0}
  PROVE  n \div size \in Nat /\ n \div size <= (n + 1) \div size
OBVIOUS

\* The sub task of a position of a block, as Target has it.
TargetOf(block, n) ==
    Smaller(n \div Larger(Len(block) \div PoolSize, Larger(PoolSize, MinimalTx)), PoolSize - 1)

LEMMA TargetIs == Target = TargetOf(task.block, task.count) /\ Target' = TargetOf(task'.block, task'.count)
BY DEF Target, TargetOf, BulkSize

LEMMA Targets ==
  ASSUME NEW block \in Seq(Hashes), NEW n \in Nat
  PROVE  /\ TargetOf(block, n) \in Workers /\ TargetOf(block, n + 1) \in Workers
         /\ TargetOf(block, n) <= TargetOf(block, n + 1)
<1> DEFINE d == Len(block) \div PoolSize
           size == Larger(d, Larger(PoolSize, MinimalTx))
<1>1. PoolSize \in Nat \ {0} /\ MinimalTx \in Nat \ {0} /\ Len(block) \in Nat
  BY BlockCompressionAssumption
<1>2. d \in Nat
  BY <1>1, Division
<1> HIDE DEF d
<1>3. size \in Nat \ {0}
  BY <1>1, <1>2 DEF Larger
<1> HIDE DEF size
<1>4. n \div size \in Nat /\ n \div size <= (n + 1) \div size /\ (n + 1) \div size \in Nat
  BY <1>3, Division
<1>5. PICK x \in Nat, y \in Nat : x = n \div size /\ y = (n + 1) \div size /\ x <= y
  BY <1>4
<1>6. TargetOf(block, n) = Smaller(x, PoolSize - 1) /\ TargetOf(block, n + 1) = Smaller(y, PoolSize - 1)
  BY <1>5 DEF TargetOf, size, d
<1> QED
  BY <1>1, <1>5, <1>6, WorkersAre DEF Smaller

\* The output a caller holds is not that of the next block.
LEMMA OutputOfOK ==
  ASSUME IInv, kept' = OutputOf, task.pc \in {"idle", "done"}
  PROVE  kept' \in KeptType /\ KeptApart'
<1>1. kept \in KeptType /\ KeptApart /\ task.out \in Seq(OutEntry)
  BY TaskFields DEF IInv, TypeOK
<1>2. CASE kept.same
  <2>1. kept.held /\ task.out = kept.taken /\ Buffer = task.out
    BY <1>1, <1>2 DEF KeptApart, Buffer
  <2>2. kept' = [kept EXCEPT !.same = FALSE, !.apart = task.out]
    BY <1>2, <2>1 DEF OutputOf, UseCount
  <2> QED
    BY <1>1, <2>1, <2>2 DEF KeptApart, KeptType
<1>3. CASE ~kept.same
  <2>1. kept' = kept
    BY <1>3 DEF OutputOf, UseCount
  <2> QED
    BY <1>1, <1>3, <2>1 DEF KeptApart
<1> QED
  BY <1>2, <1>3

LEMMA InitTaskIs ==
  ASSUME IInv, NEW b \in Blocks, NEW on \in BOOLEAN, NEW ignored \in Seq(Sids), InitTask(b, on, ignored)
  PROVE  /\ task' \in TaskType /\ task'.pc = "dispatch" /\ task'.proto = task.proto
         /\ task'.block = b /\ task'.count = 0 /\ task'.idx = 0 /\ task'.ignored = ignored
         /\ task'.out = <<>> /\ task'.shortIds = <<>>
         /\ kept' \in KeptType /\ KeptApart'
         /\ AllIdle(Workers) /\ b \in Seq(Hashes)
         /\ UNCHANGED <<bound, old, wasOld>>
<1>1. task \in TaskType
  BY DEF IInv, TypeOK
<1>2. <<>> \in Seq(OutEntry) /\ <<>> \in Seq(Sids)
  OBVIOUS
<1>3. b \in Seq(Hashes)
  BY BlockCompressionAssumption
<1>4. task' = [task EXCEPT !.pc = "dispatch", !.block = b, !.enabled = on,
                           !.count = 0, !.idx = 0, !.out = <<>>, !.shortIds = <<>>,
                           !.ignored = ignored, !.blocks = @ + 1]
  BY DEF InitTask
<1>5. /\ task' \in TaskType /\ task'.pc = "dispatch" /\ task'.proto = task.proto
      /\ task'.block = b /\ task'.count = 0 /\ task'.idx = 0 /\ task'.ignored = ignored
      /\ task'.out = <<>> /\ task'.shortIds = <<>>
  <2>1. task.blocks + 1 \in Nat
    BY <1>1 DEF TaskType
  <2>2. PICK out, sids, more : out = <<>> /\ sids = <<>> /\ more = task.blocks + 1
    OBVIOUS
  <2>3. /\ out \in Seq(OutEntry) /\ sids \in Seq(Sids) /\ more \in Nat
        /\ task' = [task EXCEPT !.pc = "dispatch", !.block = b, !.enabled = on,
                                !.count = 0, !.idx = 0, !.out = out, !.shortIds = sids,
                                !.ignored = ignored, !.blocks = more]
    BY <1>2, <1>4, <2>1, <2>2
  <2> QED
    BY <1>1, <1>3, <2>2, <2>3 DEF TaskType
<1>6. kept' \in KeptType /\ KeptApart'
  BY OutputOfOK DEF InitTask
<1>7. AllIdle(Workers)
  BY DEF IInv, Progress, InitTask
<1> QED
  BY <1>3, <1>5, <1>6, <1>7 DEF InitTask

\* init of a task that splits its block.
LEMMA InitSplitOK ==
  ASSUME IInv, NEW b \in Blocks, NEW on \in BOOLEAN, task.proto \in Split,
         InitTask(b, on, <<>>), ClearOffsets
  PROVE  IInv'
<1>1. /\ task' \in TaskType /\ task'.pc = "dispatch" /\ task'.proto = task.proto
      /\ task'.block = b /\ task'.count = 0 /\ task'.idx = 0
      /\ task'.out = <<>> /\ task'.shortIds = <<>> /\ task'.ignored = <<>>
      /\ kept' \in KeptType /\ KeptApart'
      /\ AllIdle(Workers) /\ b \in Seq(Hashes)
      /\ UNCHANGED <<bound, old, wasOld>>
  <2>1. <<>> \in Seq(Sids)
    OBVIOUS
  <2> QED
    BY <2>1, InitTaskIs
<1>2. \A w \in Workers : worker'[w] = [worker[w] EXCEPT !.todo = <<>>]
  BY DEF ClearOffsets
<1>3. \A w \in Workers : /\ worker'[w] \in WorkerType /\ worker'[w].pc = "idle"
                         /\ worker'[w].todo = <<>>
  <2>1. <<>> \in Seq(Hashes)
    OBVIOUS
  <2> SUFFICES ASSUME NEW w \in Workers
               PROVE  /\ worker'[w] \in WorkerType /\ worker'[w].pc = "idle" /\ worker'[w].todo = <<>>
    OBVIOUS
  <2>2. worker[w] \in WorkerType /\ worker[w].pc = "idle"
    BY <1>1, WorkerFields DEF IInv, AllIdle
  <2> QED
    BY <1>2, <2>1, <2>2 DEF WorkerType
<1>4. worker' \in [Workers -> WorkerType]
  BY <1>3 DEF ClearOffsets
<1>5. TypeOK'
  BY <1>1, <1>4 DEF IInv, TypeOK
<1>6. Busy'
  BY <1>3 DEF Busy
<1>7. Ages'
  BY <1>1, <1>3 DEF Split, Ages
<1>8. PICK cut \in Cuts : cut = [i \in 0 .. PoolSize |-> 0]
  BY DEF Cuts
<1>9. Dispatching(cut)'
  <2>1. /\ cut[0] = 0 /\ cut[1] = 0 /\ 0 + 1 = 1 /\ 0 \in Workers
        /\ \A w \in Workers : ~(0 <= w /\ w <= 0 - 1)
    BY <1>8, WorkersAre
  <2>2. TargetOf(b, 0) \in Workers /\ 0 <= TargetOf(b, 0)
    <3>1. b \in Seq(Hashes) /\ 0 \in Nat
      BY <1>1
    <3>2. TargetOf(b, 0) \in Workers
      BY <3>1, Targets
    <3> QED
      BY <3>2, WorkersAre
  <2>3. Target' = TargetOf(b, 0)
    BY <1>1, TargetIs
  <2>4. Len(<<>>) = 0 /\ Len(b) \in Nat
    BY <1>1
  <2>5. Remains(<<>>, b, 0) /\ 0 <= Len(b)
    BY <2>4 DEF Remains
  <2>6. Segments(cut, 0, task.idx - 1)'
    BY <1>1, <2>1 DEF Segments
  <2> QED
    BY <1>1, <1>3, <2>1, <2>2, <2>3, <2>4, <2>5, <2>6 DEF Dispatching
<1>10. Progress'
  BY <1>1, <1>9 DEF Progress
<1> QED
  BY <1>1, <1>5, <1>6, <1>7, <1>10 DEF IInv

\* A sub task that has just been given its segment.
LEMMA SegmentBegins ==
  ASSUME NEW t \in TaskType, NEW r \in WorkerType, NEW a \in Nat, NEW b \in Nat,
         r.out = <<>>, r.shortIds = <<>>, t.proto \in {"ont", "eth"} => r.ignored = <<>>,
         Remains(r.todo, t.block, b), a + Len(r.todo) = b
  PROVE  Segment(t, r, a, b)
<1>1. Len(<<>>) = 0 /\ r.todo \in Seq(Hashes) /\ t.block \in Seq(Hashes)
  BY DEF WorkerType, TaskType
<1>2. Len(r.todo) \in Nat /\ Len(t.block) \in Nat
  BY <1>1
<1>3. a <= Len(t.block)
  BY <1>2 DEF Remains
<1>4. Stands(<<>>, <<>>, t.block, a)
  BY <1>2, <1>3, StandsEmpty
<1>5. IgnoredIn(<<>>, <<>>)
  BY <1>1 DEF IgnoredIn
<1>6. a + Len(<<>>) + Len(r.todo) = b
  BY <1>1, <1>2
<1> QED
  BY <1>4, <1>5, <1>6 DEF Segment

\* init of a task that works alone.
LEMMA InitAloneOK ==
  ASSUME IInv, NEW b \in Blocks, NEW on \in BOOLEAN, NEW ignored \in Seq(Sids),
         task.proto \notin Split, task.proto \in {"ont", "eth"} => ignored = <<>>,
         InitTask(b, on, ignored), StartAlone(b, ignored)
  PROVE  IInv'
<1>1. /\ task' \in TaskType /\ task'.pc = "dispatch" /\ task'.proto = task.proto
      /\ task'.block = b
      /\ kept' \in KeptType /\ KeptApart'
      /\ AllIdle(Workers) /\ b \in Seq(Hashes)
      /\ UNCHANGED <<bound, old, wasOld>>
  BY InitTaskIs
<1>2. PICK q : q = [NewWorker EXCEPT !.pc = "look", !.todo = b, !.ignored = ignored]
  OBVIOUS
<1>3. /\ q \in WorkerType /\ q.pc = "look" /\ q.todo = b /\ q.out = <<>> /\ q.shortIds = <<>>
      /\ q.ignored = ignored
  <2>1. NewWorker \in WorkerType /\ NewWorker.out = <<>> /\ NewWorker.shortIds = <<>>
    BY NewWorkerOK DEF NewWorker
  <2> QED
    BY <1>1, <1>2, <2>1 DEF WorkerType
<1>4. /\ worker'[0] = q /\ \A w \in Workers : w # 0 => worker'[w] = worker[w]
      /\ worker' \in [Workers -> WorkerType]
  BY <1>2, <1>3, WorkersAre DEF StartAlone, IInv, TypeOK
<1>5. TypeOK'
  BY <1>1, <1>4 DEF IInv, TypeOK
<1>6. Busy'
  BY <1>1, <1>3, <1>4 DEF Busy, AllIdle
<1>7. Ages'
  <2>1. \A wereOld : WorkerAge(q, wereOld)
    <3>1. Len(<<>>) = 0
      OBVIOUS
    <3> QED
      BY <1>3, <3>1 DEF WorkerAge
  <2> QED
    BY <1>1, <1>4, <2>1 DEF IInv, Ages
<1>8. Alone'
  <2>1. Len(b) \in Nat /\ Remains(b, b, Len(b)) /\ 0 + Len(b) = Len(b)
    BY <1>1 DEF Remains
  <2>2. Segment(task', q, 0, Len(b))
    BY <1>1, <1>3, <2>1, SegmentBegins
  <2> QED
    BY <1>1, <1>4, <2>2 DEF Alone, AllIdle
<1>9. Progress'
  BY <1>1, <1>8 DEF Progress
<1> QED
  BY <1>1, <1>5, <1>6, <1>7, <1>9 DEF IInv

\* A sub task is enqueued: it keeps its offsets and begins with nothing.
LEMMA EnqueuedIs ==
  ASSUME NEW ws \in [Workers -> WorkerType], NEW i \in Workers, task.proto \in Split
  PROVE  /\ Enqueued(ws, i) \in [Workers -> WorkerType]
         /\ \A v \in Workers : v # i => Enqueued(ws, i)[v] = ws[v]
         /\ Enqueued(ws, i)[i].pc = "look" /\ Enqueued(ws, i)[i].todo = ws[i].todo
         /\ Enqueued(ws, i)[i].out = <<>> /\ Enqueued(ws, i)[i].shortIds = <<>>
         /\ task.proto \in {"ont", "eth"} => Enqueued(ws, i)[i].ignored = <<>>
<1> DEFINE r == ws[i]
           btc == [r EXCEPT !.pc = "look", !.out = <<>>, !.shortIds = <<>>]
           ont == [r EXCEPT !.pc = "look", !.out = <<>>, !.shortIds = <<>>, !.ignored = <<>>]
<1>1. r \in WorkerType
  OBVIOUS
<1> HIDE DEF r
<1>2. <<>> \in Seq(OutEntry) /\ <<>> \in Seq(Sids)
  OBVIOUS
<1>3. PICK none, noSids : none = <<>> /\ noSids = <<>>
  OBVIOUS
<1>4. /\ btc = [r EXCEPT !.pc = "look", !.out = none, !.shortIds = noSids]
      /\ ont = [r EXCEPT !.pc = "look", !.out = none, !.shortIds = noSids, !.ignored = noSids]
  BY <1>3
<1> HIDE DEF btc, ont
<1>5. /\ btc \in WorkerType /\ btc.pc = "look" /\ btc.todo = r.todo /\ btc.out = <<>> /\ btc.shortIds = <<>>
      /\ ont \in WorkerType /\ ont.pc = "look" /\ ont.todo = r.todo /\ ont.out = <<>> /\ ont.shortIds = <<>>
      /\ ont.ignored = <<>>
  BY <1>1, <1>2, <1>3, <1>4 DEF WorkerType
<1>6. BtcEnqueued(ws, i) = [ws EXCEPT ![i] = btc] /\ OntEnqueued(ws, i) = [ws EXCEPT ![i] = ont]
  BY <1>1 DEF BtcEnqueued, OntEnqueued, btc, ont, r, WorkerType
<1> QED
  BY <1>5, <1>6 DEF Enqueued, Split, r

\* The task record after a step that changes these fields only.
LEMMA TaskBecomes ==
  ASSUME NEW t \in TaskType, NEW pc \in {"idle", "dispatch", "collect", "done", "failed"},
         NEW count \in Nat, NEW idx \in Nat, NEW q,
         q = [t EXCEPT !.pc = pc, !.count = count, !.idx = idx]
  PROVE  /\ q \in TaskType /\ q.pc = pc /\ q.count = count /\ q.idx = idx
         /\ q.proto = t.proto /\ q.block = t.block /\ q.enabled = t.enabled /\ q.out = t.out
         /\ q.shortIds = t.shortIds /\ q.ignored = t.ignored
BY DEF TaskType

\* Another transaction at the end of the offsets.
LEMMA RemainsAppend ==
  ASSUME NEW todo \in Seq(Hashes), NEW block \in Seq(Hashes), NEW n \in Nat, n < Len(block),
         Remains(todo, block, n)
  PROVE  /\ block[n + 1] \in Hashes
         /\ Append(todo, block[n + 1]) \in Seq(Hashes)
         /\ Len(Append(todo, block[n + 1])) = Len(todo) + 1
         /\ Remains(Append(todo, block[n + 1]), block, n + 1)
<1> DEFINE m == Len(todo)
           h == block[n + 1]
           more == Append(todo, h)
<1>1. m \in Nat /\ Len(block) \in Nat /\ n + 1 \in 1 .. Len(block)
  OBVIOUS
<1>2. h \in Hashes
  BY <1>1
<1>3. /\ more \in Seq(Hashes) /\ Len(more) = m + 1 /\ more[m + 1] = h
      /\ \A k \in 1 .. m : more[k] = todo[k]
  BY <1>2
<1>4. m <= n /\ \A k \in 1 .. m : todo[k] = block[(n - m) + k]
  BY DEF Remains
<1> HIDE DEF more, m
<1>5. ASSUME NEW k \in 1 .. (m + 1) PROVE more[k] = block[((n + 1) - (m + 1)) + k]
  <2>1. ((n + 1) - (m + 1)) + k = (n - m) + k /\ (n - m) + (m + 1) = n + 1
    BY <1>1
  <2>2. CASE k = m + 1
    BY <1>3, <2>1, <2>2
  <2>3. CASE k # m + 1
    <3>1. k \in 1 .. m
      BY <1>1, <2>3
    <3> QED
      BY <1>3, <1>4, <2>1, <3>1
  <2> QED
    BY <2>2, <2>3
<1>6. m + 1 <= n + 1 /\ n + 1 <= Len(block)
  BY <1>1, <1>4
<1>7. Remains(more, block, n + 1)
  BY <1>3, <1>5, <1>6 DEF Remains
<1> QED
  BY <1>2, <1>3, <1>7 DEF more, m

\* The next transaction goes to the sub task of the one before.
LEMMA DispatchSame ==
  ASSUME IInv, NEW cut \in Cuts, Dispatching(cut), task.pc = "dispatch", task.proto \in Split,
         DispatchNext, ~(Target > task.idx)
  PROVE  IInv'
<1> DEFINE i == task.idx
           n == task.count
           h == task.block[n + 1]
           more == Append(worker[i].todo, h)
<1>1. /\ i \in Workers /\ n \in Nat /\ i \in Nat /\ n < Len(task.block) /\ Target = i
      /\ task \in TaskType /\ task.block \in Seq(Hashes)
      /\ worker[i] \in WorkerType /\ worker[i].todo \in Seq(Hashes) /\ Len(worker[i].todo) \in Nat
  <2>1. /\ i \in Workers /\ n \in Nat /\ i \in Nat /\ n < Len(task.block)
        /\ task \in TaskType /\ task.block \in Seq(Hashes)
    BY TaskFields DEF IInv, TypeOK, Dispatching, DispatchNext
  <2>2. Target \in Workers /\ i <= Target
    BY <2>1, TargetIs, Targets DEF Dispatching
  <2>3. Target = i
    BY <2>1, <2>2, WorkersAre
  <2> QED
    BY <2>1, <2>3, WorkerFields DEF IInv
<1>2. /\ Remains(worker[i].todo, task.block, n) /\ cut[i] + Len(worker[i].todo) = n
      /\ cut[0] = 0 /\ cut[i + 1] = n
      /\ worker[i].pc = "idle" /\ i + 1 \in 0 .. PoolSize /\ i \in 0 .. PoolSize /\ cut[i] \in Nat
  <2>1. /\ Remains(worker[i].todo, task.block, n) /\ cut[i] + Len(worker[i].todo) = n
        /\ cut[0] = 0 /\ cut[i + 1] = n /\ worker[i].pc = "idle"
    BY <1>1 DEF Dispatching
  <2> QED
    BY <1>1, <2>1, CutEnds
<1>3. more \in Seq(Hashes) /\ Len(more) = Len(worker[i].todo) + 1 /\ Remains(more, task.block, n + 1)
  BY <1>1, <1>2, RemainsAppend
<1>4. worker' = [worker EXCEPT ![i].todo = more]
  BY <1>1 DEF DispatchNext
<1> HIDE DEF more
<1>5. /\ worker' \in [Workers -> WorkerType] /\ worker'[i].todo = more /\ worker'[i].pc = "idle"
      /\ worker'[i].shortIds = worker[i].shortIds
      /\ \A v \in Workers : v # i => worker'[v] = worker[v]
  <2>1. PICK q : q = [worker[i] EXCEPT !.todo = more]
    OBVIOUS
  <2>2. /\ q \in WorkerType /\ q.todo = more /\ q.pc = "idle" /\ q.shortIds = worker[i].shortIds
    BY <1>1, <1>2, <1>3, <2>1 DEF WorkerType
  <2>3. worker' = [worker EXCEPT ![i] = q] /\ worker \in [Workers -> WorkerType]
    BY <1>4, <2>1 DEF IInv, TypeOK
  <2> QED
    BY <1>1, <2>2, <2>3
<1>6. /\ task' \in TaskType /\ task'.pc = "dispatch" /\ task'.count = n + 1 /\ task'.idx = i
      /\ task'.proto = task.proto /\ task'.block = task.block /\ task'.out = task.out
      /\ task'.shortIds = task.shortIds /\ task'.ignored = task.ignored
  <2>1. task' = [task EXCEPT !.count = n + 1, !.idx = i]
    BY <1>1 DEF DispatchNext
  <2>2. PICK c \in Nat : c = n + 1
    BY <1>1
  <2> QED
    BY <1>1, <2>1, <2>2 DEF TaskType
<1>7. UNCHANGED <<bound, old, kept, wasOld>>
  BY DEF DispatchNext
<1>8. TypeOK'
  BY <1>5, <1>6, <1>7 DEF IInv, TypeOK
<1>9. Busy'
  BY <1>5 DEF IInv, Busy
<1>10. Ages'
  BY <1>6 DEF Ages, Split
<1> HIDE DEF i, n
<1>11. PICK next \in Cuts : next = [cut EXCEPT ![i + 1] = n + 1]
  <2>1. n + 1 \in Nat
    BY <1>1
  <2>2. [cut EXCEPT ![i + 1] = n + 1] \in Cuts
    BY <2>1 DEF Cuts
  <2> QED
    BY <2>2
<1>12. /\ next[i + 1] = n + 1 /\ next[0] = 0 /\ next[i] = cut[i]
       /\ \A w \in Workers : w <= i - 1 => next[w] = cut[w] /\ next[w + 1] = cut[w + 1]
  <2>1. \A w \in Workers : w \in 0 .. PoolSize /\ w + 1 \in 0 .. PoolSize
    BY WorkersAre
  <2>2. 0 # i + 1 /\ i # i + 1 /\ 0 \in 0 .. PoolSize
    BY <1>1, WorkersAre
  <2>3. \A w \in Workers : w <= i - 1 => w # i + 1 /\ w + 1 # i + 1
    BY <1>1, WorkersAre
  <2> QED
    BY <1>2, <1>11, <2>1, <2>2, <2>3 DEF Cuts
<1>13. Segments(next, 0, task.idx - 1)'
  <2> SUFFICES ASSUME NEW w \in Workers, 0 <= w, w <= i - 1, worker'[w].pc # "idle"
               PROVE  Segment(task', worker'[w], next[w], next[w + 1])
    BY <1>6 DEF Segments
  <2>1. w # i
    BY <1>1, WorkersAre
  <2>2. Segment(task, worker[w], cut[w], cut[w + 1])
    BY <1>5, <2>1 DEF Dispatching, Segments, i
  <2> QED
    BY <1>5, <1>6, <1>12, <2>1, <2>2 DEF Segment
<1>14. Dispatching(next)'
  <2>1. Target' \in Workers /\ i <= Target'
    <3>1. Target = TargetOf(task.block, n) /\ Target' = TargetOf(task.block, n + 1)
      BY <1>6, TargetIs DEF n
    <3> QED
      BY <1>1, <3>1, Targets
  <2>2. n + 1 <= Len(task.block) /\ cut[i] + Len(more) = n + 1
    <3>1. PICK m \in Nat, l \in Nat, c \in Nat :
             m = Len(worker[i].todo) /\ l = Len(task.block) /\ c = cut[i]
      BY <1>1, <1>2
    <3>2. n \in Nat /\ n < l /\ c + m = n /\ Len(more) = m + 1
      BY <1>1, <1>2, <1>3, <3>1
    <3>3. n + 1 <= l /\ c + (m + 1) = n + 1
      BY <3>2
    <3> QED
      BY <3>1, <3>2, <3>3, Zenon
  <2>3. /\ \A w \in Workers : w >= i => worker'[w].pc = "idle"
        /\ \A w \in Workers : w > i => worker'[w].todo = <<>>
    BY <1>1, <1>5, WorkersAre DEF Dispatching, i
  <2> QED
    BY <1>1, <1>3, <1>5, <1>6, <1>12, <1>13, <2>1, <2>2, <2>3 DEF Dispatching
<1>15. Progress'
  BY <1>6, <1>14 DEF Progress
<1>20. KeptApart'
  BY <1>7, KeptAtWork DEF DispatchNext
<1> QED
  BY <1>20, <1>7, <1>8, <1>9, <1>10, <1>15 DEF IInv

\* The next transaction goes to another sub task; the one before is enqueued.
LEMMA DispatchMove ==
  ASSUME IInv, NEW cut \in Cuts, Dispatching(cut), task.pc = "dispatch", task.proto \in Split,
         DispatchNext, Target > task.idx
  PROVE  IInv'
<1> DEFINE i == task.idx
           j == Target
           n == task.count
           h == task.block[n + 1]
           more == Append(<<>>, h)
           pushed == [worker EXCEPT ![j].todo = Append(@, h)]
<1>1. /\ i \in Workers /\ j \in Workers /\ i < j /\ n \in Nat /\ i \in Nat /\ n < Len(task.block)
      /\ task \in TaskType /\ task.block \in Seq(Hashes) /\ worker \in [Workers -> WorkerType]
      /\ worker[i] \in WorkerType /\ Len(worker[i].todo) \in Nat /\ worker[j] \in WorkerType
  <2>1. /\ i \in Workers /\ n \in Nat /\ i \in Nat /\ n < Len(task.block)
        /\ task \in TaskType /\ task.block \in Seq(Hashes) /\ worker \in [Workers -> WorkerType]
    BY TaskFields DEF IInv, TypeOK, Dispatching, DispatchNext
  <2>2. j \in Workers
    BY <2>1, TargetIs, Targets
  <2>3. i < j
    BY <2>1, <2>2, WorkersAre
  <2> QED
    BY <2>1, <2>2, <2>3, WorkerFields DEF IInv
<1>2. /\ Remains(worker[i].todo, task.block, n) /\ cut[i] + Len(worker[i].todo) = n
      /\ cut[0] = 0 /\ cut[i + 1] = n
      /\ \A w \in Workers : w >= i => worker[w].pc = "idle"
      /\ \A w \in Workers : w > i => worker[w].todo = <<>>
      /\ task.out = <<>> /\ task.shortIds = <<>> /\ task.ignored = <<>>
  BY DEF Dispatching
<1>3. worker[j].todo = <<>> /\ worker[j].pc = "idle" /\ worker[i].pc = "idle"
  BY <1>1, <1>2, WorkersAre
<1>4. /\ more \in Seq(Hashes) /\ Len(more) = 1 /\ Remains(more, task.block, n + 1)
  <2>1. <<>> \in Seq(Hashes) /\ Len(<<>>) = 0 /\ Len(task.block) \in Nat
    BY <1>1
  <2>2. Remains(<<>>, task.block, n)
    BY <1>1, <2>1 DEF Remains
  <2>3. PICK e \in Seq(Hashes) : e = <<>>
    BY <2>1
  <2>4. Remains(e, task.block, n) /\ Len(e) = 0
    BY <2>1, <2>2, <2>3
  <2>5. /\ Append(e, h) \in Seq(Hashes) /\ Len(Append(e, h)) = Len(e) + 1
        /\ Remains(Append(e, h), task.block, n + 1)
    BY <1>1, <2>4, RemainsAppend
  <2>6. Len(Append(e, h)) = 1
    BY <2>4, <2>5
  <2> QED
    BY <2>3, <2>5, <2>6, Zenon
<1> HIDE DEF more
<1>5. /\ pushed \in [Workers -> WorkerType] /\ pushed[j].todo = more /\ pushed[j].pc = "idle"
      /\ \A v \in Workers : v # j => pushed[v] = worker[v]
  <2>1. PICK q : q = [worker[j] EXCEPT !.todo = more]
    OBVIOUS
  <2>2. /\ q \in WorkerType /\ q.todo = more /\ q.pc = "idle"
    BY <1>1, <1>3, <1>4, <2>1 DEF WorkerType
  <2>3. pushed = [worker EXCEPT ![j] = q]
    BY <1>3, <2>1 DEF more
  <2> QED
    BY <1>1, <2>2, <2>3
<1>6. worker' = Enqueued(pushed, i)
  BY DEF DispatchNext
<1> HIDE DEF pushed
<1>7. /\ worker' \in [Workers -> WorkerType]
      /\ \A v \in Workers : v # i => worker'[v] = pushed[v]
      /\ worker'[i].pc = "look" /\ worker'[i].todo = worker[i].todo
      /\ worker'[i].out = <<>> /\ worker'[i].shortIds = <<>>
      /\ task.proto \in {"ont", "eth"} => worker'[i].ignored = <<>>
  <2>1. pushed[i] = worker[i]
    BY <1>1, <1>5, WorkersAre
  <2> QED
    BY <1>1, <1>5, <1>6, <2>1, EnqueuedIs
<1>8. /\ worker'[j].todo = more /\ worker'[j].pc = "idle" /\ worker'[i] \in WorkerType
      /\ \A v \in Workers : v # i /\ v # j => worker'[v] = worker[v]
  BY <1>1, <1>5, <1>7, WorkersAre
<1>9. /\ task' \in TaskType /\ task'.pc = "dispatch" /\ task'.count = n + 1 /\ task'.idx = j
      /\ task'.proto = task.proto /\ task'.block = task.block /\ task'.out = task.out
      /\ task'.shortIds = task.shortIds /\ task'.ignored = task.ignored
  <2>1. task' = [task EXCEPT !.count = n + 1, !.idx = j]
    BY DEF DispatchNext
  <2>2. PICK c \in Nat, d \in Nat : c = n + 1 /\ d = j
    BY <1>1, WorkersAre
  <2> HIDE DEF j
  <2> QED
    BY <1>1, <2>1, <2>2 DEF TaskType
<1>10. UNCHANGED <<bound, old, kept, wasOld>>
  BY DEF DispatchNext
<1>11. TypeOK'
  BY <1>7, <1>9, <1>10 DEF IInv, TypeOK
<1>12. Busy'
  BY <1>7, <1>8 DEF IInv, Busy
<1>13. Ages'
  BY <1>9 DEF Ages, Split
<1>14. Target' \in Workers /\ j <= Target'
  <2>1. j = TargetOf(task.block, n) /\ Target' = TargetOf(task.block, n + 1)
    BY <1>9, TargetIs
  <2> QED
    BY <1>1, <2>1, Targets
<1> HIDE DEF i, j, n
<1>15. PICK next \in Cuts :
          next = [k \in 0 .. PoolSize |-> IF k <= i + 1 THEN cut[k] ELSE IF k <= j THEN n ELSE n + 1]
  <2>1. \A k \in 0 .. PoolSize : cut[k] \in Nat
    BY DEF Cuts
  <2>2. n \in Nat /\ n + 1 \in Nat
    BY <1>1
  <2>3. \A k \in 0 .. PoolSize :
           (IF k <= i + 1 THEN cut[k] ELSE IF k <= j THEN n ELSE n + 1) \in Nat
    BY <2>1, <2>2
  <2>4. [k \in 0 .. PoolSize |-> IF k <= i + 1 THEN cut[k] ELSE IF k <= j THEN n ELSE n + 1] \in Cuts
    BY <2>3 DEF Cuts
  <2> QED
    BY <2>4
<1>16. /\ next[0] = 0 /\ next[j] = n /\ next[j + 1] = n + 1 /\ next[i] = cut[i] /\ next[i + 1] = n
       /\ \A w \in Workers : w < i => next[w] = cut[w] /\ next[w + 1] = cut[w + 1]
  <2>1. /\ 0 \in 0 .. PoolSize /\ i \in 0 .. PoolSize /\ i + 1 \in 0 .. PoolSize
        /\ j \in 0 .. PoolSize /\ j + 1 \in 0 .. PoolSize
        /\ 0 <= i + 1 /\ i <= i + 1 /\ ~(j + 1 <= i + 1) /\ ~(j + 1 <= j)
        /\ (j <= i + 1 => j = i + 1) /\ j <= j /\ i + 1 <= i + 1
    BY <1>1, WorkersAre
  <2>2. \A w \in Workers : w < i => /\ w \in 0 .. PoolSize /\ w + 1 \in 0 .. PoolSize
                                   /\ w <= i + 1 /\ w + 1 <= i + 1
    BY <1>1, WorkersAre
  <2> QED
    BY <1>2, <1>15, <2>1, <2>2
<1>17. Segments(next, 0, task.idx - 1)'
  <2> SUFFICES ASSUME NEW w \in Workers, 0 <= w, w <= j - 1, worker'[w].pc # "idle"
               PROVE  Segment(task', worker'[w], next[w], next[w + 1])
    BY <1>9 DEF Segments
  <2>1. CASE w = i
    <3>1. next[i] \in Nat /\ next[i + 1] \in Nat
      BY <1>1, CutEnds
    <3> QED
      BY <1>2, <1>7, <1>8, <1>9, <1>16, <2>1, <3>1, SegmentBegins
  <2>2. CASE w # i
    <3>1. w # j /\ worker'[w] = worker[w]
      BY <1>1, <1>8, <2>2, WorkersAre
    <3>2. w < i /\ w <= i - 1
      BY <1>1, <1>2, <2>2, <3>1, WorkersAre
    <3>3. Segment(task, worker[w], cut[w], cut[w + 1])
      BY <3>1, <3>2 DEF Dispatching, Segments, i
    <3> QED
      BY <1>9, <1>16, <3>1, <3>2, <3>3 DEF Segment
  <2> QED
    BY <2>1, <2>2
<1>18. Dispatching(next)'
  <2>1. n + 1 <= Len(task.block) /\ n + Len(more) = n + 1
    <3>1. PICK l \in Nat : l = Len(task.block)
      BY <1>1
    <3>2. n + 1 <= l
      BY <1>1, <3>1
    <3> QED
      BY <1>4, <3>1, <3>2
  <2>2. /\ \A w \in Workers : w >= j => worker'[w].pc = "idle"
        /\ \A w \in Workers : w > j => worker'[w].todo = <<>>
    <3>1. \A w \in Workers : w >= j => w # i /\ w > i /\ w >= i
      BY <1>1, WorkersAre
    <3>2. \A w \in Workers : w > j => w # j /\ w >= j
      BY <1>1, WorkersAre
    <3> QED
      BY <1>2, <1>8, <3>1, <3>2
  <2> QED
    BY <1>1, <1>2, <1>4, <1>8, <1>9, <1>14, <1>16, <1>17, <2>1, <2>2 DEF Dispatching
<1>19. Progress'
  BY <1>9, <1>18 DEF Progress
<1>20. KeptApart'
  BY <1>10, KeptAtWork DEF DispatchNext
<1> QED
  BY <1>20, <1>10, <1>11, <1>12, <1>13, <1>19 DEF IInv

\* The last sub task is enqueued.
LEMMA DispatchLastOK ==
  ASSUME IInv, task.proto \in Split, DispatchLast
  PROVE  IInv'
<1> DEFINE i == task.idx
<1> PICK cut \in Cuts : Dispatching(cut)
  BY DEF DispatchLast, IInv, Progress
<1>1. /\ i \in Workers /\ i \in Nat /\ task.count = Len(task.block) /\ task.count \in Nat
      /\ task \in TaskType /\ task.block \in Seq(Hashes) /\ worker \in [Workers -> WorkerType]
  BY TaskFields DEF IInv, TypeOK, Dispatching, DispatchLast
<1>2. /\ worker' \in [Workers -> WorkerType] /\ worker'[i] \in WorkerType
      /\ \A v \in Workers : v # i => worker'[v] = worker[v]
      /\ worker'[i].pc = "look" /\ worker'[i].todo = worker[i].todo
      /\ worker'[i].out = <<>> /\ worker'[i].shortIds = <<>>
      /\ task.proto \in {"ont", "eth"} => worker'[i].ignored = <<>>
  BY <1>1, EnqueuedIs DEF DispatchLast
<1>3. /\ task' \in TaskType /\ task'.pc = "collect" /\ task'.count = i /\ task'.idx = 0
      /\ task'.proto = task.proto /\ task'.block = task.block /\ task'.out = <<>>
      /\ task'.shortIds = <<>> /\ task'.ignored = <<>>
  <2>1. task' = [task EXCEPT !.pc = "collect", !.count = i, !.idx = 0]
    BY DEF DispatchLast
  <2> QED
    BY <1>1, <2>1 DEF TaskType, Dispatching
<1>4. UNCHANGED <<bound, old, kept, wasOld>>
  BY DEF DispatchLast
<1>5. TypeOK'
  BY <1>2, <1>3, <1>4 DEF IInv, TypeOK
<1>6. Busy'
  BY <1>2 DEF IInv, Busy
<1>7. Ages'
  BY <1>3 DEF Ages, Split
<1>8. TaskStands'
  <2>1. Len(<<>>) = 0 /\ Len(task.block) \in Nat
    BY <1>1
  <2>2. Stands(<<>>, <<>>, task.block, 0)
    BY <2>1, StandsEmpty
  <2>3. IgnoredIn(<<>>, <<>>)
    BY <2>1 DEF IgnoredIn
  <2> QED
    BY <1>3, <2>2, <2>3 DEF TaskStands
<1>9. Segments(cut, task.idx, task.count)'
  <2> SUFFICES ASSUME NEW w \in Workers, 0 <= w, w <= i, worker'[w].pc # "idle"
               PROVE  Segment(task', worker'[w], cut[w], cut[w + 1])
    BY <1>3 DEF Segments
  <2>1. CASE w = i
    <3>1. cut[i] \in Nat /\ cut[i + 1] \in Nat
      BY <1>1, CutEnds
    <3>2. /\ Remains(worker[i].todo, task.block, cut[i + 1])
          /\ cut[i] + Len(worker[i].todo) = cut[i + 1]
      BY DEF Dispatching
    <3> QED
      BY <1>2, <1>3, <2>1, <3>1, <3>2, SegmentBegins
  <2>2. CASE w # i
    <3>1. w <= i - 1 /\ worker'[w] = worker[w]
      BY <1>1, <1>2, <2>2, WorkersAre
    <3>2. Segment(task, worker[w], cut[w], cut[w + 1])
      BY <3>1 DEF Dispatching, Segments
    <3> QED
      BY <1>3, <3>1, <3>2 DEF Segment
  <2> QED
    BY <2>1, <2>2
<1>10. Collecting(cut)'
  <2>1. \A w \in Workers : w < 0 \/ w > i => worker'[w].pc = "idle"
    <3>1. \A w \in Workers : w < 0 \/ w > i => w # i /\ w >= i
      BY <1>1, WorkersAre
    <3> QED
      BY <1>2, <3>1 DEF Dispatching
  <2>2. 0 <= i + 1 /\ cut[i + 1] = Len(task.block) /\ cut[0] = Len(<<>>)
    BY <1>1 DEF Dispatching
  <2> QED
    BY <1>1, <1>3, <1>8, <1>9, <2>1, <2>2 DEF Collecting, AllIdle
<1>11. Progress'
  BY <1>3, <1>10 DEF Progress
<1>20. KeptApart'
  BY <1>4, KeptAtWork DEF DispatchLast
<1> QED
  BY <1>20, <1>4, <1>5, <1>6, <1>7, <1>11 DEF IInv

\* A malformed block ends the use of the task object.
LEMMA DispatchThrowsOK ==
  ASSUME IInv, DispatchThrows
  PROVE  IInv'
<1>1. task' \in TaskType /\ task'.pc = "failed" /\ task'.proto = task.proto
  BY DEF DispatchThrows, IInv, TypeOK, TaskType
<1>2. UNCHANGED <<worker, bound, old, kept, wasOld>>
  BY DEF DispatchThrows
<1>3. Progress'
  BY <1>1 DEF Progress
<1>20. KeptApart'
  BY <1>2, KeptAtWork DEF DispatchThrows
<1> QED
  BY <1>20, <1>1, <1>2, <1>3 DEF IInv, TypeOK, Busy, Ages

\* _on_sub_task_completed.
LEMMA CollectOK ==
  ASSUME IInv, NEW w \in Workers, task.proto \in Split, Collect(w)
  PROVE  IInv'
<1> DEFINE r == worker[w]
           out == task.out \o r.out
           sids == task.shortIds \o r.shortIds
           ignored == task.ignored \o r.ignored
<1> PICK cut \in Cuts : Collecting(cut)
  BY DEF Collect, IInv, Progress
<1>1. /\ w = task.idx /\ r.pc = "look" /\ r.todo = <<>> /\ w <= task.count
      /\ task.count \in Workers /\ w \in Nat
      /\ task \in TaskType /\ task.block \in Seq(Hashes) /\ worker \in [Workers -> WorkerType]
      /\ task.out \in Seq(OutEntry) /\ task.shortIds \in Seq(Sids) /\ task.ignored \in Seq(Sids)
      /\ r \in WorkerType
      /\ r.out \in Seq(OutEntry) /\ r.shortIds \in Seq(Sids) /\ r.ignored \in Seq(Sids)
      /\ Len(r.out) \in Nat
  BY TaskFields, WorkerFields DEF IInv, TypeOK, Collecting, Collect, Collectable, Finished
<1>2. Segment(task, r, cut[w], cut[w + 1]) /\ cut[w] = Len(task.out) /\ cut[w] \in Nat
  <2>1. w <= w /\ cut[w] \in Nat
    BY <1>1, CutEnds
  <2> QED
    BY <1>1, <2>1 DEF Collecting, Segments
<1>3. Len(task.out) + Len(r.out) = cut[w + 1]
  <2>1. Len(<<>>) = 0 /\ cut[w] + Len(r.out) + Len(r.todo) = cut[w + 1]
    BY <1>2 DEF Segment
  <2>2. Len(r.todo) = 0
    BY <1>1, <2>1
  <2>3. PICK a \in Nat, b \in Nat : a = Len(task.out) /\ b = Len(r.out)
    BY <1>1, <1>2
  <2>4. a + b + 0 = cut[w + 1]
    BY <1>2, <2>1, <2>2, <2>3, Zenon
  <2>5. a + b = cut[w + 1]
    BY <2>4
  <2> QED
    BY <2>3, <2>5, Zenon
<1>4. /\ Stands(out, sids, task.block, 0) /\ Len(out) = cut[w + 1]
      /\ out \in Seq(OutEntry) /\ sids \in Seq(Sids) /\ ignored \in Seq(Sids)
  <2>1. Stands(task.out, task.shortIds, task.block, 0)
    BY DEF Collecting, TaskStands
  <2>2. Stands(r.out, r.shortIds, task.block, Len(task.out))
    BY <1>2 DEF Segment
  <2>3. Stands(out, sids, task.block, 0) /\ Len(out) = Len(task.out) + Len(r.out)
    BY <1>1, <2>1, <2>2, StandsBoth
  <2>4. out \in Seq(OutEntry) /\ sids \in Seq(Sids) /\ ignored \in Seq(Sids)
    <3> HIDE DEF r
    <3> QED
      BY <1>1
  <2> QED
    BY <1>3, <2>3, <2>4, Zenon
<1>5. task.proto \in {"ont", "eth"} => IgnoredIn(out, ignored)
  <2> SUFFICES ASSUME task.proto \in {"ont", "eth"} PROVE IgnoredIn(out, ignored)
    OBVIOUS
  <2>1. IgnoredIn(task.out, task.ignored)
    BY DEF Collecting, TaskStands
  <2>2. IgnoredIn(r.out, r.ignored)
    BY <1>2 DEF Segment
  <2> HIDE DEF r
  <2> QED
    BY <1>1, <2>1, <2>2, IgnoredBoth
<1>6. PICK q : q = [r EXCEPT !.pc = "idle"]
  OBVIOUS
<1>7. q \in WorkerType /\ q.pc = "idle"
  BY <1>1, <1>6 DEF WorkerType
<1>8. worker' = [worker EXCEPT ![w] = q]
  BY <1>6 DEF Collect
<1>9. /\ worker' \in [Workers -> WorkerType] /\ worker'[w].pc = "idle"
      /\ \A v \in Workers : v # w => worker'[v] = worker[v]
  BY <1>1, <1>7, <1>8
<1>10. task' = [task EXCEPT !.idx = w + 1, !.out = out, !.shortIds = sids, !.ignored = ignored]
  BY <1>1 DEF Collect
<1> HIDE DEF r, out, sids, ignored
<1>11. /\ task' \in TaskType /\ task'.pc = "collect" /\ task'.count = task.count /\ task'.idx = w + 1
       /\ task'.proto = task.proto /\ task'.block = task.block /\ task'.out = out
       /\ task'.shortIds = sids /\ task'.ignored = ignored
  <2>1. PICK k \in Nat : k = w + 1
    BY <1>1
  <2>2. task.pc = "collect"
    BY DEF Collect
  <2> QED
    BY <1>1, <1>4, <1>10, <2>1, <2>2 DEF TaskType
<1>12. UNCHANGED <<bound, old, kept, wasOld>>
  BY DEF Collect
<1>13. TypeOK'
  BY <1>9, <1>11, <1>12 DEF IInv, TypeOK
<1>14. Busy'
  BY <1>9 DEF IInv, Busy
<1>15. Ages'
  BY <1>11 DEF Ages, Split
<1>16. TaskStands'
  BY <1>4, <1>5, <1>11 DEF TaskStands
<1>17. Segments(cut, task.idx, task.count)'
  <2> SUFFICES ASSUME NEW v \in Workers, w + 1 <= v, v <= task.count, worker'[v].pc # "idle"
               PROVE  Segment(task', worker'[v], cut[v], cut[v + 1])
    BY <1>11 DEF Segments
  <2>1. w <= v /\ worker'[v] = worker[v]
    BY <1>1, <1>9, WorkersAre
  <2>2. Segment(task, worker[v], cut[v], cut[v + 1])
    BY <1>1, <2>1 DEF Collecting, Segments
  <2> QED
    BY <1>11, <2>1, <2>2 DEF Segment
<1>18. Collecting(cut)'
  <2>1. \A v \in Workers : v < w + 1 \/ v > task.count => worker'[v].pc = "idle"
    <3>1. \A v \in Workers : v < w + 1 \/ v > task.count => v = w \/ v < w \/ v > task.count
      BY <1>1, WorkersAre
    <3> QED
      BY <1>1, <1>9, <3>1 DEF Collecting, AllIdle
  <2>2. w + 1 <= task.count + 1
    BY <1>1, WorkersAre
  <2> QED
    BY <1>1, <1>4, <1>11, <1>16, <1>17, <2>1, <2>2 DEF Collecting, AllIdle
<1>19. Progress'
  BY <1>11, <1>18 DEF Progress
<1>20. KeptApart'
  BY <1>12, KeptAtWork DEF Collect
<1> QED
  BY <1>20, <1>12, <1>13, <1>14, <1>15, <1>19 DEF IInv

LEMMA FinishOK ==
  ASSUME IInv, Finish
  PROVE  IInv'
<1> PICK cut \in Cuts : Collecting(cut)
  BY DEF Finish, IInv, Progress
<1>1. /\ task.idx = task.count + 1 /\ Len(task.out) = Len(task.block)
      /\ \A w \in Workers : worker[w].pc = "idle"
  <2>1. task.idx = task.count + 1
    BY TaskFields DEF Finish, Collecting, IInv
  <2>2. \A w \in Workers : w < task.idx \/ w > task.count
    BY <2>1, TaskFields, WorkersAre DEF IInv
  <2> QED
    BY <2>1, <2>2 DEF Collecting, AllIdle
<1>2. /\ task' \in TaskType /\ task'.pc = "done" /\ task'.proto = task.proto
      /\ task'.block = task.block /\ task'.out = task.out
      /\ task'.shortIds = task.shortIds /\ task'.ignored = task.ignored
  BY DEF Finish, IInv, TypeOK, TaskType
<1>3. UNCHANGED <<worker, bound, old, kept, wasOld>>
  BY DEF Finish
<1>4. Progress'
  BY <1>1, <1>2, <1>3 DEF Progress, Collecting, TaskStands, AllIdle
<1>20. KeptApart'
  BY <1>3, KeptAtWork DEF Finish
<1> QED
  BY <1>20, <1>2, <1>3, <1>4 DEF IInv, TypeOK, Busy, Ages

LEMMA FinishAloneOK ==
  ASSUME IInv, task.proto \notin Split, FinishAlone
  PROVE  IInv'
<1> DEFINE r == worker[0]
<1>1. /\ Segment(task, r, 0, Len(task.block)) /\ \A w \in Workers \ {0} : worker[w].pc = "idle"
      /\ r.pc = "look" /\ r.todo = <<>>
  BY DEF FinishAlone, Finished, IInv, Progress, Alone, AllIdle
<1>2. /\ r \in WorkerType /\ task \in TaskType /\ worker \in [Workers -> WorkerType]
      /\ r.out \in Seq(OutEntry) /\ r.shortIds \in Seq(Sids) /\ r.ignored \in Seq(Sids)
      /\ Len(r.out) \in Nat /\ Len(task.block) \in Nat
  BY WorkersAre, WorkerFields, TaskFields DEF IInv, TypeOK
<1>3. Len(r.out) = Len(task.block)
  <2>1. Len(<<>>) = 0 /\ 0 + Len(r.out) + Len(r.todo) = Len(task.block)
    BY <1>1 DEF Segment
  <2>2. Len(r.todo) = 0
    BY <1>1, <2>1
  <2> HIDE DEF r
  <2> QED
    BY <1>2, <2>1, <2>2
<1>4. PICK q : q = [r EXCEPT !.pc = "idle"]
  OBVIOUS
<1>5. q \in WorkerType /\ q.pc = "idle" /\ q.todo = <<>> /\ q.ready = r.ready /\ q.shortIds = r.shortIds
  BY <1>1, <1>2, <1>4 DEF WorkerType
<1>6. /\ worker' \in [Workers -> WorkerType] /\ worker'[0] = q
      /\ \A v \in Workers : v # 0 => worker'[v] = worker[v]
  BY <1>2, <1>4, <1>5, WorkersAre DEF FinishAlone
<1>7. task' = [task EXCEPT !.pc = "done", !.out = r.out, !.shortIds = r.shortIds, !.ignored = r.ignored]
  BY DEF FinishAlone
<1> HIDE DEF r
<1>8. /\ task' \in TaskType /\ task'.pc = "done" /\ task'.proto = task.proto
      /\ task'.block = task.block /\ task'.out = r.out
      /\ task'.shortIds = r.shortIds /\ task'.ignored = r.ignored
  BY <1>2, <1>7 DEF TaskType
<1>9. UNCHANGED <<bound, old, kept, wasOld>>
  BY DEF FinishAlone
<1>10. TypeOK'
  BY <1>6, <1>8, <1>9 DEF IInv, TypeOK
<1>11. Busy'
  BY <1>5, <1>6 DEF IInv, Busy
<1>12. Ages'
  <2> SUFFICES ASSUME task.proto = "eth" PROVE \A w \in Workers : WorkerAge(worker'[w], wasOld)
    BY <1>8, <1>9 DEF Ages
  <2>1. \A w \in Workers : WorkerAge(worker[w], wasOld)
    BY DEF IInv, Ages
  <2>2. WorkerAge(q, wasOld)
    BY <1>5, <2>1, WorkersAre DEF WorkerAge, r
  <2> QED
    BY <1>6, <2>1, <2>2
<1>13. Progress'
  <2>1. TaskStands'
    BY <1>1, <1>8 DEF TaskStands, Segment
  <2> QED
    BY <1>1, <1>3, <1>5, <1>6, <1>8, <2>1 DEF Progress, AllIdle
<1>20. KeptApart'
  BY <1>9, KeptAtWork DEF FinishAlone
<1> QED
  BY <1>20, <1>9, <1>10, <1>11, <1>12, <1>13 DEF IInv

LEMMA KeptStep ==
  ASSUME IInv, UNCHANGED <<task, worker, bound, old, wasOld>>, kept' \in KeptType, KeptApart'
  PROVE  IInv'
<1>1. Progress'
  BY DEF IInv, Progress, AllIdle, TaskStands, Alone, Collecting, Dispatching, Segments,
         Target, BulkSize, Larger, Smaller
<1> QED
  BY <1>1 DEF IInv, TypeOK, Busy, Ages

LEMMA KeepOutputOK ==
  ASSUME IInv, KeepOutput \/ DropOutput
  PROVE  IInv'
<1>1. task.out \in Seq(OutEntry) /\ Nothing \in Seq(OutEntry)
  BY TaskFields DEF IInv, Nothing
<1>2. CASE KeepOutput
  <2>1. task.pc = "done" /\ kept' = [held |-> TRUE, same |-> TRUE, taken |-> task.out, apart |-> Nothing]
    BY <1>2 DEF KeepOutput, Buffer
  <2>2. kept' \in KeptType /\ KeptApart'
    BY <1>1, <1>2, <2>1 DEF KeptType, KeptApart, KeepOutput
  <2> QED
    BY <1>2, <2>2, KeptStep DEF KeepOutput
<1>3. CASE DropOutput
  <2>1. kept' \in KeptType /\ KeptApart'
    BY <1>1, <1>3 DEF KeptType, KeptApart, DropOutput
  <2> QED
    BY <1>3, <2>1, KeptStep DEF DropOutput
<1> QED
  BY <1>2, <1>3

-----------------------------------------------------------------------------
LEMMA NextOK == IInv /\ [Next]_vars => IInv'
<1> SUFFICES ASSUME IInv, [Next]_vars PROVE IInv'
  OBVIOUS
<1>1. CASE UNCHANGED vars
  BY <1>1, CrashStep DEF vars
<1>2. ASSUME NEW b \in Blocks, NEW on \in BOOLEAN, BtcInit(b, on) \/ OntInit(b, on) PROVE IInv'
  BY <1>2, InitSplitOK DEF BtcInit, OntInit, Split
<1>3. ASSUME NEW b \in Blocks, NEW on \in BOOLEAN, EthInit(b, on) PROVE IInv'
  <2>1. <<>> \in Seq(Sids)
    OBVIOUS
  <2> QED
    BY <1>3, <2>1, InitAloneOK DEF EthInit, Split
<1>4. ASSUME NEW b \in Blocks, NEW on \in BOOLEAN, ConsensusInit(b, on) PROVE IInv'
  BY <1>4, InitAloneOK, TaskFields DEF ConsensusInit, Split, IInv
<1>5. ASSUME BtcDispatch \/ OntDispatch PROVE IInv'
  <2>1. task.proto \in Split /\ (DispatchNext \/ DispatchLast \/ DispatchThrows)
    BY <1>5 DEF BtcDispatch, OntDispatch, Split
  <2>2. CASE DispatchNext
    <3>1. task.pc = "dispatch"
      BY <2>2 DEF DispatchNext
    <3>2. PICK cut \in Cuts : Dispatching(cut)
      BY <2>1, <3>1 DEF IInv, Progress
    <3> QED
      BY <2>1, <2>2, <3>1, <3>2, DispatchSame, DispatchMove
  <2> QED
    BY <2>1, <2>2, DispatchLastOK, DispatchThrowsOK
<1>6. ASSUME NEW w \in Workers, BtcSubExecute(w) \/ OntSubExecute(w) \/ ConsensusTransactions(w)
      PROVE  IInv'
  <2>1. task.proto # "eth" /\ (Look(w) \/ ReadAge(w, "again") \/ LookAgain(w) \/ Write(w))
    BY <1>6 DEF BtcSubExecute, OntSubExecute, ConsensusTransactions
  <2> QED
    BY <2>1, LookOK, ReadAgeOK, LookAgainOK, WriteOK
<1>7. ASSUME NEW w \in Workers, EthTransactions(w) PROVE IInv'
  BY <1>7, LookOnceOK, ReadAgeOK, DecideOK, WriteOK DEF EthTransactions
<1>8. ASSUME NEW w \in Workers, BtcCollect(w) \/ OntCollect(w) PROVE IInv'
  BY <1>8, CollectOK DEF BtcCollect, OntCollect, Split
<1>9. ASSUME BtcFinish \/ OntFinish PROVE IInv'
  BY <1>9, FinishOK DEF BtcFinish, OntFinish
<1>10. ASSUME EthFinish \/ ConsensusFinish PROVE IInv'
  BY <1>10, FinishAloneOK DEF EthFinish, ConsensusFinish, Split
<1>11. ASSUME NEW s \in Sids, AssignShortId(s) PROVE IInv'
  BY <1>11, ServiceStep DEF AssignShortId, IInv, TypeOK
<1>12. ASSUME NEW s \in Sids, Age(s) PROVE IInv'
  BY <1>12, ServiceStep DEF Age, IInv, TypeOK
<1>13. ASSUME NEW h \in Hashes, RemoveTransaction(h) PROVE IInv'
  BY <1>13, ServiceStep DEF RemoveTransaction, IInv, TypeOK
<1> QED
  BY <1>1, <1>2, <1>3, <1>4, <1>5, <1>6, <1>7, <1>8, <1>9, <1>10, <1>11, <1>12, <1>13,
     KeepOutputOK DEF Next

\* The inductive invariant holds: every worker has done a prefix of its part.
THEOREM Inductive == Spec => []IInv
  BY InitOK, NextOK, PTL DEF Spec

\* The variables keep their types: the short ids, offsets and entries of every
\* sub task of every block stay sequences of what they should hold.
THEOREM TypeCorrect == Spec => []TypeOK
  BY Inductive, PTL DEF IInv

\* A compressed part that reaches to the end of the block is the block.
LEMMA WholeBlock ==
  ASSUME IInv, task.pc = "done"
  PROVE  /\ Len(task.shortIds) = FlagsUpTo(task.out, Len(task.out))
         /\ Expanded(task.out, task.shortIds) = task.block
<1> DEFINE n == Len(task.out)
<1>1. /\ n \in Nat /\ n = Len(task.block) /\ Stands(task.out, task.shortIds, task.block, 0)
      /\ task.out \in Seq(OutEntry) /\ task.block \in Seq(Hashes)
  BY TaskFields DEF IInv, Progress, TaskStands
<1>2. DOMAIN task.out = 1 .. n /\ DOMAIN task.block = 1 .. n
  BY <1>1
<1>3. task.block = [i \in 1 .. n |-> task.block[i]]
  BY <1>1, <1>2
<1> HIDE DEF n
<1>4. \A i \in 1 .. n :
         (IF task.out[i] = Flag THEN HashOf[task.shortIds[FlagsUpTo(task.out, i)]] ELSE task.out[i])
            = task.block[i]
  <2> SUFFICES ASSUME NEW i \in 1 .. n
               PROVE  (IF task.out[i] = Flag THEN HashOf[task.shortIds[FlagsUpTo(task.out, i)]]
                       ELSE task.out[i]) = task.block[i]
    OBVIOUS
  <2>1. 0 + i = i
    BY <1>1
  <2> QED
    BY <1>1, <2>1 DEF Stands, n
<1>5. Expanded(task.out, task.shortIds) = [i \in 1 .. n |-> task.block[i]]
  BY <1>2, <1>4 DEF Expanded
<1> QED
  BY <1>1, <1>3, <1>5 DEF Stands

LEMMA WholeIgnored ==
  ASSUME IInv, task.pc = "done", task.proto \in {"ont", "eth"}
  PROVE  IgnoredOfThisBlock
<1>1. /\ Len(task.out) = Len(task.block) /\ Stands(task.out, task.shortIds, task.block, 0)
      /\ IgnoredIn(task.out, task.ignored) /\ task.ignored \in Seq(Sids) /\ task.block \in Seq(Hashes)
      /\ Len(task.block) \in Nat
  BY TaskFields DEF IInv, Progress, TaskStands
<1> SUFFICES ASSUME NEW i \in 1 .. Len(task.ignored)
             PROVE  \E k \in 1 .. Len(task.block) :
                        task.block[k] = HashOf[task.ignored[i]] /\ task.out[k] # Flag
  BY <1>1 DEF IgnoredOfThisBlock
<1>2. PICK k \in 1 .. Len(task.out) : task.out[k] = HashOf[task.ignored[i]]
  BY <1>1 DEF IgnoredIn
<1>3. task.ignored[i] \in Sids
  BY <1>1
<1>4. task.out[k] # Flag
  BY <1>2, <1>3, BlockCompressionAssumption
<1>5. 0 + k = k
  BY <1>1
<1> QED
  BY <1>1, <1>2, <1>4, <1>5 DEF Stands

\* For every pool size and block: a block that a task has compressed stands for
\* exactly its transactions in their order, whatever the interleaving of the sub
\* tasks with each other and with the service, and the ignored short ids are
\* of its transactions (btc/ont/eth _on_sub_task_completed and _set_output_buffer).
THEOREM BlocksAreExact == Spec => []ResultExact
<1>1. IInv => ResultExact
  BY WholeBlock, WholeIgnored DEF ResultExact
<1> QED
  BY <1>1, Inductive, PTL

\* The Ethereum task uses no short id that was never old enough.
THEOREM AgesRespected == Spec => []AgeRespected
<1>1. IInv => AgeRespected
  <2> SUFFICES ASSUME IInv, task.proto = "eth", NEW i \in DOMAIN worker[0].shortIds,
                      \A t \in Sids : HashOf[t] = HashOf[worker[0].shortIds[i]] => t = worker[0].shortIds[i]
               PROVE  worker[0].shortIds[i] \in wasOld
    BY DEF AgeRespected
  <2>1. worker[0].shortIds \in Seq(Sids)
    BY WorkersAre, WorkerFields DEF IInv
  <2>2. i \in 1 .. Len(worker[0].shortIds) /\ OnlySid(worker[0].shortIds[i])
    BY <2>1 DEF OnlySid
  <2> QED
    BY <2>2, WorkersAre DEF IInv, Ages, WorkerAge
<1> QED
  BY <1>1, Inductive, PTL

\* For every pool size and every sequence of blocks: what a caller sees through the
\* output it holds is what it took, although init resets the task's buffer and the
\* sub tasks' results are appended to it (BtcBlockCompressionTask::init).
THEOREM KeptOutputsStay == Spec => []KeptOutputStays
<1>1. IInv => KeptOutputStays
  BY DEF IInv, KeptApart, KeptOutputStays, Seen, Buffer
<1> QED
  BY <1>1, Inductive, PTL
=============================================================================
