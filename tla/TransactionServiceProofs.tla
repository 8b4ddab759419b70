---------------------- MODULE TransactionServiceProofs ----------------------
(***************************************************************************)
(* Proofs about TransactionService.  Type correctness and the agreement of *)
(* the maps are inductive together: an assignment looks at one map only    *)
(* (has_short_id(short_id)) before it writes both, and a removal finds the *)
(* short ids to erase from one map in the other.  The window and the      *)
(* queues of the pool have invariants of their own.                        *)
(***************************************************************************)
EXTENDS TransactionService, SequenceTheorems, TLAPS

\* The part of TypeOK that is about the two maps.
MapsTyped ==
    /\ KnownHashes \subseteq Hashes
    /\ \A h \in KnownHashes : hashToSids[h] \subseteq ShortIds
    /\ KnownSids \subseteq ShortIds
    /\ \A s \in KnownSids : sidToHash[s] \in Hashes

\* The parts of the invariant that are about the pool and about the window.
PoolInv ==
    /\ pool \subseteq Hashes
    /\ poolAdds \subseteq Hashes
    /\ poolRemoves \subseteq Hashes
    /\ poolReaders \in 0 .. MaxReaders
    /\ PoolQueuesSound

WindowInv ==
    /\ seenInBlock \in Seq([block : Blocks, sids : SUBSET ShortIds])
    /\ finalCount \in FinalCounts
    /\ WindowWithoutRepetition

\* What the history and the set of contents may hold.
SetsTyped ==
    /\ contents \subseteq Hashes
    /\ removedHashes \subseteq Hashes
    /\ removedSids \subseteq ShortIds

\* The inductive invariant about the maps.
MapsInv == MapsTyped /\ MapsAgree /\ AssignTimesTracked

IInv == MapsInv /\ PoolInv /\ WindowInv /\ SetsTyped

-----------------------------------------------------------------------------
\* Binding fresh short ids to a hash keeps the maps inverse to each other, and
\* changes no short id that was bound (operator[] and assign_short_id).
LEMMA BindKeepsMaps ==
    ASSUME MapsTyped, MapsAgree, NEW h \in Hashes, NEW sids \in SUBSET ShortIds,
           NEW touched \in BOOLEAN, Bind(h, sids, touched)
    PROVE  /\ MapsTyped' /\ MapsAgree'
           /\ KnownSids' = KnownSids \cup sids
           /\ KnownHashes \subseteq KnownHashes'
           /\ \A s \in KnownSids : sidToHash'[s] = sidToHash[s]
<1> DEFINE fresh == sids \ KnownSids
           entered == touched \/ fresh # {}
<1>1. KnownSids' = KnownSids \cup fresh
      /\ \A s \in KnownSids' : sidToHash'[s] = IF s \in fresh THEN h ELSE sidToHash[s]
  BY DEF Bind, KnownSids
<1>2. CASE entered
  <2>1. KnownHashes' = KnownHashes \cup {h}
        /\ \A k \in KnownHashes' :
              hashToSids'[k] = IF k = h THEN SidsOf(h) \cup fresh ELSE hashToSids[k]
    BY <1>2 DEF Bind, KnownHashes
  <2>2. SidsOf(h) \subseteq ShortIds
    BY DEF SidsOf, MapsTyped
  <2>3. MapsTyped'
    BY <1>1, <2>1, <2>2 DEF MapsTyped
  <2>4. ASSUME NEW k \in KnownHashes', NEW s \in hashToSids'[k]
        PROVE  s \in KnownSids' /\ sidToHash'[s] = k
    BY <1>1, <2>1 DEF MapsAgree, SidsOf
  <2>5. ASSUME NEW s \in KnownSids'
        PROVE  sidToHash'[s] \in KnownHashes' /\ s \in hashToSids'[sidToHash'[s]]
    BY <1>1, <2>1 DEF MapsAgree, SidsOf
  <2> QED
    BY <1>1, <2>1, <2>3, <2>4, <2>5 DEF MapsAgree
<1>3. CASE ~entered
  <2>1. fresh = {} /\ hashToSids' = hashToSids /\ KnownHashes' = KnownHashes
    BY <1>3 DEF Bind, KnownHashes
  <2> QED
    BY <1>1, <2>1 DEF MapsAgree, MapsTyped
<1> QED
  BY <1>2, <1>3

\* Removing transactions together with all their short ids keeps the maps inverse
\* to each other, and leaves every other short id as it was.
LEMMA ForgetKeepsMaps ==
    ASSUME MapsInv, NEW hs \in SUBSET Hashes, NEW sids \in SUBSET KnownSids,
           \A s \in sids : sidToHash[s] \in hs,
           Forget(hs, sids)
    PROVE  /\ MapsInv'
           /\ KnownHashes' = KnownHashes \ hs
           /\ KnownSids' = {s \in KnownSids : sidToHash[s] \notin hs}
           /\ \A s \in KnownSids' : sidToHash'[s] = sidToHash[s]
           /\ \A h \in hs \cap KnownHashes : hashToSids[h] \subseteq removedSids'
<1> DEFINE gone == sids \cup UNION {SidsOf(h) : h \in hs}
<1>1. /\ KnownSids' = KnownSids \ gone
      /\ \A s \in KnownSids' : sidToHash'[s] = sidToHash[s]
      /\ KnownHashes' = KnownHashes \ hs
      /\ \A h \in KnownHashes' : hashToSids'[h] = hashToSids[h]
      /\ assignTime' = assignTime \ gone
      /\ removedSids' = removedSids \cup gone
  BY DEF Forget, KnownSids, KnownHashes
<1>2. ASSUME NEW s \in KnownSids
      PROVE  s \in gone <=> sidToHash[s] \in hs
  <2>1. ASSUME sidToHash[s] \in hs PROVE s \in gone
    BY <2>1 DEF MapsInv, MapsAgree, SidsOf
  <2>2. ASSUME s \in gone PROVE sidToHash[s] \in hs
    BY <2>2 DEF MapsInv, MapsAgree, SidsOf
  <2> QED
    BY <2>1, <2>2
<1>3. KnownSids' = {s \in KnownSids : sidToHash[s] \notin hs}
  BY <1>1, <1>2
<1>4. MapsTyped'
  BY <1>1 DEF MapsInv, MapsTyped
<1>5. ASSUME NEW h \in KnownHashes', NEW s \in hashToSids'[h]
      PROVE  s \in KnownSids' /\ sidToHash'[s] = h
  BY <1>1, <1>3 DEF MapsInv, MapsAgree
<1>6. ASSUME NEW s \in KnownSids'
      PROVE  sidToHash'[s] \in KnownHashes' /\ s \in hashToSids'[sidToHash'[s]]
  BY <1>1, <1>3 DEF MapsInv, MapsAgree
<1>7. AssignTimesTracked'
  BY <1>1 DEF MapsInv, AssignTimesTracked
<1>8. \A h \in hs \cap KnownHashes : hashToSids[h] \subseteq removedSids'
  BY <1>1 DEF SidsOf
<1> QED
  BY <1>1, <1>3, <1>4, <1>5, <1>6, <1>7, <1>8 DEF MapsInv, MapsAgree

-----------------------------------------------------------------------------
\* What every step keeps and does.
StepOK == IInv' /\ BoundSidsKept /\ \A h \in KnownHashes \ KnownHashes' : LeavesAsAWhole(h)

\* A step that leaves the maps alone keeps what is known about them.
LEMMA MapsUntouched ==
    ASSUME MapsInv, UNCHANGED mapVars
    PROVE  /\ MapsInv' /\ BoundSidsKept
           /\ \A h \in KnownHashes \ KnownHashes' : LeavesAsAWhole(h)
BY DEF mapVars, MapsInv, MapsTyped, MapsAgree, AssignTimesTracked, KnownHashes, KnownSids,
       BoundSidsKept

\* The operations of the pool keep the types of its fields.
LEMMA PoolTypes ==
    ASSUME PoolInv, NEW hs \in SUBSET Hashes,
           PoolInsert(hs) \/ PoolErase(hs) \/ UNCHANGED poolVars
    PROVE  PoolInv'
BY DEF PoolInv, PoolQueuesSound, PoolReading, PoolInsert, PoolErase, poolVars

\* assign_short_id, from whichever call, with some sids and a hash.
LEMMA AssignOK ==
    ASSUME IInv, NEW h \in Hashes, NEW sids \in SUBSET ShortIds,
           NEW touched \in BOOLEAN, Assign(h, sids, touched)
    PROVE  /\ MapsInv' /\ PoolInv' /\ BoundSidsKept
           /\ \A k \in KnownHashes \ KnownHashes' : LeavesAsAWhole(k)
<1>1. Bind(h, sids, touched)
  BY DEF Assign
<1>2. MapsTyped' /\ MapsAgree' /\ KnownSids' = KnownSids \cup sids
      /\ KnownHashes \subseteq KnownHashes'
      /\ \A s \in KnownSids : sidToHash'[s] = sidToHash[s]
  BY <1>1, BindKeepsMaps DEF IInv, MapsInv
<1>3. AssignTimesTracked'
  BY <1>2 DEF Assign, AssignTimesTracked, IInv, MapsInv
<1>4. PoolInv'
  <2>1. PICK hs \in SUBSET Hashes : PoolInsert(hs)
    BY <1>1 DEF Bind
  <2> QED
    BY <2>1, PoolTypes DEF IInv
<1> QED
  BY <1>2, <1>3, <1>4 DEF MapsInv, BoundSidsKept

\* The calls that remove transactions, by hash, by short id or by eviction.
LEMMA ForgetOK ==
    ASSUME IInv, NEW hs \in SUBSET Hashes, NEW sids \in SUBSET KnownSids,
           \A s \in sids : sidToHash[s] \in hs, Forget(hs, sids)
    PROVE  /\ MapsInv' /\ SetsTyped' /\ BoundSidsKept
           /\ \A h \in KnownHashes \ KnownHashes' : LeavesAsAWhole(h)
<1>1. /\ MapsInv'
      /\ KnownHashes' = KnownHashes \ hs
      /\ KnownSids' = {s \in KnownSids : sidToHash[s] \notin hs}
      /\ \A s \in KnownSids' : sidToHash'[s] = sidToHash[s]
      /\ \A h \in hs \cap KnownHashes : hashToSids[h] \subseteq removedSids'
  BY ForgetKeepsMaps DEF IInv
<1>2. SetsTyped'
  <2>1. UNION {SidsOf(h) : h \in hs} \subseteq ShortIds
    BY DEF SidsOf, IInv, MapsInv, MapsTyped
  <2> QED
    BY <2>1 DEF Forget, SetsTyped, IInv, MapsInv, MapsTyped
<1>3. ASSUME NEW h \in KnownHashes \ KnownHashes'
      PROVE  LeavesAsAWhole(h)
  <2>1. h \in hs /\ h \notin contents' /\ h \in removedHashes'
    BY <1>1 DEF Forget
  <2>2. \A s \in hashToSids[h] : s \notin KnownSids'
    BY <1>1, <2>1 DEF IInv, MapsInv, MapsAgree
  <2> QED
    BY <1>1, <2>1, <2>2 DEF LeavesAsAWhole
<1> QED
  BY <1>1, <1>2, <1>3 DEF BoundSidsKept

\* The hashes that calls find for short ids are hashes of transactions.
LEMMA HashesOfTyped ==
    ASSUME IInv, NEW sids
    PROVE  HashesOf(sids) \in SUBSET Hashes
BY DEF HashesOf, IInv, MapsInv, MapsTyped

-----------------------------------------------------------------------------
\* One step for each call on a transaction.
LEMMA TransactionStepOK ==
    ASSUME IInv, NEW h \in Hashes, TransactionStep(h)
    PROVE  StepOK
<1> Given(NullSid) \in SUBSET ShortIds /\ \A s \in ShortIds : Given(s) \in SUBSET ShortIds
  BY DEF Given
<1>1. ASSUME NEW s \in ShortIds \cup {NullSid}, AssignShortId(h, s) PROVE StepOK
  <2>1. Assign(h, Given(s), FALSE) /\ WindowInv' /\ SetsTyped'
    BY <1>1 DEF AssignShortId, IInv, WindowInv, WindowWithoutRepetition, SetsTyped, windowVars, removedVars
  <2> QED
    BY <2>1, AssignOK DEF StepOK, IInv
<1>2. ASSUME SetTransactionContents(h) PROVE StepOK
  <2>1. UNCHANGED mapVars /\ PoolInv' /\ WindowInv' /\ SetsTyped'
    BY <1>2 DEF SetTransactionContents, IInv, PoolInv, PoolQueuesSound, PoolReading, WindowInv, WindowWithoutRepetition, SetsTyped,
                windowVars, removedVars, poolVars
  <2> QED
    BY <2>1, MapsUntouched DEF StepOK, IInv
<1>3. ASSUME NEW s \in ShortIds \cup {NullSid}, NEW b \in BOOLEAN, ProcessTransactionMsg(h, s, b)
      PROVE  StepOK
  <2>1. WindowInv' /\ SetsTyped'
    BY <1>3 DEF ProcessTransactionMsg, IInv, WindowInv, WindowWithoutRepetition, SetsTyped, windowVars, removedVars
  <2>2. CASE UNCHANGED <<mapVars, poolVars>>
    BY <2>1, <2>2, MapsUntouched DEF StepOK, IInv, PoolInv, PoolQueuesSound, PoolReading, poolVars
  <2>3. CASE Assign(h, Given(s), SeenHash(h, s))
    <3>1. Given(s) \in SUBSET ShortIds /\ SeenHash(h, s) \in BOOLEAN
      BY DEF SeenHash
    <3> QED
      BY <2>1, <2>3, <3>1, AssignOK DEF StepOK, IInv
  <2> QED
    BY <1>3, <2>2, <2>3 DEF ProcessTransactionMsg
<1>4. ASSUME NEW s \in ShortIds \cup {NullSid}, NEW b \in BOOLEAN,
             ProcessGatewayTransactionFromBdn(h, s, b)
      PROVE  StepOK
  <2>1. /\ Assign(h, Given(s) \ KnownSids, FALSE)
        /\ WindowInv' /\ SetsTyped'
    BY <1>4 DEF ProcessGatewayTransactionFromBdn, IInv, WindowInv, WindowWithoutRepetition, SetsTyped,
                windowVars, removedVars
  <2>2. Given(s) \ KnownSids \in SUBSET ShortIds
    OBVIOUS
  <2> QED
    BY <2>1, <2>2, AssignOK DEF StepOK, IInv
<1>5. ASSUME ProcessGatewayTransactionFromNode(h) PROVE StepOK
  BY <1>2, <1>5 DEF ProcessGatewayTransactionFromNode
<1>6. ASSUME NEW sids \in SUBSET ShortIds, NEW b \in BOOLEAN, ProcessTxs(h, sids, b)
      PROVE  StepOK
  <2>1. Assign(h, sids \ KnownSids, FALSE) /\ WindowInv' /\ SetsTyped'
    BY <1>6 DEF ProcessTxs, IInv, WindowInv, WindowWithoutRepetition, SetsTyped, windowVars, removedVars
  <2>2. sids \ KnownSids \in SUBSET ShortIds
    OBVIOUS
  <2> QED
    BY <2>1, <2>2, AssignOK DEF StepOK, IInv
<1>7. ASSUME RemoveTransactionByHash(h) PROVE StepOK
  <2>1. Forget({h}, {}) /\ PoolErase({h} \cap KnownHashes) /\ WindowInv'
    BY <1>7 DEF RemoveTransactionByHash, IInv, WindowInv, WindowWithoutRepetition, windowVars
  <2>2. {h} \in SUBSET Hashes /\ {h} \cap KnownHashes \in SUBSET Hashes
    OBVIOUS
  <2>3. PoolInv'
    BY <2>1, <2>2, PoolTypes DEF IInv
  <2> QED
    BY <2>1, <2>2, <2>3, ForgetOK DEF StepOK, IInv
<1>8. ASSUME TrackSeenTransaction(h) PROVE StepOK
  <2>1. /\ UNCHANGED mapVars /\ PoolErase({h}) /\ WindowInv' /\ SetsTyped'
    BY <1>8 DEF TrackSeenTransaction, IInv, WindowInv, WindowWithoutRepetition, SetsTyped, windowVars, removedVars
  <2>2. PoolInv'
    BY <2>1, PoolTypes DEF IInv
  <2> QED
    BY <2>1, <2>2, MapsUntouched DEF StepOK, IInv
<1> QED
  BY <1>1, <1>2, <1>3, <1>4, <1>5, <1>6, <1>7, <1>8 DEF TransactionStep

-----------------------------------------------------------------------------
\* An entry of the window: a block and the short ids seen in it.
Entry == [block : Blocks, sids : SUBSET ShortIds]

\* OrderedMap::emplace keeps the window a sequence without repetition, and the
\* block is in it afterwards.
LEMMA EmplacedTyped ==
    ASSUME WindowInv, NEW b \in Blocks, NEW sids \in SUBSET ShortIds,
           NEW w, w = Emplaced(b, sids)
    PROVE  /\ w \in Seq(Entry) /\ Len(w) \in Nat \ {0}
           /\ \A i, j \in DOMAIN w : w[i].block = w[j].block => i = j
           /\ Len(w) <= Len(seenInBlock) + 1
<1> seenInBlock \in Seq(Entry)
  BY DEF WindowInv, Entry
<1>1. CASE b \in TrackedBlocks
  <2>1. w = seenInBlock
    BY <1>1 DEF Emplaced
  <2>2. PICK i \in DOMAIN seenInBlock : seenInBlock[i].block = b
    BY <1>1 DEF TrackedBlocks
  <2>3. Len(seenInBlock) \in Nat \ {0}
    BY <2>2
  <2> QED
    BY <2>1, <2>3 DEF WindowInv, WindowWithoutRepetition
<1>2. CASE b \notin TrackedBlocks
  <2> DEFINE e == [block |-> b, sids |-> sids]
  <2>1. w = Append(seenInBlock, e) /\ e \in Entry /\ e.block = b
    BY <1>2 DEF Emplaced, Entry
  <2>2. /\ w \in Seq(Entry) /\ Len(w) = Len(seenInBlock) + 1
        /\ \A i \in 1 .. Len(seenInBlock) : w[i] = seenInBlock[i]
        /\ w[Len(seenInBlock) + 1] = e
    BY <2>1
  <2>3. \A i \in 1 .. Len(seenInBlock) : seenInBlock[i].block # b
    BY <1>2 DEF TrackedBlocks
  <2>4. \A i, j \in 1 .. Len(seenInBlock) : seenInBlock[i].block = seenInBlock[j].block => i = j
    BY DEF WindowInv, WindowWithoutRepetition
  <2>5. ASSUME NEW i \in DOMAIN w, NEW j \in DOMAIN w, w[i].block = w[j].block
        PROVE  i = j
    <3>1. i \in 1 .. Len(seenInBlock) + 1 /\ j \in 1 .. Len(seenInBlock) + 1
      BY <2>2
    <3>2. CASE i = Len(seenInBlock) + 1 \/ j = Len(seenInBlock) + 1
      BY <2>1, <2>2, <2>3, <2>5, <3>1, <3>2
    <3>3. CASE i # Len(seenInBlock) + 1 /\ j # Len(seenInBlock) + 1
      BY <2>2, <2>4, <2>5, <3>1, <3>3
    <3> QED
      BY <3>2, <3>3
  <2> QED
    BY <2>2, <2>5
<1> QED
  BY <1>1, <1>2

\* A sequence put together from what is before and what is after place k of another
\* one is that sequence without its k-th element.
LEMMA Glued ==
    ASSUME NEW S, NEW w \in Seq(S), NEW k \in 1 .. Len(w), NEW p \in Seq(S), NEW q \in Seq(S),
           Len(p) = k - 1, Len(q) = Len(w) - k,
           \A i \in 1 .. k - 1 : p[i] = w[i],
           \A i \in 1 .. Len(w) - k : q[i] = w[i + k]
    PROVE  /\ p \o q \in Seq(S) /\ Len(p \o q) = Len(w) - 1
           /\ \A i \in 1 .. Len(w) - 1 : (p \o q)[i] = w[IF i < k THEN i ELSE i + 1]
<1>1. /\ p \o q \in Seq(S) /\ Len(p \o q) = Len(p) + Len(q)
      /\ \A i \in 1 .. Len(p) + Len(q) :
            (p \o q)[i] = IF i <= Len(p) THEN p[i] ELSE q[i - Len(p)]
  BY ConcatProperties
<1>2. Len(w) \in Nat /\ k \in Int
  OBVIOUS
<1>3. ASSUME NEW i \in 1 .. Len(w) - 1
      PROVE  (p \o q)[i] = w[IF i < k THEN i ELSE i + 1]
  <2>1. i \in 1 .. Len(p) + Len(q) /\ i \in Int
    BY <1>2
  <2>2. CASE i < k
    <3>1. i \in 1 .. k - 1 /\ i <= Len(p)
      BY <1>2, <2>1, <2>2
    <3> QED
      BY <1>1, <2>1, <2>2, <3>1
  <2>3. CASE ~(i < k)
    <3>1. ~(i <= Len(p)) /\ i - Len(p) \in 1 .. Len(w) - k /\ (i - Len(p)) + k = i + 1
      BY <1>2, <2>1, <2>3
    <3>2. (p \o q)[i] = q[i - Len(p)]
      BY <1>1, <2>1, <3>1
    <3>3. q[i - Len(p)] = w[(i - Len(p)) + k]
      BY <3>1
    <3> QED
      BY <2>3, <3>1, <3>2, <3>3
  <2> QED
    BY <2>2, <2>3
<1>4. Len(p \o q) = Len(w) - 1
  <2>1. Len(p) + Len(q) = Len(w) - 1
    BY <1>2
  <2> QED
    BY <1>1, <2>1
<1> QED
  BY <1>1, <1>3, <1>4

\* Dropping a block, the oldest or another one, keeps the window without repetition.
LEMMA DropTyped ==
    ASSUME NEW w \in Seq(Entry), NEW k \in 1 .. Len(w),
           \A i, j \in DOMAIN w : w[i].block = w[j].block => i = j
    PROVE  LET v == SubSeq(w, 1, k - 1) \o SubSeq(w, k + 1, Len(w))
           IN  /\ v \in Seq(Entry) /\ Len(v) = Len(w) - 1
               /\ \A i, j \in DOMAIN v : v[i].block = v[j].block => i = j
<1> DEFINE p == SubSeq(w, 1, k - 1)
           q == SubSeq(w, k + 1, Len(w))
           v == p \o q
<1>1. p \in Seq(Entry) /\ Len(p) = k - 1 /\ \A i \in 1 .. k - 1 : p[i] = w[i]
  OBVIOUS
<1>2. q \in Seq(Entry) /\ Len(q) = Len(w) - k /\ \A i \in 1 .. Len(w) - k : q[i] = w[i + k]
  OBVIOUS
<1> HIDE DEF p, q
<1>3. /\ v \in Seq(Entry) /\ Len(v) = Len(w) - 1
      /\ \A i \in 1 .. Len(w) - 1 : v[i] = w[IF i < k THEN i ELSE i + 1]
  BY <1>1, <1>2, Glued
<1> HIDE DEF v
<1>4. ASSUME NEW i \in DOMAIN v, NEW j \in DOMAIN v, v[i].block = v[j].block
      PROVE  i = j
  <2> DEFINE at(n) == IF n < k THEN n ELSE n + 1
  <2>1. i \in 1 .. Len(w) - 1 /\ j \in 1 .. Len(w) - 1 /\ Len(w) \in Nat /\ k \in Int
    BY <1>3
  <2>2. at(i) \in DOMAIN w /\ at(j) \in DOMAIN w
    BY <2>1
  <2>3. v[i] = w[at(i)] /\ v[j] = w[at(j)]
    BY <1>3, <2>1
  <2>4. at(i) = at(j)
    <3> HIDE DEF at
    <3> QED
      BY <1>4, <2>2, <2>3
  <2> QED
    BY <2>1, <2>4
<1> QED
  BY <1>3, <1>4 DEF v, p, q

\* The same for the oldest block.
LEMMA TailTyped ==
    ASSUME NEW w \in Seq(Entry), Len(w) \in Nat \ {0},
           \A i, j \in DOMAIN w : w[i].block = w[j].block => i = j
    PROVE  /\ Tail(w) \in Seq(Entry) /\ Len(Tail(w)) = Len(w) - 1
           /\ \A i, j \in DOMAIN Tail(w) : Tail(w)[i].block = Tail(w)[j].block => i = j
           /\ Head(w) \in Entry
<1>1. w # <<>>
  OBVIOUS
<1>2. /\ Tail(w) \in Seq(Entry) /\ Len(Tail(w)) = Len(w) - 1
      /\ \A i \in 1 .. Len(Tail(w)) : Tail(w)[i] = w[i + 1]
      /\ Head(w) \in Entry
  BY <1>1, HeadTailProperties
<1>3. ASSUME NEW i \in DOMAIN Tail(w), NEW j \in DOMAIN Tail(w),
             Tail(w)[i].block = Tail(w)[j].block
      PROVE  i = j
  <2>1. i \in 1 .. Len(w) - 1 /\ j \in 1 .. Len(w) - 1
    BY <1>2
  <2>2. Tail(w)[i] = w[i + 1] /\ Tail(w)[j] = w[j + 1] /\ i + 1 \in DOMAIN w /\ j + 1 \in DOMAIN w
    BY <1>2, <2>1
  <2>3. i + 1 = j + 1
    BY <1>3, <2>2
  <2> QED
    BY <2>1, <2>3
<1> QED
  BY <1>2, <1>3

-----------------------------------------------------------------------------
\* Tracking a block: the window, the pool, and the transactions that become final.
LEMMA TrackSeenShortIdsOK ==
    ASSUME IInv, NEW b \in Blocks, NEW sids \in SUBSET ShortIds, TrackSeenShortIds(b, sids)
    PROVE  StepOK /\ GrowsBelowCount
<1> DEFINE window == Emplaced(b, sids)
           seen == HashesOf(SidsSeenIn(window, b))
           final == Head(window).sids
<1>1. /\ window \in Seq(Entry) /\ Len(window) \in Nat \ {0}
      /\ \A i, j \in DOMAIN window : window[i].block = window[j].block => i = j
      /\ Len(window) <= Len(seenInBlock) + 1
  BY EmplacedTyped DEF IInv
<1>2. /\ Tail(window) \in Seq(Entry) /\ Len(Tail(window)) = Len(window) - 1
      /\ \A i, j \in DOMAIN Tail(window) : Tail(window)[i].block = Tail(window)[j].block => i = j
  BY <1>1, TailTyped
<1>3. seen \in SUBSET Hashes /\ HashesOf(final) \in SUBSET Hashes
  BY HashesOfTyped
<1>4. Len(seenInBlock) \in Nat /\ finalCount \in Nat
  BY ServiceAssumption DEF IInv, WindowInv
<1>5. CASE Len(window) >= finalCount
  <2>1. /\ Forget(HashesOf(final), final \cap KnownSids)
        /\ PoolErase(seen \cup (HashesOf(final) \cap KnownHashes))
        /\ seenInBlock' = Tail(window)
        /\ finalCount' = finalCount
    BY <1>5 DEF TrackSeenShortIds
  <2>2. \A s \in final \cap KnownSids : sidToHash[s] \in HashesOf(final)
    BY DEF HashesOf
  <2>3. final \cap KnownSids \in SUBSET KnownSids
    OBVIOUS
  <2> HIDE DEF window, seen, final
  <2>4. MapsInv' /\ SetsTyped' /\ BoundSidsKept
        /\ \A h \in KnownHashes \ KnownHashes' : LeavesAsAWhole(h)
    BY <1>3, <2>1, <2>2, <2>3, ForgetOK
  <2>5. PoolInv'
    <3>1. seen \cup (HashesOf(final) \cap KnownHashes) \in SUBSET Hashes
      BY <1>3
    <3> QED
      BY <2>1, <3>1, PoolTypes DEF IInv
  <2>6. WindowInv'
    BY <1>2, <2>1 DEF WindowInv, WindowWithoutRepetition, Entry, IInv
  <2>7. GrowsBelowCount
    BY <1>1, <1>2, <1>4, <2>1 DEF GrowsBelowCount
  <2> QED
    BY <2>4, <2>5, <2>6, <2>7 DEF StepOK, IInv
<1>6. CASE ~(Len(window) >= finalCount)
  <2>1. /\ PoolErase(seen) /\ seenInBlock' = window /\ finalCount' = finalCount
        /\ UNCHANGED <<mapVars, contents, removedVars>>
    BY <1>6 DEF TrackSeenShortIds
  <2> HIDE DEF window, seen, final
  <2>2. PoolInv'
    BY <1>3, <2>1, PoolTypes DEF IInv
  <2>3. WindowInv'
    BY <1>1, <2>1 DEF WindowInv, WindowWithoutRepetition, Entry, IInv
  <2>4. SetsTyped'
    BY <2>1 DEF SetsTyped, IInv, removedVars
  <2>5. GrowsBelowCount
    BY <1>1, <1>4, <1>6, <2>1 DEF GrowsBelowCount
  <2>6. MapsInv' /\ BoundSidsKept /\ \A h \in KnownHashes \ KnownHashes' : LeavesAsAWhole(h)
    BY <2>1, MapsUntouched DEF IInv
  <2> QED
    BY <2>2, <2>3, <2>4, <2>5, <2>6 DEF StepOK, IInv
<1> QED
  BY <1>5, <1>6

\* Forgetting a block that was cleaned up.
LEMMA OnBlockCleanedUpOK ==
    ASSUME IInv, NEW b \in Blocks, OnBlockCleanedUp(b)
    PROVE  StepOK /\ GrowsBelowCount
<1>1. PICK k \in DOMAIN seenInBlock :
         seenInBlock' = SubSeq(seenInBlock, 1, k - 1)
                            \o SubSeq(seenInBlock, k + 1, Len(seenInBlock))
  BY DEF OnBlockCleanedUp
<1>2. /\ seenInBlock \in Seq(Entry)
      /\ \A i, j \in DOMAIN seenInBlock : seenInBlock[i].block = seenInBlock[j].block => i = j
  BY DEF IInv, WindowInv, WindowWithoutRepetition, Entry
<1>3. k \in 1 .. Len(seenInBlock) /\ Len(seenInBlock) \in Nat
  BY <1>2
<1>4. /\ seenInBlock' \in Seq(Entry) /\ Len(seenInBlock') = Len(seenInBlock) - 1
      /\ \A i, j \in DOMAIN seenInBlock' :
            seenInBlock'[i].block = seenInBlock'[j].block => i = j
  BY <1>1, <1>2, <1>3, DropTyped
<1>5. UNCHANGED <<mapVars, contents, finalCount, removedVars, poolVars>>
  BY DEF OnBlockCleanedUp
<1>6. WindowInv'
  BY <1>4, <1>5 DEF IInv, WindowInv, WindowWithoutRepetition, Entry
<1>7. PoolInv' /\ SetsTyped'
  BY <1>5 DEF IInv, PoolInv, PoolQueuesSound, PoolReading, SetsTyped, poolVars, removedVars
<1>8. GrowsBelowCount
  BY <1>3, <1>4 DEF GrowsBelowCount
<1>9. MapsInv' /\ BoundSidsKept /\ \A h \in KnownHashes \ KnownHashes' : LeavesAsAWhole(h)
  BY <1>5, MapsUntouched DEF IInv
<1> QED
  BY <1>6, <1>7, <1>8, <1>9 DEF StepOK, IInv

\* clear() empties the maps and keeps the history.
LEMMA ClearOK ==
    ASSUME IInv, Clear
    PROVE  StepOK /\ GrowsBelowCount
<1>1. /\ KnownHashes' = {} /\ KnownSids' = {} /\ contents' = {} /\ assignTime' = {}
      /\ seenInBlock' = <<>> /\ finalCount' = finalCount
      /\ UNCHANGED removedVars
  BY DEF Clear, KnownHashes, KnownSids
<1>2. MapsInv' /\ SetsTyped' /\ BoundSidsKept
  BY <1>1 DEF MapsInv, MapsTyped, MapsAgree, AssignTimesTracked, SetsTyped, IInv,
              removedVars, BoundSidsKept
<1>3. PoolInv'
  BY PoolTypes DEF Clear, IInv
<1>4. WindowInv'
  BY <1>1 DEF IInv, WindowInv, WindowWithoutRepetition
<1>5. GrowsBelowCount
  BY <1>1 DEF GrowsBelowCount, IInv, WindowInv
<1>6. \A h \in KnownHashes \ KnownHashes' : LeavesAsAWhole(h)
  BY <1>1 DEF LeavesAsAWhole, Cleared
<1> QED
  BY <1>2, <1>3, <1>4, <1>5, <1>6 DEF StepOK, IInv

\* The readers of the pool: coming in with the queues empty, and leaving.
LEMMA PoolReadersOK ==
    ASSUME IInv, AcquireTxPool \/ OnFinishedReadingTxPool
    PROVE  StepOK
<1>1. UNCHANGED <<mapVars, contents, windowVars, removedVars>>
  BY DEF AcquireTxPool, OnFinishedReadingTxPool
<1>2. WindowInv' /\ SetsTyped'
  BY <1>1 DEF IInv, WindowInv, WindowWithoutRepetition, SetsTyped, windowVars, removedVars
<1>3. PoolInv'
  <2>1. CASE AcquireTxPool
    BY <2>1, ServiceAssumption DEF AcquireTxPool, IInv, PoolInv, PoolQueuesSound, PoolReading
  <2>2. CASE OnFinishedReadingTxPool
    BY <2>2, ServiceAssumption
       DEF OnFinishedReadingTxPool, IInv, PoolInv, PoolQueuesSound, PoolReading
  <2> QED
    BY <2>1, <2>2
<1> QED
  BY <1>1, <1>2, <1>3, MapsUntouched DEF StepOK, IInv

\* The calls that leave the window alone do not make it longer.
LEMMA WindowUntouched ==
    ASSUME IInv, UNCHANGED seenInBlock
    PROVE  GrowsBelowCount
BY DEF GrowsBelowCount, IInv, WindowInv

\* Every step keeps the invariant and does what the action properties allow.
LEMMA NextOK ==
    ASSUME IInv, Next
    PROVE  StepOK /\ GrowsBelowCount
<1>1. ASSUME NEW h \in Hashes, TransactionStep(h) PROVE StepOK /\ GrowsBelowCount
  <2>1. UNCHANGED seenInBlock
    BY <1>1 DEF TransactionStep, AssignShortId, SetTransactionContents, ProcessTransactionMsg,
                ProcessGatewayTransactionFromBdn, ProcessGatewayTransactionFromNode, ProcessTxs,
                RemoveTransactionByHash, TrackSeenTransaction, windowVars
  <2> QED
    BY <1>1, <2>1, TransactionStepOK, WindowUntouched
<1>2. ASSUME NEW s \in ShortIds, RemoveTransactionByShortId(s) PROVE StepOK /\ GrowsBelowCount
  <2>1. /\ Forget(HashesOf({s}), {s} \cap KnownSids)
        /\ PoolErase(HashesOf({s}) \cap KnownHashes)
        /\ UNCHANGED seenInBlock /\ WindowInv'
    BY <1>2 DEF RemoveTransactionByShortId, IInv, WindowInv, WindowWithoutRepetition, windowVars
  <2>2. /\ HashesOf({s}) \in SUBSET Hashes
        /\ HashesOf({s}) \cap KnownHashes \in SUBSET Hashes
        /\ {s} \cap KnownSids \in SUBSET KnownSids
    BY HashesOfTyped
  <2>3. \A q \in {s} \cap KnownSids : sidToHash[q] \in HashesOf({s})
    BY DEF HashesOf
  <2>4. PoolInv'
    BY <2>1, <2>2, PoolTypes DEF IInv
  <2>5. MapsInv' /\ SetsTyped' /\ BoundSidsKept
        /\ \A h \in KnownHashes \ KnownHashes' : LeavesAsAWhole(h)
    BY <2>1, <2>2, <2>3, ForgetOK
  <2> QED
    BY <2>1, <2>4, <2>5, WindowUntouched DEF StepOK, IInv
<1>3. ASSUME NEW b \in Blocks, BlockStep(b) PROVE StepOK /\ GrowsBelowCount
  BY <1>3, TrackSeenShortIdsOK, OnBlockCleanedUpOK DEF BlockStep
<1>4. ASSUME NEW n \in FinalCounts, SetFinalTxConfirmationsCount(n)
      PROVE  StepOK /\ GrowsBelowCount
  <2>1. /\ UNCHANGED mapVars /\ PoolInv' /\ WindowInv' /\ SetsTyped' /\ UNCHANGED seenInBlock
    BY <1>4 DEF SetFinalTxConfirmationsCount, IInv, PoolInv, PoolQueuesSound, PoolReading,
                WindowInv, WindowWithoutRepetition, SetsTyped, removedVars, poolVars
  <2> QED
    BY <2>1, MapsUntouched, WindowUntouched DEF StepOK, IInv
<1>5. ASSUME NEW hs, NEW sids, CleanupRemovedHistory(hs, sids)
      PROVE  StepOK /\ GrowsBelowCount
  <2>1. /\ UNCHANGED mapVars /\ PoolInv' /\ WindowInv' /\ SetsTyped' /\ UNCHANGED seenInBlock
    BY <1>5 DEF CleanupRemovedHistory, IInv, PoolInv, PoolQueuesSound, PoolReading,
                WindowInv, WindowWithoutRepetition, SetsTyped, windowVars, poolVars
  <2> QED
    BY <2>1, MapsUntouched, WindowUntouched DEF StepOK, IInv
<1>6. ASSUME AcquireTxPool \/ OnFinishedReadingTxPool PROVE StepOK /\ GrowsBelowCount
  <2>1. UNCHANGED seenInBlock
    BY <1>6 DEF AcquireTxPool, OnFinishedReadingTxPool, windowVars
  <2> QED
    BY <1>6, <2>1, PoolReadersOK, WindowUntouched
<1> QED
  BY <1>1, <1>2, <1>3, <1>4, <1>5, <1>6, ClearOK DEF Next

\* A stuttering step changes nothing.
LEMMA StutterOK ==
    ASSUME IInv, UNCHANGED vars
    PROVE  IInv'
BY MapsUntouched
   DEF vars, IInv, PoolInv, PoolQueuesSound, PoolReading, WindowInv, WindowWithoutRepetition,
       SetsTyped, windowVars, removedVars, poolVars

\* A service that was just constructed has empty containers.
LEMMA InitOK == Init => IInv
BY ServiceAssumption
   DEF Init, IInv, MapsInv, MapsTyped, MapsAgree, AssignTimesTracked, PoolInv, PoolQueuesSound,
       PoolReading, WindowInv, WindowWithoutRepetition, SetsTyped, KnownHashes, KnownSids

-----------------------------------------------------------------------------
\* The inductive invariant holds of every behaviour of the service.
THEOREM Invariance == Spec => []IInv
<1>1. IInv /\ [Next]_vars => IInv'
  BY NextOK, StutterOK DEF StepOK
<1> QED
  BY InitOK, <1>1, PTL DEF Spec

\* The containers of the service keep their types under every call.
THEOREM TypeCorrect == Spec => []TypeOK
<1>1. IInv => TypeOK
  BY DEF IInv, MapsInv, MapsTyped, PoolInv, WindowInv, SetsTyped, TypeOK, AssignTimesTracked
<1> QED
  BY Invariance, <1>1, PTL

\* The maps of hashes and short ids are inverse to each other, and the assign times
\* are those of the bound short ids.
THEOREM MapsConsistent == Spec => [](MapsAgree /\ AssignTimesTracked)
<1>1. IInv => MapsAgree /\ AssignTimesTracked
  BY DEF IInv, MapsInv
<1> QED
  BY Invariance, <1>1, PTL

\* The window tracks no block twice and the queues of the pool hold what they should.
THEOREM WindowAndPool == Spec => [](WindowWithoutRepetition /\ PoolQueuesSound)
<1>1. IInv => WindowWithoutRepetition /\ PoolQueuesSound
  BY DEF IInv, WindowInv, PoolInv
<1> QED
  BY Invariance, <1>1, PTL

\* No call makes a bound short id stand for another transaction.
THEOREM ShortIdsKeepTheirHash == Spec => ShortIdsStable
<1>1. IInv /\ [Next]_vars => [BoundSidsKept]_vars
  BY NextOK DEF StepOK
<1> QED
  BY Invariance, <1>1, PTL DEF Spec, ShortIdsStable

\* A transaction leaves the service with its contents, all its short ids, and an
\* entry in the history.
THEOREM WholeTransactionsLeave == Spec => RemovedAsAWhole
<1>1. IInv /\ [Next]_vars
          => [\A h \in KnownHashes \ KnownHashes' : LeavesAsAWhole(h)]_vars
  BY NextOK DEF StepOK
<1> QED
  BY Invariance, <1>1, PTL DEF Spec, RemovedAsAWhole

\* The window of unconfirmed blocks does not outgrow the confirmation count.
THEOREM WindowStaysBounded == Spec => WindowBounded
<1>1. IInv /\ [Next]_vars => [GrowsBelowCount]_vars
  BY NextOK
<1> QED
  BY Invariance, <1>1, PTL DEF Spec, WindowBounded
=============================================================================
