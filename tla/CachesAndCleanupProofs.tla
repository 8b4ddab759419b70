----------------------- MODULE CachesAndCleanupProofs -----------------------
(***************************************************************************)
(* What the service keeps and forgets, for any transactions, settings and  *)
(* sizes: sender nonces are refused and cleared as they must be, the       *)
(* history of removed hashes forgets what it must and no more, and the     *)
(* tasks that clean up after a block collect what it contains and account  *)
(* for what they remove.                                                   *)
(***************************************************************************)
EXTENDS SenderNonces, ContentCache, BlockCleanup,
        FiniteSetTheorems, SequenceTheorems, WellFoundedInduction, TLAPS

(* Erasing from the front.                                                 *)

LEMMA MinIsLeast ==
  ASSUME NEW S \in SUBSET Nat, S # {}
  PROVE  Min(S) \in S /\ \A x \in S : Min(S) <= x
<1> DEFINE R == {ss \in Nat \X Nat : ss[1] < ss[2]}
<1>1. IsWellFoundedOn(R, Nat)
  BY NatLessThanWellFounded, Zenon DEF OpToRel
<1> HIDE DEF R
<1>2. \E x \in S : \A y \in S : ~(<<y, x>> \in R)
  BY <1>1, WFMin
<1>3. \E x \in S : \A y \in S : x <= y
  <2>1. \A x, y \in Nat : y < x => <<y, x>> \in R
    BY DEF R
  <2>2. \A x, y \in Nat : ~(y < x) => x <= y
    OBVIOUS
  <2>3. \A x \in S : x \in Nat
    OBVIOUS
  <2> QED
    BY <1>2, <2>1, <2>2, <2>3
<1> QED
  BY <1>3 DEF Min

\* What is erased is a prefix of items that go, and what follows it stays.
Cut(map, going, left, cut) ==
    /\ cut \in 0 .. Len(map)
    /\ \A i \in 1 .. cut : i \in going
    /\ cut + 1 \notin going
    /\ Len(left) = Len(map) - cut
    /\ \A i \in 1 .. Len(left) : left[i] = map[i + cut]

LEMMA FrontErasedCuts ==
  ASSUME NEW S, NEW map \in Seq(S), NEW going \in SUBSET (DOMAIN map)
  PROVE  /\ FrontErased(map, going) \in Seq(S)
         /\ \E cut : Cut(map, going, FrontErased(map, going), cut)
<1> DEFINE T == (1 .. (Len(map) + 1)) \ going
           first == Min(T)
<1>1. Len(map) \in Nat /\ DOMAIN map = 1 .. Len(map)
  OBVIOUS
<1>2. T \in SUBSET Nat /\ Len(map) + 1 \in T
  BY <1>1
<1>3. first \in T /\ \A x \in T : first <= x
  <2> HIDE DEF T
  <2> QED
    BY <1>2, MinIsLeast
<1>4. first \in 1 .. Len(map) + 1 /\ first \notin going
  BY <1>3
<1>5. \A i \in 1 .. first - 1 : i \in going
  <2> SUFFICES ASSUME NEW i \in 1 .. first - 1, i \notin going PROVE FALSE
    OBVIOUS
  <2>1. i \in T /\ i \in Int /\ first \in Int /\ i < first
    BY <1>1, <1>4
  <2> HIDE DEF first, T
  <2> QED
    BY <1>3, <2>1
<1> DEFINE left == FrontErased(map, going)
<1>6. left = SubSeq(map, first, Len(map))
  BY DEF FrontErased
<1> HIDE DEF first, T
<1>7. \A i \in first .. Len(map) : map[i] \in S
  BY <1>1, <1>4
<1>8. /\ left \in Seq(S)
      /\ Len(left) = IF first <= Len(map) THEN Len(map) - first + 1 ELSE 0
      /\ \A i \in 1 .. Len(map) - first + 1 : left[i] = map[first + i - 1]
  <2> HIDE DEF left
  <2>1. first \in Int /\ Len(map) \in Int
    BY <1>1, <1>4
  <2> QED
    BY <1>6, <1>7, <2>1, SubSeqProperties
<1> HIDE DEF left
<1>9. Cut(map, going, left, first - 1)
  BY <1>1, <1>4, <1>5, <1>8 DEF Cut
<1> QED
  BY <1>8, <1>9 DEF left

-----------------------------------------------------------------------------
(* The history of removed hashes.                                          *)

HistoryItem == [key : TxHashes, val : Nat]

\* The keys are distinct, and the times of the items that are not marked come in
\* order and are not later than time.
Distinct(map) == \A i, j \in 1 .. Len(map) : map[i].key = map[j].key => i = j
Plain(map, marked, i) == map[i].key \notin marked
Past(map, marked, time) == \A i \in 1 .. Len(map) : Plain(map, marked, i) => map[i].val <= time
InOrder(map, marked) ==
    \A i, j \in 1 .. Len(map) :
        i <= j /\ Plain(map, marked, i) /\ Plain(map, marked, j) => map[i].val <= map[j].val
Ordered(map, marked, time) == Distinct(map) /\ Past(map, marked, time) /\ InOrder(map, marked)

\* The other variables of ContentCache play no part.
HistoryInOrder ==
    /\ clock \in Nat
    /\ removed \in Seq(HistoryItem)
    /\ Ordered(removed, rewritten, clock)

\* The items of a history.
LEMMA HistoryItems ==
  ASSUME NEW map \in Seq(HistoryItem)
  PROVE  /\ Len(map) \in Nat
         /\ DOMAIN map = 1 .. Len(map)
         /\ \A i \in 1 .. Len(map) : map[i] \in HistoryItem /\ map[i].val \in Nat /\ map[i].key \in TxHashes
<1>1. /\ Len(map) \in Nat
      /\ DOMAIN map = 1 .. Len(map)
      /\ \A i \in 1 .. Len(map) : map[i] \in HistoryItem
  OBVIOUS
<1> QED
  BY <1>1 DEF HistoryItem

\* left has items of map, in the order of map.
PartBy(left, map, f) ==
    /\ f \in [1 .. Len(left) -> 1 .. Len(map)]
    /\ \A i, j \in 1 .. Len(left) : i < j => f[i] < f[j]
    /\ \A i \in 1 .. Len(left) : left[i] = map[f[i]]

LEMMA PartIsOrdered ==
  ASSUME NEW map \in Seq(HistoryItem), NEW left \in Seq(HistoryItem), NEW f, PartBy(left, map, f),
         NEW marked, NEW remarked, NEW time, Ordered(map, marked, time),
         \A i \in 1 .. Len(left) : Plain(left, remarked, i) => Plain(left, marked, i)
  PROVE  Ordered(left, remarked, time)
<1>1. /\ \A i \in 1 .. Len(left) : f[i] \in 1 .. Len(map) /\ left[i] = map[f[i]]
      /\ \A i, j \in 1 .. Len(left) : i < j => f[i] < f[j]
  BY DEF PartBy
<1>2. Len(left) \in Nat /\ Len(map) \in Nat
  OBVIOUS
<1>3. \A i \in 1 .. Len(left) : Plain(left, remarked, i) => Plain(map, marked, f[i])
  BY <1>1 DEF Plain
<1>4. Distinct(left)
  <2> SUFFICES ASSUME NEW i \in 1 .. Len(left), NEW j \in 1 .. Len(left), left[i].key = left[j].key
               PROVE  i = j
    BY DEF Distinct
  <2>1. f[i] = f[j]
    BY <1>1 DEF Ordered, Distinct
  <2>2. i \in Int /\ j \in Int /\ f[i] \in Int
    BY <1>1, <1>2
  <2>3. ~(i < j) /\ ~(j < i)
    BY <1>1, <2>1, <2>2
  <2> QED
    BY <2>2, <2>3
<1>5. Past(left, remarked, time)
  BY <1>1, <1>3 DEF Ordered, Past
<1>6. InOrder(left, remarked)
  <2> SUFFICES ASSUME NEW i \in 1 .. Len(left), NEW j \in 1 .. Len(left), i <= j,
                      Plain(left, remarked, i), Plain(left, remarked, j)
               PROVE  left[i].val <= left[j].val
    BY DEF InOrder
  <2>1. i \in Int /\ j \in Int /\ f[i] \in Int /\ f[j] \in Int
    BY <1>1, <1>2
  <2>2. f[i] <= f[j]
    <3>1. CASE i = j
      BY <2>1, <3>1
    <3>2. CASE i < j
      BY <1>1, <2>1, <3>2
    <3> QED
      BY <2>1, <3>1, <3>2
  <2> QED
    BY <1>1, <1>3, <2>2 DEF Ordered, InOrder
<1> QED
  BY <1>4, <1>5, <1>6 DEF Ordered

\* An item at the end: its time is the latest, or it is marked.
LEMMA AppendIsOrdered ==
  ASSUME NEW map \in Seq(HistoryItem), NEW item \in HistoryItem, item.key \notin Keys(map),
         NEW left, left = Append(map, item), NEW time \in Nat,
         NEW marked, NEW remarked, Ordered(map, marked, time), marked \subseteq remarked,
         item.key \in remarked \/ item.val = time
  PROVE  left \in Seq(HistoryItem) /\ Ordered(left, remarked, time)
<1>1. /\ left \in Seq(HistoryItem)
      /\ Len(left) = Len(map) + 1
      /\ \A i \in 1 .. Len(map) : left[i] = map[i]
      /\ left[Len(map) + 1] = item
      /\ Len(map) \in Nat
  OBVIOUS
<1>2. /\ \A i \in 1 .. Len(left) : i \in 1 .. Len(map) \/ i = Len(map) + 1
      /\ DOMAIN map = 1 .. Len(map)
  BY <1>1
<1>3. \A i \in 1 .. Len(map) : map[i].key # item.key
  BY <1>2 DEF Keys
<1>4. Distinct(left)
  BY <1>1, <1>2, <1>3 DEF Distinct, Ordered
<1>5. \A i \in 1 .. Len(map) : Plain(left, remarked, i) => Plain(map, marked, i)
  BY <1>1 DEF Plain
<1>6. \A i \in 1 .. Len(left) : i \notin 1 .. Len(map) /\ Plain(left, remarked, i) => left[i].val = time
  BY <1>1, <1>2 DEF Plain
<1>7. Past(left, remarked, time)
  BY <1>1, <1>2, <1>5, <1>6 DEF Past, Ordered
<1>8. InOrder(left, remarked)
  <2> SUFFICES ASSUME NEW i \in 1 .. Len(left), NEW j \in 1 .. Len(left), i <= j,
                      Plain(left, remarked, i), Plain(left, remarked, j)
               PROVE  left[i].val <= left[j].val
    BY DEF InOrder
  <2>1. CASE j \in 1 .. Len(map)
    <3>1. i \in 1 .. Len(map)
      BY <1>1, <2>1
    <3> QED
      BY <1>1, <1>5, <2>1, <3>1 DEF Ordered, InOrder
  <2>2. CASE j \notin 1 .. Len(map)
    BY <1>6, <1>7, <2>2 DEF Past
  <2> QED
    BY <2>1, <2>2
<1> QED
  BY <1>1, <1>4, <1>7, <1>8 DEF Ordered

LEMMA HistoryInitOK == ContentsInit => HistoryInOrder
  BY DEF ContentsInit, HistoryInOrder, Ordered, Distinct, Past, InOrder

\* cleanup_removed_hashes_history.
LEMMA CleanupStep ==
  ASSUME HistoryInOrder, CleanupRemovedHashesHistory
  PROVE  HistoryInOrder' /\ ExpiredForgotten /\ ForgetsOnlyWhatItMust
<1> DEFINE going == {i \in DOMAIN removed : Forgotten(i)}
<1>1. removed \in Seq(HistoryItem) /\ going \in SUBSET (DOMAIN removed) /\ removed' = FrontErased(removed, going)
  BY DEF HistoryInOrder, CleanupRemovedHashesHistory
<1>2. /\ clock' = clock /\ clock \in Nat
      /\ rewritten' = rewritten \cap Keys(removed')
      /\ Ordered(removed, rewritten, clock)
  BY DEF HistoryInOrder, CleanupRemovedHashesHistory
<1>3. /\ \A i \in 1 .. Len(removed) : removed[i].val \in Nat
      /\ Len(removed) \in Nat
      /\ DOMAIN removed = 1 .. Len(removed)
  BY <1>1, HistoryItems
<1>4. /\ \A i \in going : i \in 1 .. Len(removed) /\ (Expired(i) \/ TooMany(i))
      /\ \A i \in 1 .. Len(removed) : i \notin going => ~Expired(i) /\ ~TooMany(i)
  BY <1>3 DEF Forgotten
<1> HIDE DEF going
<1>5. removed' \in Seq(HistoryItem)
  BY <1>1, FrontErasedCuts
<1>6. PICK cut : Cut(removed, going, removed', cut)
  BY <1>1, FrontErasedCuts
<1>7. /\ cut \in 0 .. Len(removed)
      /\ \A i \in 1 .. cut : i \in going
      /\ cut + 1 \notin going
      /\ Len(removed') = Len(removed) - cut
      /\ \A i \in 1 .. Len(removed') : removed'[i] = removed[i + cut] /\ i + cut \in 1 .. Len(removed)
  BY <1>3, <1>6 DEF Cut
<1>8. \A i \in 1 .. Len(removed') : removed'[i].key \in Keys(removed')
  BY <1>5 DEF Keys
<1>9. HistoryInOrder'
  <2>1. PartBy(removed', removed, [i \in 1 .. Len(removed') |-> i + cut])
    BY <1>3, <1>7 DEF PartBy
  <2>2. \A i \in 1 .. Len(removed') : Plain(removed', rewritten', i) => Plain(removed', rewritten, i)
    BY <1>2, <1>8 DEF Plain
  <2>3. Ordered(removed', rewritten', clock)
    BY <1>1, <1>2, <1>5, <2>1, <2>2, PartIsOrdered
  <2> QED
    BY <1>2, <1>5, <2>3 DEF HistoryInOrder
<1>10. ASSUME NEW i \in 1 .. Len(removed), NEW j \in 1 .. Len(removed), i <= j, ~Expired(i), Expired(j)
       PROVE  removed[i].key \in rewritten \/ removed[j].key \in rewritten
  <2> SUFFICES ASSUME Plain(removed, rewritten, i), Plain(removed, rewritten, j) PROVE FALSE
    BY DEF Plain
  <2>1. removed[i].val <= removed[j].val
    BY <1>2, <1>10 DEF Ordered, InOrder
  <2>2. PICK x \in Nat, y \in Nat : x = removed[i].val /\ y = removed[j].val
    BY <1>3
  <2>3. x <= y /\ ~(clock - x > Expiration) /\ clock - y > Expiration
    BY <1>10, <2>1, <2>2 DEF Expired
  <2>4. \A a, b, c, d \in Int : ~(b <= c /\ ~(a - b > d) /\ a - c > d)
    OBVIOUS
  <2>5. clock \in Int /\ x \in Int /\ y \in Int /\ Expiration \in Int
    BY <1>2, ContentsAssumption
  <2> QED
    BY <2>3, <2>4, <2>5, Zenon
<1>11. ExpiredForgotten
  <2> SUFFICES ASSUME NEW i \in 1 .. Len(removed'), clock - removed'[i].val > Expiration
               PROVE  removed'[1].key \in rewritten \/ removed'[i].key \in rewritten
    BY <1>5 DEF ExpiredForgotten
  <2>1. /\ 1 \in 1 .. Len(removed')
        /\ cut + 1 \in 1 .. Len(removed) /\ i + cut \in 1 .. Len(removed) /\ cut + 1 <= i + cut
        /\ 1 + cut = cut + 1
    BY <1>3, <1>7
  <2>2. removed'[1] = removed[cut + 1] /\ removed'[i] = removed[i + cut]
    BY <1>7, <2>1
  <2>3. ~Expired(cut + 1) /\ Expired(i + cut)
    <3>1. ~Expired(cut + 1)
      BY <1>4, <1>7, <2>1
    <3> QED
      BY <2>2, <3>1 DEF Expired
  <2> QED
    BY <1>10, <2>1, <2>2, <2>3
<1>12. ForgetsOnlyWhatItMust
  <2> SUFFICES ASSUME NEW i \in 1 .. Len(removed), ~(clock - removed[i].val > Expiration),
                      removed[i].key \notin Keys(removed'), Len(removed') # MaxItems
               PROVE  \E j \in 1 .. Len(removed) : removed[j].key \in rewritten \ Keys(removed')
    BY <1>3 DEF ForgetsOnlyWhatItMust
  <2>1. i <= cut
    <3> SUFFICES ASSUME ~(i <= cut) PROVE FALSE
      OBVIOUS
    <3>1. i - cut \in 1 .. Len(removed') /\ removed'[i - cut] = removed[i]
      BY <1>3, <1>7
    <3> QED
      BY <1>8, <3>1
  <2>2. cut \in 1 .. Len(removed) /\ cut \in going
    BY <1>3, <1>7, <2>1
  <2>3. ~TooMany(cut)
    <3> SUFFICES ASSUME TooMany(cut) PROVE FALSE
      OBVIOUS
    <3>1. MaxItems \in Nat /\ Len(removed) \in Nat /\ cut \in 1 .. Len(removed)
      BY <1>3, <2>2, ContentsAssumption
    <3>2. Len(removed) - cut + 1 > MaxItems
      BY DEF TooMany
    <3>3. cut + 1 \in 1 .. Len(removed) => ~TooMany(cut + 1)
      BY <1>4, <1>7
    <3>4. cut + 1 \in 1 .. Len(removed) => Len(removed) - (cut + 1) + 1 <= MaxItems
      BY <3>1, <3>3 DEF TooMany
    <3>5. Len(removed) - cut = MaxItems
      <4>1. CASE cut = Len(removed)
        BY <3>1, <3>2, <4>1
      <4>2. CASE cut # Len(removed)
        <5>1. cut + 1 \in 1 .. Len(removed)
          BY <3>1, <4>2
        <5>2. Len(removed) - cut <= MaxItems
          BY <3>1, <3>4, <5>1
        <5> QED
          BY <3>1, <3>2, <5>2
      <4> QED
        BY <4>1, <4>2
    <3>6. Len(removed') = MaxItems
      BY <1>7, <3>5
    <3> QED
      BY <3>6
  <2>4. Expired(cut) /\ ~Expired(i)
    BY <1>4, <2>2, <2>3 DEF Expired
  <2>5. removed[i].key \in rewritten \/ removed[cut].key \in rewritten
    BY <1>10, <2>1, <2>2, <2>4
  <2>6. removed[cut].key \notin Keys(removed')
    <3> SUFFICES ASSUME removed[cut].key \in Keys(removed') PROVE FALSE
      OBVIOUS
    <3>1. PICK k \in 1 .. Len(removed') : removed'[k].key = removed[cut].key
      BY <1>5 DEF Keys
    <3>2. removed[k + cut].key = removed[cut].key /\ k + cut \in 1 .. Len(removed)
      BY <1>7, <3>1
    <3>3. k + cut = cut
      BY <1>2, <2>2, <3>2 DEF Ordered, Distinct
    <3> QED
      BY <1>3, <1>7, <3>1, <3>3
  <2> QED
    BY <2>2, <2>5, <2>6
<1> QED
  BY <1>9, <1>11, <1>12

\* A removal is put at the end of the history, unless the hash is in it.
LEMMA RemovalStep ==
  ASSUME HistoryInOrder, NEW h \in TxHashes, RemoveTransactionByHash(h)
  PROVE  HistoryInOrder'
<1>1. /\ clock' = clock /\ rewritten' = rewritten /\ removed' = Emplaced(removed, h, clock)
      /\ removed \in Seq(HistoryItem) /\ clock \in Nat /\ Ordered(removed, rewritten, clock)
  BY DEF RemoveTransactionByHash, HistoryInOrder
<1>2. CASE h \in Keys(removed)
  BY <1>1, <1>2 DEF Emplaced, HistoryInOrder
<1>3. CASE h \notin Keys(removed)
  <2> DEFINE item == [key |-> h, val |-> clock]
  <2>1. item \in HistoryItem /\ item.key = h /\ item.val = clock /\ removed' = Append(removed, item)
    BY <1>1, <1>3 DEF HistoryItem, Emplaced
  <2> HIDE DEF item
  <2>2. removed' \in Seq(HistoryItem) /\ Ordered(removed', rewritten, clock)
    BY <1>1, <1>3, <2>1, AppendIsOrdered
  <2> QED
    BY <1>1, <2>2 DEF HistoryInOrder
<1> QED
  BY <1>2, <1>3

\* The place of a key.
LEMMA PositionIs ==
  ASSUME NEW map, NEW k, k \in Keys(map)
  PROVE  Position(map, k) \in DOMAIN map /\ map[Position(map, k)].key = k
BY DEF Keys, Position

\* A time that is written in place is marked.
LEMMA AssignedStep ==
  ASSUME HistoryInOrder, NEW h \in TxHashes, NEW time \in Nat, SetTimeRemoved(h, time)
  PROVE  HistoryInOrder'
<1>1. /\ clock' = clock /\ rewritten' = rewritten \cup {h} /\ removed' = Assigned(removed, h, time)
      /\ removed \in Seq(HistoryItem) /\ clock \in Nat /\ Ordered(removed, rewritten, clock)
  BY DEF SetTimeRemoved, HistoryInOrder
<1>2. CASE h \notin Keys(removed)
  <2> DEFINE item == [key |-> h, val |-> time]
  <2>1. item \in HistoryItem /\ item.key = h /\ removed' = Append(removed, item)
    BY <1>1, <1>2 DEF HistoryItem, Assigned
  <2> HIDE DEF item
  <2>2. rewritten \subseteq rewritten' /\ h \in rewritten'
    BY <1>1
  <2>3. removed' \in Seq(HistoryItem) /\ Ordered(removed', rewritten', clock)
    BY <1>1, <1>2, <2>1, <2>2, AppendIsOrdered
  <2> QED
    BY <1>1, <2>3 DEF HistoryInOrder
<1>3. CASE h \in Keys(removed)
  <2> DEFINE p == Position(removed, h)
  <2>1. p \in 1 .. Len(removed) /\ removed[p].key = h
    BY <1>1, <1>3, PositionIs, HistoryItems
  <2>2. removed' = [removed EXCEPT ![p].val = time]
    BY <1>1, <1>3 DEF Assigned
  <2> HIDE DEF p
  <2>3. Len(removed) \in Nat /\ DOMAIN removed = 1 .. Len(removed)
        /\ \A i \in 1 .. Len(removed) : removed[i] \in HistoryItem
    BY <1>1, HistoryItems
  <2>4. /\ DOMAIN removed' = 1 .. Len(removed)
        /\ removed' = [i \in 1 .. Len(removed) |-> IF i = p THEN [removed[p] EXCEPT !.val = time] ELSE removed[i]]
    BY <2>1, <2>2, <2>3
  <2>5. [removed[p] EXCEPT !.val = time] \in HistoryItem /\ [removed[p] EXCEPT !.val = time].key = h
    BY <2>1, <2>3 DEF HistoryItem
  <2>6. /\ removed' \in Seq(HistoryItem) /\ Len(removed') = Len(removed)
        /\ \A i \in 1 .. Len(removed) : removed'[i].key = removed[i].key
        /\ \A i \in 1 .. Len(removed) : i # p => removed'[i] = removed[i]
    <3>1. \A i \in 1 .. Len(removed) : removed'[i] \in HistoryItem
      BY <2>3, <2>4, <2>5
    <3>2. \A i \in 1 .. Len(removed) : i # p => removed'[i] = removed[i]
      BY <2>4
    <3>3. \A i \in 1 .. Len(removed) : removed'[i].key = removed[i].key
      BY <2>1, <2>4, <2>5
    <3>4. removed' \in Seq(HistoryItem)
      BY <2>3, <2>4, <3>1, SeqDef
    <3> QED
      BY <2>3, <2>4, <3>2, <3>3, <3>4, LenProperties
  <2>7. \A i \in 1 .. Len(removed) : Plain(removed', rewritten', i) =>
            Plain(removed, rewritten, i) /\ removed'[i] = removed[i]
    BY <1>1, <2>1, <2>6 DEF Plain
  <2>8. Ordered(removed', rewritten', clock)
    <3>1. Distinct(removed')
      BY <1>1, <2>6 DEF Ordered, Distinct
    <3>2. Past(removed', rewritten', clock)
      BY <1>1, <2>6, <2>7 DEF Ordered, Past
    <3>3. InOrder(removed', rewritten')
      BY <1>1, <2>6, <2>7 DEF Ordered, InOrder
    <3> QED
      BY <3>1, <3>2, <3>3 DEF Ordered
  <2> QED
    BY <1>1, <2>6, <2>8 DEF HistoryInOrder
<1> QED
  BY <1>2, <1>3

\* What is left when the item at p is erased.
LEMMA WithoutItemIs ==
  ASSUME NEW map \in Seq(HistoryItem), NEW p \in 1 .. Len(map)
  PROVE  /\ WithoutItem(map, p) \in Seq(HistoryItem)
         /\ Len(WithoutItem(map, p)) = Len(map) - 1
         /\ \A i \in 1 .. Len(map) - 1 : WithoutItem(map, p)[i] = map[IF i < p THEN i ELSE i + 1]
<1> DEFINE a == SubSeq(map, 1, p - 1)
           b == SubSeq(map, p + 1, Len(map))
<1>1. Len(map) \in Nat /\ p \in Nat /\ 1 <= p /\ p <= Len(map)
  OBVIOUS
<1>2. \A i \in 1 .. Len(map) : map[i] \in HistoryItem
  OBVIOUS
<1>3. /\ a \in Seq(HistoryItem) /\ Len(a) = p - 1
      /\ \A i \in 1 .. p - 1 : a[i] = map[i]
  <2>1. \A i \in 1 .. p - 1 : map[i] \in HistoryItem
    BY <1>1, <1>2
  <2>2. 1 \in Int /\ p - 1 \in Int
    BY <1>1
  <2>3. /\ a \in Seq(HistoryItem)
        /\ Len(a) = IF 1 <= p - 1 THEN p - 1 - 1 + 1 ELSE 0
        /\ \A i \in 1 .. p - 1 - 1 + 1 : a[i] = map[1 + i - 1]
    BY <2>1, <2>2, SubSeqProperties
  <2> HIDE DEF a
  <2> QED
    BY <1>1, <2>3
<1>4. /\ b \in Seq(HistoryItem) /\ Len(b) = Len(map) - p
      /\ \A i \in 1 .. Len(map) - p : b[i] = map[p + i]
  <2>1. \A i \in p + 1 .. Len(map) : map[i] \in HistoryItem
    BY <1>1, <1>2
  <2>2. p + 1 \in Int /\ Len(map) \in Int
    BY <1>1
  <2>3. /\ b \in Seq(HistoryItem)
        /\ Len(b) = IF p + 1 <= Len(map) THEN Len(map) - (p + 1) + 1 ELSE 0
        /\ \A i \in 1 .. Len(map) - (p + 1) + 1 : b[i] = map[p + 1 + i - 1]
    BY <2>1, <2>2, SubSeqProperties
  <2> HIDE DEF b
  <2> QED
    BY <1>1, <2>3
<1>5. WithoutItem(map, p) = a \o b
  BY DEF WithoutItem
<1> HIDE DEF a, b
<1>6. /\ a \o b \in Seq(HistoryItem)
      /\ Len(a \o b) = Len(a) + Len(b)
      /\ \A i \in 1 .. Len(a) + Len(b) : (a \o b)[i] = IF i <= Len(a) THEN a[i] ELSE b[i - Len(a)]
  BY <1>3, <1>4, ConcatProperties
<1> DEFINE c == a \o b
<1>7. WithoutItem(map, p) = c
  BY <1>5
<1>8. c \in Seq(HistoryItem) /\ Len(c) = Len(map) - 1
      /\ \A i \in 1 .. Len(map) - 1 : c[i] = IF i <= p - 1 THEN a[i] ELSE b[i - (p - 1)]
  BY <1>1, <1>3, <1>4, <1>6
<1> HIDE DEF c
<1>9. \A i \in 1 .. Len(map) - 1 : c[i] = map[IF i < p THEN i ELSE i + 1]
  <2> SUFFICES ASSUME NEW i \in 1 .. Len(map) - 1 PROVE c[i] = map[IF i < p THEN i ELSE i + 1]
    OBVIOUS
  <2>1. CASE i < p
    BY <1>1, <1>3, <1>8, <2>1
  <2>2. CASE ~(i < p)
    <3>1. i - (p - 1) \in 1 .. Len(map) - p /\ p + (i - (p - 1)) = i + 1
      BY <1>1, <2>2
    <3>2. b[i - (p - 1)] = map[p + (i - (p - 1))]
      BY <1>4, <3>1
    <3> QED
      BY <1>1, <1>8, <2>2, <3>1, <3>2
  <2> QED
    BY <2>1, <2>2
<1> QED
  BY <1>7, <1>8, <1>9

LEMMA ErasedStep ==
  ASSUME HistoryInOrder, NEW h \in TxHashes, DeleteTimeRemoved(h)
  PROVE  HistoryInOrder'
<1>1. /\ clock' = clock /\ rewritten' = rewritten \ {h} /\ removed' = Erased(removed, h)
      /\ removed \in Seq(HistoryItem) /\ clock \in Nat /\ Ordered(removed, rewritten, clock)
  BY DEF DeleteTimeRemoved, HistoryInOrder
<1>2. Len(removed) \in Nat /\ DOMAIN removed = 1 .. Len(removed)
  BY <1>1, HistoryItems
<1>3. CASE h \notin Keys(removed)
  <2>1. removed' = removed
    BY <1>1, <1>3 DEF Erased
  <2>2. \A i \in 1 .. Len(removed) : Plain(removed, rewritten', i) => Plain(removed, rewritten, i)
    BY <1>1, <1>2, <1>3 DEF Keys, Plain
  <2>3. PartBy(removed, removed, [i \in 1 .. Len(removed) |-> i])
    BY <1>2 DEF PartBy
  <2>4. Ordered(removed, rewritten', clock)
    BY <1>1, <2>2, <2>3, PartIsOrdered
  <2> QED
    BY <1>1, <2>1, <2>4 DEF HistoryInOrder
<1>4. CASE h \in Keys(removed)
  <2> DEFINE p == Position(removed, h)
             f == [i \in 1 .. Len(removed') |-> IF i < p THEN i ELSE i + 1]
  <2>1. p \in 1 .. Len(removed) /\ removed[p].key = h
    BY <1>2, <1>4, PositionIs
  <2>2. removed' = WithoutItem(removed, p)
    BY <1>1, <1>4 DEF Erased
  <2> HIDE DEF p
  <2>3. /\ removed' \in Seq(HistoryItem)
        /\ Len(removed') = Len(removed) - 1
        /\ \A i \in 1 .. Len(removed) - 1 : removed'[i] = removed[IF i < p THEN i ELSE i + 1]
    BY <1>1, <2>1, <2>2, WithoutItemIs
  <2>4. /\ \A i \in 1 .. Len(removed') : f[i] \in 1 .. Len(removed) /\ f[i] # p
        /\ \A i, j \in 1 .. Len(removed') : i < j => f[i] < f[j]
        /\ f \in [1 .. Len(removed') -> 1 .. Len(removed)]
    BY <1>2, <2>1, <2>3
  <2>5. \A i \in 1 .. Len(removed') : removed'[i] = removed[f[i]]
    BY <2>3
  <2> HIDE DEF f
  <2>6. PartBy(removed', removed, f)
    BY <2>4, <2>5 DEF PartBy
  <2>7. \A i \in 1 .. Len(removed') : removed'[i].key # h
    BY <1>1, <2>1, <2>4, <2>5 DEF Ordered, Distinct
  <2>8. \A i \in 1 .. Len(removed') : Plain(removed', rewritten', i) => Plain(removed', rewritten, i)
    BY <1>1, <2>7 DEF Plain
  <2>9. Ordered(removed', rewritten', clock)
    BY <1>1, <2>3, <2>6, <2>8, PartIsOrdered
  <2> QED
    BY <1>1, <2>3, <2>9 DEF HistoryInOrder
<1> QED
  BY <1>3, <1>4

LEMMA HistoryNextOK == HistoryInOrder /\ [ContentsNext]_contentsVars => HistoryInOrder'
<1> SUFFICES ASSUME HistoryInOrder, [ContentsNext]_contentsVars PROVE HistoryInOrder'
  OBVIOUS
<1>1. ASSUME clock' = clock \/ clock' = clock + 1, rewritten' = rewritten, removed' = removed
      PROVE  HistoryInOrder'
  <2>1. removed \in Seq(HistoryItem) /\ clock \in Nat /\ Ordered(removed, rewritten, clock)
    BY DEF HistoryInOrder
  <2>2. Past(removed, rewritten, clock')
    <3>1. \A i \in 1 .. Len(removed) : removed[i].val \in Nat
      BY <2>1, HistoryItems
    <3>2. \A a, b \in Nat : a <= b => a <= b + 1
      OBVIOUS
    <3> QED
      BY <1>1, <2>1, <3>1, <3>2 DEF Ordered, Past
  <2>3. clock' \in Nat
    BY <1>1, <2>1
  <2> QED
    BY <1>1, <2>1, <2>2, <2>3 DEF HistoryInOrder, Ordered
<1>2. CASE ClearTimesRemoved
  <2>1. clock' = clock /\ removed' = << >> /\ clock \in Nat
    BY <1>2 DEF ClearTimesRemoved, HistoryInOrder
  <2> QED
    BY <2>1 DEF HistoryInOrder, Ordered, Distinct, Past, InOrder
<1>3. ASSUME NEW h \in TxHashes, NEW time \in 0 .. MaxClock, SetTimeRemoved(h, time)
      PROVE  HistoryInOrder'
  <2>1. time \in Nat
    BY ContentsAssumption
  <2> QED
    BY <1>3, <2>1, AssignedStep
<1>4. ASSUME NEW h \in TxHashes, RemoveTransactionByHash(h) \/ DeleteTimeRemoved(h)
      PROVE  HistoryInOrder'
  BY <1>4, RemovalStep, ErasedStep
<1>5. CASE CleanupRemovedHashesHistory
  BY <1>5, CleanupStep
<1> QED
  BY <1>1, <1>2, <1>3, <1>4, <1>5 DEF ContentsNext, SetTransactionContents, EmplaceContents,
     ReplaceContents, DeleteContents, Clear, Advance, contentsVars

\* cleanup_removed_hashes_history stops at the first hash that has not expired: an
\* expired one stays behind it only if one of the two times was written by
\* __setitem__, and none is forgotten too early unless the history is too long or
\* such a hash goes with it.
THEOREM HistoryIsCleaned == ContentsSpec => HistoryCleaned
<1>1. HistoryInOrder => (CleanupRemovedHashesHistory => ExpiredForgotten /\ ForgetsOnlyWhatItMust)
  BY CleanupStep
<1>2. HistoryInOrder /\ [ContentsNext]_contentsVars =>
        [CleanupRemovedHashesHistory => ExpiredForgotten /\ ForgetsOnlyWhatItMust]_contentsVars
  BY <1>1
<1> QED
  BY <1>2, HistoryInitOK, HistoryNextOK, PTL DEF ContentsSpec, HistoryCleaned

-----------------------------------------------------------------------------
(* The bytes of the contents.                                              *)

LEMMA Multiple ==
  ASSUME NEW M \in Nat \ {0}, NEW z \in Int, M * z < M, -M < M * z
  PROVE  z = 0
<1>1. CASE z >= 1
  <2>1. M * z >= M
    BY <1>1
  <2> QED
    BY <2>1
<1>2. CASE z <= -1
  <2>1. M * z <= -M
    BY <1>2
  <2> QED
    BY <2>1
<1> QED
  BY <1>1, <1>2

\* Numbers that differ by a multiple of M have one rest.
LEMMA SameRest ==
  ASSUME NEW M \in Nat \ {0}, NEW a \in Int, NEW b \in Int, NEW k \in Int, a = b + M * k
  PROVE  a % M = b % M
<1>1. PICK q \in Int, r \in 0 .. M - 1 : r = a % M /\ a = M * q + r
  <2>1. a \div M \in Int /\ a % M \in 0 .. M - 1 /\ a = M * (a \div M) + (a % M)
    OBVIOUS
  <2> QED
    BY <2>1
<1>2. PICK p \in Int, s \in 0 .. M - 1 : s = b % M /\ b = M * p + s
  <2>1. b \div M \in Int /\ b % M \in 0 .. M - 1 /\ b = M * (b \div M) + (b % M)
    OBVIOUS
  <2> QED
    BY <2>1
<1>3. PICK z \in Int : z = p + k - q
  OBVIOUS
<1>4. M * z = M * p + M * k - M * q
  BY <1>3
<1>5. r - s = M * z
  BY <1>1, <1>2, <1>4
<1>6. M * z < M /\ -M < M * z
  BY <1>5
<1>7. z = 0
  BY <1>6, Multiple
<1>8. M * z = 0
  BY <1>7
<1>9. r = s
  BY <1>5, <1>8
<1> QED
  BY <1>1, <1>2, <1>9

LEMMA RestAdds ==
  ASSUME NEW M \in Nat \ {0}, NEW a \in Int, NEW n \in Int
  PROVE  ((a % M) + n) % M = (a + n) % M
<1>1. PICK q \in Int, r \in Int : r = a % M /\ a = M * q + r
  <2>1. a \div M \in Int /\ a % M \in 0 .. M - 1 /\ a = M * (a \div M) + (a % M)
    OBVIOUS
  <2> QED
    BY <2>1
<1>2. a + n = (r + n) + M * q /\ a + n \in Int /\ r + n \in Int
  BY <1>1
<1>3. (a + n) % M = (r + n) % M
  BY <1>2, SameRest
<1> QED
  BY <1>1, <1>3

\* The bytes that TotalSize counts.
BytesOf(f) == UNION {{h} \X (1 .. f[h]) : h \in DOMAIN f}

\* Finitely many contents have finitely many bytes.
LEMMA PartsFinite ==
  ASSUME NEW D, IsFiniteSet(D), NEW f, \A h \in D : f[h] \in Nat
  PROVE  IsFiniteSet(UNION {{h} \X (1 .. f[h]) : h \in D})
<1> DEFINE Part(h) == {h} \X (1 .. f[h])
           all == {Part(h) : h \in D}
           m == [h \in D |-> Part(h)]
<1>1. m \in Surjection(D, all)
  BY DEF Surjection
<1>2. IsFiniteSet(all)
  <2> HIDE DEF m, all
  <2> QED
    BY <1>1, FS_Surjection
<1>3. \A T \in all : IsFiniteSet(T)
  <2> SUFFICES ASSUME NEW h \in D PROVE IsFiniteSet(Part(h))
    OBVIOUS
  <2>1. f[h] \in Int /\ 1 \in Int
    OBVIOUS
  <2>2. IsFiniteSet(1 .. f[h])
    BY <2>1, FS_Interval
  <2>3. IsFiniteSet({h})
    BY FS_Singleton
  <2> QED
    BY <2>2, <2>3, FS_Product
<1>4. IsFiniteSet(UNION all)
  <2> HIDE DEF all
  <2> QED
    BY <1>2, <1>3, FS_UNION
<1> QED
  BY <1>4

LEMMA TotalIs ==
  ASSUME NEW D, IsFiniteSet(D), NEW f \in [D -> Nat]
  PROVE  IsFiniteSet(BytesOf(f)) /\ TotalSize(f) = Cardinality(BytesOf(f)) /\ TotalSize(f) \in Nat
<1>1. IsFiniteSet(BytesOf(f))
  BY PartsFinite DEF BytesOf
<1>2. TotalSize(f) = Cardinality(BytesOf(f))
  BY DEF TotalSize, BytesOf
<1> QED
  BY <1>1, <1>2, FS_CardinalityType

LEMMA OneMore ==
  ASSUME NEW D, IsFiniteSet(D), NEW f \in [D -> Nat], NEW h, h \notin D,
         NEW g \in [D \cup {h} -> Nat], \A k \in D : g[k] = f[k]
  PROVE  TotalSize(g) = TotalSize(f) + g[h]
<1>0. PICK n \in Nat : n = g[h]
  OBVIOUS
<1> DEFINE P == {h} \X (1 .. n)
<1>1. BytesOf(g) = BytesOf(f) \cup P
  <2>1. DOMAIN g = D \cup {h} /\ DOMAIN f = D
    OBVIOUS
  <2>2. \A x : x \in BytesOf(g) <=> \E k \in D \cup {h} : x \in {k} \X (1 .. g[k])
    BY <2>1 DEF BytesOf
  <2>3. \A x : x \in BytesOf(f) <=> \E k \in D : x \in {k} \X (1 .. f[k])
    BY <2>1 DEF BytesOf
  <2>4. \A x : x \in P <=> x \in {h} \X (1 .. g[h])
    BY <1>0
  <2> HIDE DEF P
  <2>5. \A x : x \in BytesOf(g) <=> x \in BytesOf(f) \/ x \in P
    BY <2>2, <2>3, <2>4
  <2> QED
    BY <2>5
<1>2. BytesOf(f) \cap P = {}
  BY DEF BytesOf
<1>3. IsFiniteSet(P) /\ Cardinality(P) = n
  <2>0. n \in Int /\ 1 \in Int
    OBVIOUS
  <2>1. IsFiniteSet(1 .. n) /\ Cardinality(1 .. n) = IF 1 > n THEN 0 ELSE n - 1 + 1
    BY <2>0, FS_Interval
  <2>2. IsFiniteSet({h}) /\ Cardinality({h}) = 1
    BY FS_Singleton
  <2>3. IsFiniteSet(P) /\ Cardinality(P) = Cardinality({h}) * Cardinality(1 .. n)
    BY <2>1, <2>2, FS_Product
  <2> HIDE DEF P
  <2>4. Cardinality(1 .. n) = n
    BY <2>1
  <2> QED
    BY <2>2, <2>3, <2>4
<1> HIDE DEF P
<1>4. PICK t \in Nat : t = Cardinality(BytesOf(f)) /\ t = TotalSize(f) /\ IsFiniteSet(BytesOf(f))
  BY TotalIs
<1>5. Cardinality(BytesOf(f) \cup P)
         = Cardinality(BytesOf(f)) + Cardinality(P) - Cardinality(BytesOf(f) \cap P)
  BY <1>3, <1>4, FS_Union
<1>6. Cardinality(BytesOf(f) \cap P) = 0
  BY <1>2, FS_EmptySet
<1>7. Cardinality(BytesOf(f) \cup P) = t + n
  BY <1>3, <1>4, <1>5, <1>6
<1>8. TotalSize(g) = Cardinality(BytesOf(g))
  BY DEF TotalSize, BytesOf
<1> QED
  BY <1>0, <1>1, <1>4, <1>7, <1>8

BytesInv ==
    /\ txContents \in [Stored -> Nat] /\ IsFiniteSet(Stored)
    /\ bytes \in Int /\ BytesExact

LEMMA NothingStored ==
  ASSUME NEW f, f = [h \in {} |-> 0]
  PROVE  /\ f \in [DOMAIN f -> Nat] /\ IsFiniteSet(DOMAIN f)
         /\ TotalSize(f) % SizeMod = 0
<1>1. DOMAIN f = {} /\ f \in [DOMAIN f -> Nat]
  OBVIOUS
<1>2. BytesOf(f) = {}
  BY <1>1 DEF BytesOf
<1>3. TotalSize(f) = 0
  BY <1>2, FS_EmptySet DEF TotalSize, BytesOf
<1>4. SizeMod \in Nat \ {0}
  BY ContentsAssumption
<1>5. 0 % SizeMod = 0
  BY <1>4
<1> QED
  BY <1>1, <1>3, <1>5, FS_EmptySet

LEMMA SetBytesOK ==
  ASSUME BytesInv, NEW h, NEW size \in Sizes, SetTransactionContents(h, size)
  PROVE  BytesInv'
<1>0. SizeMod \in Nat \ {0} /\ size \in Nat
  BY ContentsAssumption
<1>1. PICK D, f, b : /\ D = Stored /\ f = txContents /\ b = bytes /\ h \notin D
                     /\ IsFiniteSet(D) /\ f \in [D -> Nat] /\ b \in Int
  BY DEF BytesInv, SetTransactionContents
<1>2. PICK g : g = txContents' /\ g = [k \in D \cup {h} |-> IF k \in D THEN f[k] ELSE size]
  BY <1>1 DEF SetTransactionContents, EmplaceContents
<1>3. g \in [D \cup {h} -> Nat] /\ g[h] = size /\ (\A k \in D : g[k] = f[k]) /\ DOMAIN g = D \cup {h}
  BY <1>0, <1>1, <1>2
<1>4. TotalSize(g) = TotalSize(f) + size /\ TotalSize(f) \in Nat
  BY <1>1, <1>3, OneMore, TotalIs
<1>5. IsFiniteSet(D \cup {h})
  BY <1>1, FS_AddElement
<1>6. bytes' = (b + size) % SizeMod /\ replaced' = replaced
  BY <1>1 DEF SetTransactionContents, EmplaceContents
<1>7. bytes' \in Int
  BY <1>0, <1>1, <1>6
<1>8. ~replaced => bytes' = TotalSize(g) % SizeMod
  <2> HAVE ~replaced
  <2>1. PICK t \in Nat : t = TotalSize(f) /\ b = t % SizeMod
    BY <1>1, <1>4 DEF BytesInv, BytesExact
  <2>2. ((t % SizeMod) + size) % SizeMod = (t + size) % SizeMod
    <3>1. t \in Int /\ size \in Int
      BY <1>0
    <3> QED
      BY <1>0, <3>1, RestAdds
  <2> QED
    BY <1>4, <1>6, <2>1, <2>2
<1> QED
  BY <1>2, <1>3, <1>5, <1>6, <1>7, <1>8 DEF BytesInv, BytesExact, Stored

LEMMA RemoveBytesOK ==
  ASSUME BytesInv, NEW h, EraseContents(h), replaced' = replaced
  PROVE  BytesInv'
<1>0. SizeMod \in Nat \ {0}
  BY ContentsAssumption
<1>1. PICK D, f, b : /\ D = Stored /\ f = txContents /\ b = bytes
                     /\ IsFiniteSet(D) /\ f \in [D -> Nat] /\ b \in Int
  BY DEF BytesInv
<1>2. PICK g : g = txContents' /\ g = [k \in D \ {h} |-> f[k]]
  BY <1>1 DEF EraseContents
<1>3. g \in [D \ {h} -> Nat] /\ (\A k \in D \ {h} : g[k] = f[k]) /\ DOMAIN g = D \ {h}
  BY <1>1, <1>2
<1>4. IsFiniteSet(D \ {h})
  BY <1>1, FS_RemoveElement
<1>5. bytes' = (IF h \in D THEN (b - f[h]) % SizeMod ELSE b) /\ replaced' = replaced
  BY <1>1 DEF EraseContents, RemovedBytes
<1>6. bytes' \in Int
  <2>1. h \in D => f[h] \in Nat
    BY <1>1
  <2> QED
    BY <1>0, <1>1, <1>5, <2>1
<1>7. ~replaced => bytes' = TotalSize(g) % SizeMod
  <2> HAVE ~replaced
  <2>1. PICK t \in Nat : t = TotalSize(f) /\ b = t % SizeMod
    BY <1>1, TotalIs DEF BytesInv, BytesExact
  <2>2. CASE h \in D
    <3>1. PICK C : C = D \ {h} /\ C \cup {h} = D /\ h \notin C
      <4>1. (D \ {h}) \cup {h} = D /\ h \notin D \ {h}
        BY <2>2
      <4> QED
        BY <4>1, Zenon
    <3>2. PICK n \in Nat : n = f[h]
      BY <1>1, <2>2
    <3>3. PICK u \in Nat : u = TotalSize(g)
      BY <1>3, <1>4, TotalIs
    <3>4. t = u + n
      <4>1. f \in [C \cup {h} -> Nat] /\ IsFiniteSet(C) /\ g \in [C -> Nat] /\ \A k \in C : f[k] = g[k]
        BY <1>1, <1>3, <1>4, <3>1
      <4>2. TotalSize(f) = TotalSize(g) + f[h]
        BY <3>1, <4>1, OneMore
      <4> QED
        BY <2>1, <3>2, <3>3, <4>2
    <3>5. PICK z \in Int : z = -n
      OBVIOUS
    <3>6. ((t % SizeMod) + z) % SizeMod = (t + z) % SizeMod
      <4>1. t \in Int
        OBVIOUS
      <4> QED
        BY <1>0, <4>1, RestAdds
    <3>7. b - f[h] = (t % SizeMod) + z /\ t + z = u
      BY <1>0, <1>1, <2>1, <3>2, <3>4, <3>5
    <3> QED
      BY <1>5, <2>2, <3>3, <3>6, <3>7
  <2>3. CASE h \notin D
    <3>1. g = f
      BY <1>1, <1>2, <2>3
    <3> QED
      BY <1>5, <2>1, <2>3, <3>1
  <2> QED
    BY <2>2, <2>3
<1> QED
  BY <1>2, <1>3, <1>4, <1>5, <1>6, <1>7 DEF BytesInv, BytesExact, Stored

LEMMA BytesNextOK == BytesInv /\ [ContentsNext]_contentsVars => BytesInv'
<1> SUFFICES ASSUME BytesInv, [ContentsNext]_contentsVars PROVE BytesInv'
  OBVIOUS
<1>1. ASSUME NEW h \in TxHashes, NEW size \in Sizes, ReplaceContents(h, size) PROVE BytesInv'
  <2>1. size \in Nat
    BY ContentsAssumption
  <2> QED
    BY <1>1, <2>1 DEF ReplaceContents, BytesInv, BytesExact, Stored
<1>2. CASE Clear
  <2>1. txContents' = [h \in {} |-> 0] /\ bytes' = 0
    BY <1>2 DEF Clear
  <2>2. /\ txContents' \in [DOMAIN txContents' -> Nat] /\ IsFiniteSet(DOMAIN txContents')
        /\ TotalSize(txContents') % SizeMod = 0
    BY <2>1, NothingStored
  <2> QED
    BY <2>1, <2>2 DEF BytesInv, BytesExact, Stored, TotalSize
<1>3. ASSUME UNCHANGED <<txContents, bytes, replaced>> PROVE BytesInv'
  BY <1>3 DEF BytesInv, BytesExact, Stored, TotalSize
<1>4. ASSUME NEW h \in TxHashes, RemoveTransactionByHash(h) \/ DeleteContents(h) PROVE BytesInv'
  <2>1. EraseContents(h) /\ replaced' = replaced
    BY <1>4 DEF RemoveTransactionByHash, DeleteContents
  <2> QED
    BY <2>1, RemoveBytesOK
<1>5. CASE CleanupRemovedHashesHistory \/ ClearTimesRemoved \/ Advance \/ UNCHANGED contentsVars
  BY <1>3, <1>5 DEF CleanupRemovedHashesHistory, ClearTimesRemoved, Advance, contentsVars
<1>6. ASSUME NEW h \in TxHashes, NEW time \in 0 .. MaxClock, SetTimeRemoved(h, time)
      PROVE  BytesInv'
  BY <1>3, <1>6 DEF SetTimeRemoved
<1>7. ASSUME NEW h \in TxHashes, DeleteTimeRemoved(h) PROVE BytesInv'
  BY <1>3, <1>7 DEF DeleteTimeRemoved
<1> QED
  BY <1>1, <1>2, <1>4, <1>5, <1>6, <1>7, SetBytesOK DEF ContentsNext

\* Whatever the sizes and the width of size_t, the tracker's total is the size of
\* the contents the map holds, until __setitem__ has replaced contents.
THEOREM BytesAreExact == ContentsSpec => []BytesExact
<1>1. ContentsInit => BytesInv
  <2> SUFFICES ASSUME ContentsInit PROVE BytesInv
    OBVIOUS
  <2>1. txContents = [h \in {} |-> 0] /\ bytes = 0
    BY DEF ContentsInit
  <2>2. /\ txContents \in [DOMAIN txContents -> Nat] /\ IsFiniteSet(DOMAIN txContents)
        /\ TotalSize(txContents) % SizeMod = 0
    BY <2>1, NothingStored
  <2> QED
    BY <2>1, <2>2 DEF BytesInv, BytesExact, Stored
<1>2. BytesInv => BytesExact
  BY DEF BytesInv
<1> QED
  BY <1>1, <1>2, BytesNextOK, PTL DEF ContentsSpec

-----------------------------------------------------------------------------
(* The sender nonces.                                                      *)

SenderNonceKeys == {Sender[tx] : tx \in Txs}
NonceItem == [key : SenderNonceKeys,
              val : [deadline : Nat, price : {Scaled(Price[tx], s) : tx \in Txs, s \in Settings}]]
PassType == [tx : Txs, time : Nat, setting : Settings, cleared : Nat]

NoncesTypeOK ==
    /\ now \in Nat \ {0}
    /\ clearedAt \in Nat
    /\ setting \in Settings
    /\ nonces \in Seq(NonceItem)
    /\ passed \in Seq(PassType)

Deadline(pass) == pass.time + pass.setting.age

\* The item is the one a pass registers.
Stems(item, pass) ==
    /\ item.key = Sender[pass.tx]
    /\ item.val.deadline = Deadline(pass)
    /\ item.val.price = Scaled(Price[pass.tx], pass.setting)

\* Nothing was cleared or passed later than now, and passes come in order.
TimesInOrder ==
    /\ clearedAt <= now
    /\ \A i \in 1 .. Len(passed) : passed[i].time <= now
    /\ \A i, j \in 1 .. Len(passed) : i <= j => passed[i].time <= passed[j].time

KeysOnce == \A i, j \in 1 .. Len(nonces) : nonces[i].key = nonces[j].key => i = j

\* Every item stems from a pass, in the order of the passes.
ItemsStem ==
    \A j, k \in 1 .. Len(nonces) : j <= k =>
        \E a, b \in 1 .. Len(passed) :
            a <= b /\ Stems(nonces[j], passed[a]) /\ Stems(nonces[k], passed[b])

\* The item of a pass is in the map until it is over and cleared, unless an older
\* item was in its place.
PassesRegistered ==
    \A i \in 1 .. Len(passed) :
        \/ Shadowed(i)
        \/ Deadline(passed[i]) <= clearedAt
        \/ \E j \in 1 .. Len(nonces) : Stems(nonces[j], passed[i])

NoncesInv ==
    NoncesTypeOK /\ TimesInOrder /\ KeysOnce /\ ItemsStem /\ PassesRegistered /\ OverNoncesCleared

LEMMA NoncesInitOK == NoncesInit => NoncesInv
<1> SUFFICES ASSUME NoncesInit PROVE NoncesInv
  OBVIOUS
<1>1. NoncesTypeOK /\ Len(nonces) = 0 /\ Len(passed) = 0 /\ DOMAIN nonces = {}
  BY DEF NoncesInit, NoncesTypeOK
<1>2. TimesInOrder /\ KeysOnce /\ ItemsStem /\ PassesRegistered /\ OverNoncesCleared
  BY <1>1 DEF NoncesInit, TimesInOrder, KeysOnce, ItemsStem, PassesRegistered, OverNoncesCleared
<1> QED
  BY <1>1, <1>2 DEF NoncesInv

\* The fields of passes and items.
LEMMA PassFields ==
  ASSUME NEW pass \in PassType
  PROVE  pass.time \in Nat /\ pass.cleared \in Nat /\ Deadline(pass) \in Nat /\ pass.time < Deadline(pass)
<1>1. pass.time \in Nat /\ pass.cleared \in Nat /\ pass.setting \in Settings
  BY DEF PassType
<1>2. pass.setting.age \in Nat \ {0}
  BY <1>1, NoncesAssumption
<1> QED
  BY <1>1, <1>2 DEF Deadline

LEMMA NonceFields ==
  ASSUME NoncesTypeOK
  PROVE  /\ Len(nonces) \in Nat /\ DOMAIN nonces = 1 .. Len(nonces)
         /\ Len(passed) \in Nat /\ DOMAIN passed = 1 .. Len(passed)
         /\ \A i \in 1 .. Len(nonces) : nonces[i] \in NonceItem /\ nonces[i].val.deadline \in Nat
         /\ \A i \in 1 .. Len(passed) : /\ passed[i] \in PassType
                                        /\ passed[i].time \in Nat
                                        /\ Deadline(passed[i]) \in Nat
                                        /\ passed[i].time < Deadline(passed[i])
<1>1. nonces \in Seq(NonceItem) /\ passed \in Seq(PassType)
  BY DEF NoncesTypeOK
<1>2. /\ Len(nonces) \in Nat /\ DOMAIN nonces = 1 .. Len(nonces)
      /\ Len(passed) \in Nat /\ DOMAIN passed = 1 .. Len(passed)
      /\ \A i \in 1 .. Len(nonces) : nonces[i] \in NonceItem
      /\ \A i \in 1 .. Len(passed) : passed[i] \in PassType
  BY <1>1
<1>3. \A x \in NonceItem : x.val.deadline \in Nat
  BY DEF NonceItem
<1> QED
  BY <1>2, <1>3, PassFields

\* OverNoncesCleared, with the places as numbers.
LEMMA OverNonces ==
  ASSUME NoncesTypeOK
  PROVE  OverNoncesCleared <=>
         \A j \in 1 .. Len(nonces) : nonces[j].val.deadline <= clearedAt =>
             \E i \in 1 .. (j - 1) :
                /\ nonces[i].val.deadline > clearedAt
                /\ \E k, l \in 1 .. Len(passed) : passed[k].setting # passed[l].setting
  BY NonceFields DEF OverNoncesCleared

\* A call that leaves the nonces and the passes alone, or a tick of the clock.
LEMMA NoncesQuietStep ==
  ASSUME NoncesInv, UNCHANGED <<nonces, passed, clearedAt>>, setting' \in Settings,
         now' \in Nat, now <= now'
  PROVE  NoncesInv'
<1>1. NoncesTypeOK'
  BY DEF NoncesInv, NoncesTypeOK
<1>2. TimesInOrder'
  BY NonceFields DEF NoncesInv, TimesInOrder, NoncesTypeOK
<1>3. KeysOnce' /\ ItemsStem' /\ OverNoncesCleared'
  BY DEF NoncesInv, KeysOnce, ItemsStem, OverNoncesCleared
<1>4. PassesRegistered'
  BY DEF NoncesInv, PassesRegistered, Shadowed
<1> QED
  BY <1>1, <1>2, <1>3, <1>4 DEF NoncesInv

\* clear_sender_nonce.
LEMMA ClearNonceStep ==
  ASSUME NoncesInv, ClearSenderNonce
  PROVE  NoncesInv'
<1> DEFINE going == {i \in DOMAIN nonces : Over(i)}
<1>1. /\ nonces \in Seq(NonceItem) /\ going \in SUBSET (DOMAIN nonces)
      /\ nonces' = FrontErased(nonces, going)
      /\ clearedAt' = now /\ now' = now /\ passed' = passed /\ setting' = setting
  BY DEF ClearSenderNonce, NoncesInv, NoncesTypeOK
<1>2. \A i \in 1 .. Len(nonces) : i \in going <=> nonces[i].val.deadline <= now
  BY NonceFields DEF Over, NoncesInv
<1> HIDE DEF going
<1>3. nonces' \in Seq(NonceItem)
  BY <1>1, FrontErasedCuts
<1>4. PICK cut : Cut(nonces, going, nonces', cut)
  BY <1>1, FrontErasedCuts
<1>5. /\ cut \in 0 .. Len(nonces)
      /\ \A i \in 1 .. cut : i \in going
      /\ cut + 1 \notin going
      /\ Len(nonces') = Len(nonces) - cut
      /\ Len(nonces) \in Nat
      /\ \A i \in 1 .. Len(nonces') : nonces'[i] = nonces[i + cut] /\ i + cut \in 1 .. Len(nonces)
  BY <1>4, NonceFields DEF Cut, NoncesInv
<1>6. NoncesTypeOK'
  BY <1>1, <1>3 DEF NoncesInv, NoncesTypeOK
<1>7. TimesInOrder'
  BY <1>1 DEF NoncesInv, NoncesTypeOK, TimesInOrder
<1>8. KeysOnce'
  <2> SUFFICES ASSUME NEW i \in 1 .. Len(nonces'), NEW j \in 1 .. Len(nonces'),
                      nonces'[i].key = nonces'[j].key
               PROVE  i = j
    BY DEF KeysOnce
  <2>1. /\ i + cut \in 1 .. Len(nonces) /\ j + cut \in 1 .. Len(nonces)
        /\ nonces[i + cut].key = nonces[j + cut].key
    BY <1>5
  <2>2. i + cut = j + cut
    BY <2>1 DEF NoncesInv, KeysOnce
  <2>3. i \in Int /\ j \in Int /\ cut \in Int
    BY <1>5
  <2> QED
    BY <2>2, <2>3
<1>9. ItemsStem'
  <2> SUFFICES ASSUME NEW j \in 1 .. Len(nonces'), NEW k \in 1 .. Len(nonces'), j <= k
               PROVE  \E a, b \in 1 .. Len(passed) :
                         a <= b /\ Stems(nonces'[j], passed[a]) /\ Stems(nonces'[k], passed[b])
    BY <1>1 DEF ItemsStem, Stems, Deadline
  <2>1. j + cut \in 1 .. Len(nonces) /\ k + cut \in 1 .. Len(nonces) /\ j + cut <= k + cut
    BY <1>5
  <2>2. \E a, b \in 1 .. Len(passed) :
           a <= b /\ Stems(nonces[j + cut], passed[a]) /\ Stems(nonces[k + cut], passed[b])
    BY <2>1 DEF NoncesInv, ItemsStem
  <2>3. nonces'[j] = nonces[j + cut] /\ nonces'[k] = nonces[k + cut]
    BY <1>5
  <2> QED
    BY <2>2, <2>3
<1>10. PassesRegistered'
  <2> SUFFICES ASSUME NEW i \in 1 .. Len(passed), ~Shadowed(i)
               PROVE  \/ Deadline(passed[i]) <= now
                      \/ \E j \in 1 .. Len(nonces') : Stems(nonces'[j], passed[i])
    BY <1>1 DEF PassesRegistered, Shadowed, Deadline, Stems
  <2>1. CASE Deadline(passed[i]) <= clearedAt
    <3>1. Deadline(passed[i]) \in Nat /\ clearedAt \in Nat /\ now \in Nat /\ clearedAt <= now
      BY NonceFields DEF NoncesInv, NoncesTypeOK, TimesInOrder
    <3> QED
      BY <2>1, <3>1
  <2>2. ASSUME NEW j \in 1 .. Len(nonces), Stems(nonces[j], passed[i])
        PROVE  \/ Deadline(passed[i]) <= now
               \/ \E k \in 1 .. Len(nonces') : Stems(nonces'[k], passed[i])
    <3>1. CASE j <= cut
      BY <1>2, <1>5, <2>2, <3>1 DEF Stems
    <3>2. CASE ~(j <= cut)
      <4>1. j - cut \in 1 .. Len(nonces') /\ (j - cut) + cut = j
        BY <1>5, <3>2
      <4>2. nonces'[j - cut] = nonces[j]
        BY <1>5, <4>1
      <4> QED
        BY <2>2, <4>1, <4>2
    <3> QED
      BY <3>1, <3>2
  <2> QED
    BY <2>1, <2>2 DEF NoncesInv, PassesRegistered
<1>11. OverNoncesCleared'
  <2> SUFFICES ASSUME NEW j \in 1 .. Len(nonces'), nonces'[j].val.deadline <= now
               PROVE  \E i \in 1 .. (j - 1) :
                         /\ nonces'[i].val.deadline > now
                         /\ \E k, l \in 1 .. Len(passed) : passed[k].setting # passed[l].setting
    <3>1. DOMAIN nonces' = 1 .. Len(nonces') /\ DOMAIN passed' = 1 .. Len(passed)
      BY <1>1, <1>3, NonceFields DEF NoncesInv
    <3> QED
      BY <1>1, <3>1 DEF OverNoncesCleared
  <2>1. j + cut \in 1 .. Len(nonces) /\ nonces'[j] = nonces[j + cut] /\ cut + 1 \in 1 .. Len(nonces)
    BY <1>5
  <2>2. nonces[cut + 1].val.deadline \in Nat /\ nonces[j + cut].val.deadline \in Nat /\ now \in Nat
    BY <2>1, NonceFields DEF NoncesInv, NoncesTypeOK
  <2>3. nonces[cut + 1].val.deadline > now /\ cut + 1 # j + cut
    <3>1. ~(nonces[cut + 1].val.deadline <= now)
      BY <1>2, <1>5, <2>1
    <3> QED
      BY <2>1, <2>2, <3>1
  <2>4. 1 \in 1 .. (j - 1) /\ 1 \in 1 .. Len(nonces') /\ cut + 1 <= j + cut
    BY <1>5, <2>3
  <2>5. nonces'[1] = nonces[cut + 1]
    BY <1>5, <2>4
  <2>6. PICK a \in 1 .. Len(passed), b \in 1 .. Len(passed) :
           a <= b /\ Stems(nonces[cut + 1], passed[a]) /\ Stems(nonces[j + cut], passed[b])
    BY <2>1, <2>4 DEF NoncesInv, ItemsStem
  <2>7. Deadline(passed[a]) > Deadline(passed[b]) /\ passed[a].time <= passed[b].time
    BY <2>1, <2>2, <2>3, <2>6 DEF Stems, NoncesInv, TimesInOrder
  <2>8. /\ passed[a].time \in Nat /\ passed[b].time \in Nat
        /\ passed[a].setting.age \in Nat /\ passed[b].setting.age \in Nat
    <3>1. passed[a] \in PassType /\ passed[b] \in PassType
      BY NonceFields DEF NoncesInv
    <3>2. /\ passed[a].time \in Nat /\ passed[b].time \in Nat
          /\ passed[a].setting \in Settings /\ passed[b].setting \in Settings
      BY <3>1 DEF PassType
    <3> QED
      BY <3>2, NoncesAssumption
  <2>9. passed[a].setting # passed[b].setting
    <3>1. PICK x \in Nat, y \in Nat : x = passed[a].time /\ y = passed[b].time
      BY <2>8
    <3>2. PICK u \in Nat, v \in Nat : u = passed[a].setting.age /\ v = passed[b].setting.age
      BY <2>8
    <3>3. x + u > y + v /\ x <= y
      BY <2>7, <3>1, <3>2 DEF Deadline
    <3>4. u # v
      BY <3>3
    <3> QED
      BY <3>2, <3>4
  <2> QED
    BY <2>3, <2>4, <2>5, <2>9
<1> QED
  BY <1>6, <1>7, <1>8, <1>9, <1>10, <1>11 DEF NoncesInv

\* A pass is appended: what was said of the passes before it still holds.
LEMMA PassAppended ==
  ASSUME NoncesInv, NEW tx \in Txs, passed' = Append(passed, Pass(tx)), UNCHANGED <<now, clearedAt>>
  PROVE  /\ passed' \in Seq(PassType)
         /\ Len(passed') = Len(passed) + 1
         /\ \A i \in 1 .. Len(passed) : i \in 1 .. Len(passed') /\ passed'[i] = passed[i]
         /\ passed'[Len(passed) + 1] = Pass(tx)
         /\ Pass(tx) \in PassType
         /\ TimesInOrder'
         /\ \A i \in 1 .. Len(passed) : Shadowed(i) => Shadowed(i)'
<1>1. Pass(tx) \in PassType
  BY DEF Pass, PassType, NoncesInv, NoncesTypeOK
<1>2. /\ passed' \in Seq(PassType)
      /\ Len(passed') = Len(passed) + 1
      /\ Len(passed) \in Nat
      /\ \A i \in 1 .. Len(passed) : i \in 1 .. Len(passed') /\ passed'[i] = passed[i]
      /\ passed'[Len(passed) + 1] = Pass(tx)
  <2>1. passed \in Seq(PassType)
    BY DEF NoncesInv, NoncesTypeOK
  <2> QED
    BY <1>1, <2>1
<1>3. TimesInOrder'
  <2>1. Pass(tx).time = now /\ now \in Nat
    BY DEF Pass, NoncesInv, NoncesTypeOK
  <2>2. \A i \in 1 .. Len(passed') : i \in 1 .. Len(passed) \/ i = Len(passed) + 1
    BY <1>2
  <2>3. \A i \in 1 .. Len(passed) : passed[i].time <= now
    BY DEF NoncesInv, TimesInOrder
  <2>4. \A i \in 1 .. Len(passed') : passed'[i].time <= now
    BY <1>2, <2>1, <2>2, <2>3
  <2>5. ASSUME NEW i \in 1 .. Len(passed'), NEW j \in 1 .. Len(passed'), i <= j
        PROVE  passed'[i].time <= passed'[j].time
    <3>1. CASE j = Len(passed) + 1
      BY <1>2, <2>1, <2>4, <3>1
    <3>2. CASE j # Len(passed) + 1
      <4>1. i \in 1 .. Len(passed) /\ j \in 1 .. Len(passed)
        BY <1>2, <2>2, <2>5, <3>2
      <4> QED
        BY <1>2, <2>5, <4>1 DEF NoncesInv, TimesInOrder
    <3> QED
      BY <3>1, <3>2
  <2> QED
    BY <2>4, <2>5 DEF TimesInOrder, NoncesInv
<1>4. ASSUME NEW i \in 1 .. Len(passed), Shadowed(i) PROVE Shadowed(i)'
  <2>1. \A j \in 1 .. (i - 1) : passed'[j] = passed[j]
    BY <1>2
  <2>2. passed'[i] = passed[i]
    BY <1>2
  <2> QED
    BY <1>4, <2>1, <2>2 DEF Shadowed
<1> QED
  BY <1>1, <1>2, <1>3, <1>4

\* A transaction passes whose sender and nonce are in the map: an older item
\* stays in place of its own.
LEMMA ShadowStep ==
  ASSUME NoncesInv, NEW tx \in Txs, Sender[tx] \in Keys(nonces), nonces' = nonces,
         passed' = Append(passed, Pass(tx)), UNCHANGED <<now, setting, clearedAt>>
  PROVE  NoncesInv'
<1>0. PICK n \in Nat : n = Len(passed) + 1
  <2>1. Len(passed) \in Nat
    BY NonceFields DEF NoncesInv
  <2> QED
    BY <2>1
<1>1. /\ passed' \in Seq(PassType)
      /\ Len(passed') = n
      /\ Len(passed) \in Nat
      /\ \A i \in 1 .. Len(passed) : i \in 1 .. Len(passed') /\ passed'[i] = passed[i]
      /\ passed'[n] = Pass(tx)
      /\ TimesInOrder'
      /\ \A i \in 1 .. Len(passed) : Shadowed(i) => Shadowed(i)'
  BY <1>0, PassAppended, NonceFields DEF NoncesInv
<1>2. NoncesTypeOK'
  BY <1>1 DEF NoncesInv, NoncesTypeOK
<1>3. KeysOnce'
  BY DEF NoncesInv, KeysOnce
<1>4. ItemsStem'
  <2> SUFFICES ASSUME NEW j \in 1 .. Len(nonces), NEW k \in 1 .. Len(nonces), j <= k
               PROVE  \E a, b \in 1 .. Len(passed') :
                         a <= b /\ Stems(nonces'[j], passed'[a]) /\ Stems(nonces'[k], passed'[b])
    BY DEF ItemsStem, Stems, Deadline
  <2> PICK a \in 1 .. Len(passed), b \in 1 .. Len(passed) :
           a <= b /\ Stems(nonces[j], passed[a]) /\ Stems(nonces[k], passed[b])
    BY DEF NoncesInv, ItemsStem
  <2> QED
    BY <1>1
<1>5. OverNoncesCleared'
  <2>1. DOMAIN passed' = 1 .. Len(passed') /\ DOMAIN passed = 1 .. Len(passed)
    BY <1>1, NonceFields DEF NoncesInv
  <2>2. (\E k, l \in DOMAIN passed : passed[k].setting # passed[l].setting)
           => \E k, l \in DOMAIN passed' : passed'[k].setting # passed'[l].setting
    BY <1>1, <2>1
  <2> QED
    BY <2>2 DEF NoncesInv, OverNoncesCleared
<1>6. Shadowed(n)'
  <2>1. PICK m \in 1 .. Len(nonces) : nonces[m].key = Sender[tx]
    BY NonceFields DEF Keys, NoncesInv
  <2>2. PICK a \in 1 .. Len(passed) : Stems(nonces[m], passed[a])
    BY NonceFields DEF NoncesInv, ItemsStem
  <2>3. a \in 1 .. (n - 1) /\ passed'[a] = passed[a] /\ \A k \in 1 .. (n - 1) : passed'[k] = passed[k]
    BY <1>0, <1>1
  <2>4. Sender[passed'[a].tx] = Sender[passed'[n].tx] /\ passed'[n].cleared = clearedAt
    <3>1. Pass(tx).tx = tx /\ Pass(tx).cleared = clearedAt
      BY DEF Pass
    <3>2. Sender[passed[a].tx] = Sender[tx]
      BY <2>1, <2>2 DEF Stems
    <3> QED
      BY <1>1, <2>3, <3>1, <3>2
  <2>5. CASE nonces[m].val.deadline > clearedAt
    <3>1. passed'[a].time + passed'[a].setting.age > passed'[n].cleared
      BY <2>2, <2>3, <2>4, <2>5 DEF Stems, Deadline
    <3> QED
      BY <2>3, <2>4, <3>1 DEF Shadowed
  <2>6. CASE ~(nonces[m].val.deadline > clearedAt)
    <3>1. nonces[m].val.deadline <= clearedAt
      BY <2>6, NonceFields DEF NoncesInv, NoncesTypeOK
    <3>2. PICK k \in 1 .. Len(passed), l \in 1 .. Len(passed) : passed[k].setting # passed[l].setting
      BY <3>1, OverNonces DEF NoncesInv
    <3>3. \E p \in 1 .. (n - 1) : passed'[p].setting # passed'[a].setting
      BY <1>0, <1>1, <2>3, <3>2
    <3> QED
      BY <2>3, <2>4, <3>3 DEF Shadowed
  <2> QED
    BY <2>5, <2>6
<1>7. PassesRegistered'
  <2> SUFFICES ASSUME NEW i \in 1 .. Len(passed')
               PROVE  \/ Shadowed(i)'
                      \/ Deadline(passed'[i]) <= clearedAt
                      \/ \E j \in 1 .. Len(nonces) : Stems(nonces[j], passed'[i])
    BY DEF PassesRegistered, Deadline, Stems
  <2>1. CASE i = n
    BY <1>6, <2>1
  <2>2. CASE i # n
    <3>1. i \in 1 .. Len(passed)
      BY <1>0, <1>1, <2>2
    <3> QED
      BY <1>1, <3>1 DEF NoncesInv, PassesRegistered
  <2> QED
    BY <2>1, <2>2
<1> QED
  BY <1>1, <1>2, <1>3, <1>4, <1>5, <1>7 DEF NoncesInv

\* A transaction passes and its sender and nonce are registered.
LEMMA RegisterStep ==
  ASSUME NoncesInv, NEW tx \in Txs, Sender[tx] \notin Keys(nonces),
         nonces' = Append(nonces, [key |-> Sender[tx], val |-> Entry(tx)]),
         passed' = Append(passed, Pass(tx)), UNCHANGED <<now, setting, clearedAt>>
  PROVE  NoncesInv'
<1> DEFINE n == Len(passed) + 1
           p == Len(nonces) + 1
           item == [key |-> Sender[tx], val |-> Entry(tx)]
<1>1. /\ passed' \in Seq(PassType)
      /\ Len(passed') = n
      /\ Len(passed) \in Nat /\ n \in 1 .. n
      /\ \A i \in 1 .. Len(passed) : i \in 1 .. Len(passed') /\ passed'[i] = passed[i] /\ i <= n
      /\ passed'[n] = Pass(tx)
      /\ TimesInOrder'
      /\ \A i \in 1 .. Len(passed) : Shadowed(i) => Shadowed(i)'
  BY PassAppended, NonceFields DEF NoncesInv
<1>2. /\ item \in NonceItem
      /\ Stems(item, Pass(tx))
      /\ item.key = Sender[tx]
      /\ item.val.deadline \in Nat /\ item.val.deadline > clearedAt
  <2>1. setting \in Settings /\ now \in Nat /\ clearedAt \in Nat /\ clearedAt <= now
    BY DEF NoncesInv, NoncesTypeOK, TimesInOrder
  <2>2. setting.age \in Nat \ {0}
    BY <2>1, NoncesAssumption
  <2>3. Entry(tx) \in [deadline : Nat, price : {Scaled(Price[t], s) : t \in Txs, s \in Settings}]
    BY <2>1, <2>2 DEF Entry
  <2>4. Sender[tx] \in SenderNonceKeys
    BY DEF SenderNonceKeys
  <2>5. Stems(item, Pass(tx))
    BY DEF Stems, Entry, Pass, Deadline
  <2>6. item.val.deadline = now + setting.age
    BY DEF Entry
  <2> QED
    BY <2>1, <2>2, <2>3, <2>4, <2>5, <2>6 DEF NonceItem
<1> HIDE DEF item
<1>3. /\ nonces' \in Seq(NonceItem)
      /\ Len(nonces') = p /\ Len(nonces) \in Nat
      /\ \A j \in 1 .. Len(nonces) : j \in 1 .. Len(nonces') /\ nonces'[j] = nonces[j]
      /\ p \in 1 .. Len(nonces') /\ nonces'[p] = item
      /\ \A j \in 1 .. Len(nonces') : j = p \/ j \in 1 .. Len(nonces)
  <2>1. nonces \in Seq(NonceItem) /\ nonces' = Append(nonces, item)
    BY DEF NoncesInv, NoncesTypeOK, item
  <2> QED
    BY <1>2, <2>1
<1>4. NoncesTypeOK'
  BY <1>1, <1>3 DEF NoncesInv, NoncesTypeOK
<1>5. KeysOnce'
  <2>1. \A j \in 1 .. Len(nonces) : nonces[j].key # item.key
    BY <1>2, NonceFields DEF Keys, NoncesInv
  <2> QED
    BY <1>3, <2>1 DEF NoncesInv, KeysOnce
<1> HIDE DEF n, p
<1>6. ItemsStem'
  <2> SUFFICES ASSUME NEW j \in 1 .. Len(nonces'), NEW k \in 1 .. Len(nonces'), j <= k
               PROVE  \E a, b \in 1 .. Len(passed') :
                         a <= b /\ Stems(nonces'[j], passed'[a]) /\ Stems(nonces'[k], passed'[b])
    BY DEF ItemsStem, Stems, Deadline
  <2>1. ASSUME NEW i \in 1 .. Len(nonces)
        PROVE  \E a \in 1 .. Len(passed) : Stems(nonces[i], passed[a])
    BY <1>3 DEF NoncesInv, ItemsStem
  <2>2. CASE k = p /\ j = p
    <3>1. PICK a \in 1 .. Len(passed') : passed'[a] = Pass(tx)
      BY <1>1
    <3>2. nonces'[j] = item /\ nonces'[k] = item /\ a <= a
      BY <1>1, <1>3, <2>2
    <3> QED
      BY <1>2, <3>1, <3>2
  <2>3. CASE k = p /\ j \in 1 .. Len(nonces)
    <3>1. PICK a \in 1 .. Len(passed) : Stems(nonces[j], passed[a])
      BY <2>1, <2>3
    <3>2. a \in 1 .. Len(passed') /\ n \in 1 .. Len(passed') /\ a <= n
      BY <1>1
    <3> QED
      BY <1>1, <1>2, <1>3, <2>3, <3>1, <3>2
  <2>4. CASE k \in 1 .. Len(nonces)
    <3>1. j \in 1 .. Len(nonces)
      BY <1>3, <2>4
    <3>2. PICK a \in 1 .. Len(passed), b \in 1 .. Len(passed) :
             a <= b /\ Stems(nonces[j], passed[a]) /\ Stems(nonces[k], passed[b])
      BY <2>4, <3>1 DEF NoncesInv, ItemsStem
    <3> QED
      BY <1>1, <1>3, <2>4, <3>1, <3>2
  <2> QED
    BY <1>3, <2>2, <2>3, <2>4
<1>7. OverNoncesCleared'
  <2> SUFFICES ASSUME NEW j \in DOMAIN nonces', nonces'[j].val.deadline <= clearedAt'
               PROVE  \E i \in 1 .. (j - 1) :
                         /\ nonces'[i].val.deadline > clearedAt'
                         /\ \E k, l \in DOMAIN passed' : passed'[k].setting # passed'[l].setting
    BY DEF OverNoncesCleared
  <2>0. /\ DOMAIN nonces' = 1 .. Len(nonces') /\ DOMAIN passed' = 1 .. Len(passed')
        /\ clearedAt' = clearedAt /\ j \in 1 .. Len(nonces')
    BY <1>1, <1>3
  <2>1. j \in 1 .. Len(nonces) /\ nonces'[j] = nonces[j]
    <3>1. clearedAt \in Nat
      BY DEF NoncesInv, NoncesTypeOK
    <3>2. j # p
      BY <1>2, <1>3, <2>0, <3>1
    <3> QED
      BY <1>3, <2>0, <3>2
  <2>2. PICK i \in 1 .. (j - 1) :
           /\ nonces[i].val.deadline > clearedAt
           /\ \E k, l \in 1 .. Len(passed) : passed[k].setting # passed[l].setting
    BY <2>0, <2>1, OverNonces DEF NoncesInv
  <2>3. i \in 1 .. Len(nonces)
    BY <1>3, <2>1
  <2>4. nonces'[i] = nonces[i]
    BY <1>3, <2>3
  <2>5. PICK k \in 1 .. Len(passed), l \in 1 .. Len(passed) : passed[k].setting # passed[l].setting
    BY <2>2
  <2>6. k \in DOMAIN passed' /\ l \in DOMAIN passed' /\ passed'[k] = passed[k] /\ passed'[l] = passed[l]
    BY <1>1, <2>0
  <2>7. nonces'[i].val.deadline > clearedAt'
    BY <2>0, <2>2, <2>4
  <2>8. \E x, y \in DOMAIN passed' : passed'[x].setting # passed'[y].setting
    BY <2>5, <2>6
  <2> QED
    BY <2>7, <2>8, Zenon
<1>8. PassesRegistered'
  <2> SUFFICES ASSUME NEW i \in 1 .. Len(passed')
               PROVE  \/ Shadowed(i)'
                      \/ Deadline(passed'[i]) <= clearedAt
                      \/ \E j \in 1 .. Len(nonces') : Stems(nonces'[j], passed'[i])
    BY DEF PassesRegistered, Deadline, Stems
  <2>1. CASE i = n
    BY <1>1, <1>2, <1>3, <2>1
  <2>2. CASE i # n
    <3>1. i \in 1 .. Len(passed)
      BY <1>1, <2>2 DEF n
    <3>2. \/ Shadowed(i)
          \/ Deadline(passed[i]) <= clearedAt
          \/ \E j \in 1 .. Len(nonces) : Stems(nonces[j], passed[i])
      BY <3>1 DEF NoncesInv, PassesRegistered
    <3> QED
      BY <1>1, <1>3, <3>1, <3>2
  <2> QED
    BY <2>1, <2>2
<1> QED
  BY <1>1, <1>4, <1>5, <1>6, <1>7, <1>8 DEF NoncesInv

LEMMA NoncesNextOK == NoncesInv /\ [NoncesNext]_noncesVars => NoncesInv'
<1> SUFFICES ASSUME NoncesInv, [NoncesNext]_noncesVars PROVE NoncesInv'
  OBVIOUS
<1>1. ASSUME UNCHANGED <<nonces, passed, clearedAt>>, setting' = setting \/ setting' \in Settings,
             now' = now \/ now' = now + 1
      PROVE  NoncesInv'
  <2>1. setting' \in Settings /\ now' \in Nat /\ now <= now'
    BY <1>1 DEF NoncesInv, NoncesTypeOK
  <2> QED
    BY <1>1, <2>1, NoncesQuietStep
<1>2. ASSUME NEW tx \in Txs, RegisterNonce(tx), UNCHANGED <<now, setting, clearedAt>> PROVE NoncesInv'
  BY <1>2, ShadowStep, RegisterStep DEF RegisterNonce, Emplaced
<1>3. CASE ClearSenderNonce
  BY <1>3, ClearNonceStep
<1>4. ASSUME NEW tx \in Txs, NEW b \in BOOLEAN, ProcessTransactionMsg(tx, b) PROVE NoncesInv'
  BY <1>1, <1>2, <1>4 DEF ProcessTransactionMsg
<1> QED
  BY <1>1, <1>3, <1>4 DEF NoncesNext, ProcessGatewayTransactionFromNode, BecomeNew,
     SetSenderNonceReuseSetting, Tick, noncesVars

LEMMA NoncesInvariance == NoncesSpec => []NoncesInv
  BY NoncesInitOK, NoncesNextOK, PTL DEF NoncesSpec

\* clear_sender_nonce leaves an item that is over only behind one that is not,
\* which takes a change of the reuse setting.
THEOREM NoncesCleared == NoncesSpec => []OverNoncesCleared
<1>1. NoncesInv => OverNoncesCleared
  BY DEF NoncesInv
<1> QED
  BY <1>1, NoncesInvariance, PTL

\* A transaction is refused as the reuse of a sender and nonce exactly for the
\* passes that the comment at NoncesRefused names.
THEOREM NonceReuseRefused == NoncesSpec => []NoncesRefused
<1>1. ASSUME NoncesInv PROVE RefusalJustified
  <2> SUFFICES ASSUME NEW tx \in Txs, TransactionValidation(tx, now) = "reuse_sender_nonce"
               PROVE  \E i \in DOMAIN passed : Against(tx, passed[i])
    BY DEF RefusalJustified
  <2>1. Reused(tx, now)
    <3>1. Form[tx] # "reuse_sender_nonce"
      BY NoncesAssumption
    <3> QED
      BY <3>1 DEF TransactionValidation
  <2> DEFINE m == Position(nonces, Sender[tx])
  <2>2. m \in 1 .. Len(nonces) /\ nonces[m].key = Sender[tx]
    BY <1>1, <2>1, NonceFields DEF Reused, Keys, Position, NoncesInv
  <2>3. PICK a \in 1 .. Len(passed) : Stems(nonces[m], passed[a])
    BY <1>1, <2>2, NonceFields DEF NoncesInv, ItemsStem
  <2>4. Against(tx, passed[a])
    BY <2>1, <2>2, <2>3 DEF Reused, RefusesOn, Stems, Against, Deadline
  <2> QED
    BY <1>1, <2>4, NonceFields DEF NoncesInv
<1>2. ASSUME NoncesInv PROVE ReuseRefused
  <2> SUFFICES ASSUME NEW tx \in Txs, NEW i \in 1 .. Len(passed), Form[tx] = "good",
                      Price[tx] >= MinFee, Against(tx, passed[i]), ~Shadowed(i)
               PROVE  TransactionValidation(tx, now) = "reuse_sender_nonce"
    BY <1>2, NonceFields DEF ReuseRefused, NoncesInv
  <2>1. now \in Nat \ {0} /\ clearedAt \in Nat /\ clearedAt <= now /\ Deadline(passed[i]) \in Nat
    BY <1>2, NonceFields DEF NoncesInv, NoncesTypeOK, TimesInOrder
  <2>2. now < Deadline(passed[i])
    BY DEF Against, Deadline
  <2>3. PICK j \in 1 .. Len(nonces) : Stems(nonces[j], passed[i])
    BY <1>2, <2>1, <2>2 DEF NoncesInv, PassesRegistered
  <2>4. nonces[j].key = Sender[tx]
    BY <2>3 DEF Stems, Against
  <2> DEFINE m == Position(nonces, Sender[tx])
  <2>5. Sender[tx] \in Keys(nonces) /\ m \in 1 .. Len(nonces) /\ nonces[m].key = Sender[tx]
    BY <1>2, <2>4, NonceFields DEF Keys, Position, NoncesInv
  <2>6. m = j
    BY <1>2, <2>4, <2>5 DEF NoncesInv, KeysOnce
  <2>7. Reused(tx, now)
    BY <2>1, <2>2, <2>3, <2>5, <2>6 DEF Reused, RefusesOn, Stems, Against
  <2>8. ~(Price[tx] < MinFee)
    BY NoncesAssumption
  <2> QED
    BY <2>7, <2>8 DEF TransactionValidation
<1>3. NoncesInv => NoncesRefused
  BY <1>1, <1>2 DEF NoncesRefused
<1> QED
  BY <1>3, NoncesInvariance, PTL

-----------------------------------------------------------------------------
(* Positions of the block and where they are: a home is a sub task, or the  *)
(* vector of all hashes, which has the number PoolSize.                     *)

Homes == 0 .. PoolSize

\* q says which position of the block an element of a home is; every position up to
\* n is in one home, once.
Separate(n, q) ==
    /\ \A h \in Homes : \A k \in 1 .. Len(q[h]) : q[h][k] \in 1 .. n
    /\ \A g, h \in Homes : \A k \in 1 .. Len(q[g]) : \A l \in 1 .. Len(q[h]) :
          q[g][k] = q[h][l] => g = h /\ k = l

LEMMA OneHomeEach ==
  ASSUME NEW n, NEW q, Separate(n, q), NEW g \in Homes, NEW h \in Homes,
         NEW k \in 1 .. Len(q[g]), NEW l \in 1 .. Len(q[h]), q[g][k] = q[h][l]
  PROVE  g = h /\ k = l
  BY DEF Separate

Placed(n, q) ==
    /\ Separate(n, q)
    /\ \A i \in 1 .. n : \E h \in Homes : \E k \in 1 .. Len(q[h]) : q[h][k] = i

LEMMA Appended ==
  ASSUME NEW S, NEW s \in Seq(S), NEW x \in S
  PROVE  /\ Append(s, x) \in Seq(S) /\ Len(Append(s, x)) = Len(s) + 1 /\ Len(s) \in Nat
         /\ Append(s, x)[Len(s) + 1] = x /\ \A k \in 1 .. Len(s) : Append(s, x)[k] = s[k]
OBVIOUS

\* The elements s are the transactions of the block b at the positions p.
Follows(b, s, p) == Len(p) = Len(s) /\ \A k \in 1 .. Len(s) : s[k] = b[p[k]]

\* A position is handed out.
LEMMA PlaceNext ==
  ASSUME NEW q \in [Homes -> Seq(Nat)], NEW n \in Nat, Placed(n, q), NEW h \in Homes,
         NEW r, r = [q EXCEPT ![h] = Append(q[h], n + 1)]
  PROVE  r \in [Homes -> Seq(Nat)] /\ Placed(n + 1, r)
<1>1. PICK m \in Nat : m = Len(q[h])
  OBVIOUS
<1>2. PICK s \in Seq(Nat) : s = Append(q[h], n + 1)
  <2>1. PICK i \in Nat, p \in Seq(Nat) : i = n + 1 /\ p = q[h]
    OBVIOUS
  <2>2. Append(p, i) \in Seq(Nat)
    OBVIOUS
  <2> QED
    BY <2>1, <2>2
<1>3. /\ Len(s) = m + 1 /\ s[m + 1] = n + 1
      /\ \A k \in 1 .. m : s[k] = q[h][k]
  BY <1>1, <1>2
<1>4. r \in [Homes -> Seq(Nat)] /\ r[h] = s /\ \A g \in Homes \ {h} : r[g] = q[g]
  BY <1>2
<1>5. \A g \in Homes : \A k \in 1 .. Len(r[g]) :
         \/ r[g][k] = n + 1 /\ g = h /\ k = m + 1
         \/ k \in 1 .. Len(q[g]) /\ r[g][k] = q[g][k] /\ r[g][k] \in 1 .. n
  <2> TAKE g \in Homes
  <2> TAKE k \in 1 .. Len(r[g])
  <2>1. CASE g = h
    <3>1. k \in 1 .. m + 1
      BY <1>3, <1>4, <2>1
    <3>2. k = m + 1 \/ k \in 1 .. m
      BY <3>1
    <3>3. \A l \in 1 .. m : q[h][l] \in 1 .. n
      BY <1>1 DEF Placed, Separate
    <3> QED
      BY <1>1, <1>3, <1>4, <2>1, <3>2, <3>3
  <2>2. CASE g # h
    BY <1>4, <2>2 DEF Placed, Separate
  <2> QED
    BY <2>1, <2>2
<1>6. \A g, f \in Homes : \A k \in 1 .. Len(r[g]) : \A l \in 1 .. Len(r[f]) :
         r[g][k] = r[f][l] => g = f /\ k = l
  <2>1. \A i \in 1 .. n : i # n + 1
    OBVIOUS
  <2>2. \A g, f \in Homes : \A k \in 1 .. Len(q[g]) : \A l \in 1 .. Len(q[f]) :
           q[g][k] = q[f][l] => g = f /\ k = l
    BY DEF Placed, Separate
  <2> TAKE g, f \in Homes
  <2> TAKE k \in 1 .. Len(r[g])
  <2> TAKE l \in 1 .. Len(r[f])
  <2> HAVE r[g][k] = r[f][l]
  <2>3. \/ r[g][k] = n + 1 /\ g = h /\ k = m + 1
        \/ k \in 1 .. Len(q[g]) /\ r[g][k] = q[g][k] /\ r[g][k] \in 1 .. n
    BY <1>5
  <2>4. \/ r[f][l] = n + 1 /\ f = h /\ l = m + 1
        \/ l \in 1 .. Len(q[f]) /\ r[f][l] = q[f][l] /\ r[f][l] \in 1 .. n
    BY <1>5
  <2>5. k \in 1 .. Len(q[g]) /\ l \in 1 .. Len(q[f]) /\ q[g][k] = q[f][l] => g = f /\ k = l
    BY <2>2
  <2> QED
    BY <2>1, <2>3, <2>4, <2>5, Zenon
<1>7. \A i \in 1 .. n + 1 : \E g \in Homes : \E k \in 1 .. Len(r[g]) : r[g][k] = i
  <2> TAKE i \in 1 .. n + 1
  <2>1. CASE i = n + 1
    <3>1. m + 1 \in 1 .. Len(r[h])
      BY <1>3, <1>4
    <3> QED
      BY <1>3, <1>4, <2>1, <3>1
  <2>2. CASE i # n + 1
    <3>1. i \in 1 .. n
      BY <2>2
    <3>0. PICK g \in Homes : \E k \in 1 .. Len(q[g]) : q[g][k] = i
      BY <3>1 DEF Placed, Separate
    <3>2. PICK k \in 1 .. Len(q[g]) : q[g][k] = i
      BY <3>0
    <3>3. k \in 1 .. Len(r[g]) /\ r[g][k] = i
      BY <1>1, <1>3, <1>4, <3>2
    <3> QED
      BY <3>3
  <2> QED
    BY <2>1, <2>2
<1>8. \A g \in Homes : \A k \in 1 .. Len(r[g]) : r[g][k] \in 1 .. n + 1
  <2>1. n + 1 \in 1 .. n + 1 /\ \A i \in 1 .. n : i \in 1 .. n + 1
    OBVIOUS
  <2> QED
    BY <1>5, <2>1
<1> QED
  BY <1>4, <1>6, <1>7, <1>8 DEF Placed, Separate

\* When the first element of w goes to the end of h, which has m: the element k of
\* home g was the element i of home a.
Was(w, h, m, g, k, a, i) ==
    \/ g = h /\ k = m + 1 /\ a = w /\ i = 1
    \/ g = w /\ a = w /\ i = k + 1 /\ i # 1
    \/ g # w /\ a = g /\ i = k /\ ~(g = h /\ k = m + 1)

Stem(w, h, m, q, r) ==
    \A g \in Homes : \A k \in 1 .. Len(r[g]) : \E a \in Homes : \E i \in 1 .. Len(q[a]) :
        Was(w, h, m, g, k, a, i) /\ r[g][k] = q[a][i]

\* An injection of places into places.
LEMMA PlacesStay ==
  ASSUME NEW q, NEW n \in Nat, Placed(n, q),
         NEW w \in Homes, NEW h \in Homes, w # h, NEW m \in Nat,
         NEW r, Stem(w, h, m, q, r)
  PROVE  Separate(n, r)
<1>0. \A g \in Homes : \A k \in 1 .. Len(r[g]) : \E a \in Homes : \E i \in 1 .. Len(q[a]) :
         Was(w, h, m, g, k, a, i) /\ r[g][k] = q[a][i]
  BY DEF Stem
<1>1. \A g, f \in Homes : \A k \in 1 .. Len(r[g]) : \A l \in 1 .. Len(r[f]) :
         r[g][k] = r[f][l] => g = f /\ k = l
  <2> TAKE g, f \in Homes
  <2> TAKE k \in 1 .. Len(r[g])
  <2> TAKE l \in 1 .. Len(r[f])
  <2>0. k \in Nat /\ l \in Nat
    OBVIOUS
  <2>1. PICK a \in Homes : \E i \in 1 .. Len(q[a]) : Was(w, h, m, g, k, a, i) /\ r[g][k] = q[a][i]
    BY <1>0
  <2>2. PICK i \in 1 .. Len(q[a]) : Was(w, h, m, g, k, a, i) /\ r[g][k] = q[a][i]
    BY <2>1
  <2>3. PICK b \in Homes : \E j \in 1 .. Len(q[b]) : Was(w, h, m, f, l, b, j) /\ r[f][l] = q[b][j]
    BY <1>0
  <2>4. PICK j \in 1 .. Len(q[b]) : Was(w, h, m, f, l, b, j) /\ r[f][l] = q[b][j]
    BY <2>3
  <2>5. q[a][i] = q[b][j] => a = b /\ i = j
    <3>1. Separate(n, q)
      BY DEF Placed
    <3>2. CASE q[a][i] = q[b][j]
      BY <3>1, <3>2, OneHomeEach
    <3> QED
      BY <3>2
  <2>6. a = b /\ i = j => g = f /\ k = l
    <3>1. i \in Nat /\ j \in Nat
      OBVIOUS
    <3>2. CASE g = h /\ k = m + 1 /\ a = w /\ i = 1
      BY <2>4, <3>2 DEF Was
    <3>3. CASE g = w /\ a = w /\ i = k + 1 /\ i # 1
      <4>1. k + 1 = l + 1 => k = l
        BY <2>0
      <4> QED
        BY <2>4, <3>3, <4>1 DEF Was
    <3>4. CASE g # w /\ a = g /\ i = k /\ ~(g = h /\ k = m + 1)
      BY <2>0, <2>4, <3>4 DEF Was
    <3> QED
      BY <2>2, <3>2, <3>3, <3>4 DEF Was
  <2> QED
    BY <2>2, <2>4, <2>5, <2>6
<1>2. \A g \in Homes : \A k \in 1 .. Len(r[g]) : r[g][k] \in 1 .. n
  <2> TAKE g \in Homes
  <2> TAKE k \in 1 .. Len(r[g])
  <2>1. PICK a \in Homes : \E i \in 1 .. Len(q[a]) : Was(w, h, m, g, k, a, i) /\ r[g][k] = q[a][i]
    BY <1>0
  <2>2. PICK i \in 1 .. Len(q[a]) : r[g][k] = q[a][i]
    BY <2>1
  <2> QED
    BY <2>2 DEF Placed, Separate
<1> QED
  BY <1>1, <1>2 DEF Separate

\* The first position of one home goes to the end of another, place by place.
Shifted(w, h, m, c, q, r) ==
    /\ m = Len(q[h]) /\ c = Len(q[w])
    /\ Len(r[h]) = m + 1 /\ r[h][m + 1] = q[w][1] /\ \A k \in 1 .. m : r[h][k] = q[h][k]
    /\ Len(r[w]) = c - 1 /\ \A k \in 1 .. c - 1 : r[w][k] = q[w][k + 1]
    /\ \A g \in Homes : g # h /\ g # w => r[g] = q[g]

LEMMA PlaceShifted ==
  ASSUME NEW q \in [Homes -> Seq(Nat)], NEW n \in Nat, Placed(n, q),
         NEW w \in Homes, NEW h \in Homes, w # h,
         NEW r \in [Homes -> Seq(Nat)], NEW m \in Nat, NEW c \in Nat \ {0},
         Shifted(w, h, m, c, q, r)
  PROVE  Placed(n, r)
<1>1. m = Len(q[h]) /\ c = Len(q[w])
  BY DEF Shifted
<1>4. Len(r[h]) = m + 1 /\ r[h][m + 1] = q[w][1] /\ \A k \in 1 .. m : r[h][k] = q[h][k]
  BY DEF Shifted
<1>5. Len(r[w]) = c - 1 /\ \A k \in 1 .. c - 1 : r[w][k] = q[w][k + 1]
  BY DEF Shifted
<1>6. \A g \in Homes : g # h /\ g # w => r[g] = q[g]
  BY DEF Shifted
<1>7. Stem(w, h, m, q, r)
  <2> SUFFICES \A g \in Homes : \A k \in 1 .. Len(r[g]) : \E a \in Homes : \E i \in 1 .. Len(q[a]) :
         Was(w, h, m, g, k, a, i) /\ r[g][k] = q[a][i]
    BY DEF Stem
  <2> TAKE g \in Homes
  <2> TAKE k \in 1 .. Len(r[g])
  <2>0. k \in Nat /\ k # 0
    OBVIOUS
  <2>1. CASE g = h
    <3>1. k \in 1 .. m + 1 /\ (k = m + 1 \/ k \in 1 .. m)
      BY <1>4, <2>1
    <3>2. CASE k = m + 1
      <4>1. 1 \in 1 .. Len(q[w]) /\ Was(w, h, m, g, k, w, 1) /\ r[g][k] = q[w][1]
        BY <1>1, <1>4, <2>1, <3>2 DEF Was
      <4> QED
        BY <4>1
    <3>3. CASE k \in 1 .. m
      <4>1. k \in 1 .. Len(q[g]) /\ Was(w, h, m, g, k, g, k) /\ r[g][k] = q[g][k]
        BY <1>1, <1>4, <2>1, <3>3 DEF Was
      <4> QED
        BY <4>1
    <3> QED
      BY <3>1, <3>2, <3>3
  <2>2. CASE g = w
    <3>1. k \in 1 .. c - 1 /\ k + 1 \in 1 .. c /\ k + 1 # 1
      BY <1>1, <1>5, <2>0, <2>2
    <3>2. k + 1 \in 1 .. Len(q[w]) /\ Was(w, h, m, g, k, w, k + 1) /\ r[g][k] = q[w][k + 1]
      BY <1>1, <1>5, <2>2, <3>1 DEF Was
    <3> QED
      BY <3>2
  <2>3. CASE g # h /\ g # w
    <3>1. k \in 1 .. Len(q[g]) /\ Was(w, h, m, g, k, g, k) /\ r[g][k] = q[g][k]
      BY <1>6, <2>3 DEF Was
    <3> QED
      BY <3>1
  <2> QED
    BY <2>1, <2>2, <2>3
<1>8. Separate(n, r)
  BY <1>7, PlacesStay, Zenon
<1>11. \A i \in 1 .. n : \E g \in Homes : \E k \in 1 .. Len(r[g]) : r[g][k] = i
  <2> TAKE i \in 1 .. n
  <2>0. PICK g \in Homes : \E k \in 1 .. Len(q[g]) : q[g][k] = i
    BY DEF Placed, Separate
  <2>1. PICK k \in 1 .. Len(q[g]) : q[g][k] = i
    BY <2>0
  <2>2. CASE g = w /\ k = 1
    <3>1. m + 1 \in 1 .. Len(r[h]) /\ r[h][m + 1] = i
      BY <1>4, <2>1, <2>2
    <3> QED
      BY <3>1
  <2>3. CASE g = w /\ k # 1
    <3>1. k - 1 \in 1 .. c - 1 /\ (k - 1) + 1 = k
      BY <1>1, <2>1, <2>3
    <3>2. k - 1 \in 1 .. Len(r[w]) /\ r[w][k - 1] = i
      BY <1>5, <2>1, <2>3, <3>1
    <3> QED
      BY <3>2
  <2>4. CASE g = h
    <3>1. k \in 1 .. Len(r[h]) /\ r[h][k] = i
      BY <1>1, <1>4, <2>1, <2>4
    <3> QED
      BY <3>1
  <2>5. CASE g # w /\ g # h
    BY <1>6, <2>1, <2>5
  <2> QED
    BY <2>2, <2>3, <2>4, <2>5
<1> QED
  BY <1>8, <1>11 DEF Placed

\* The same with the operators of sequences.
HeadMoved(w, h, q, r) ==
    /\ q[w] # <<>> /\ r[w] = Tail(q[w]) /\ r[h] = Append(q[h], Head(q[w]))
    /\ \A g \in Homes \ {w, h} : r[g] = q[g]

LEMMA PlaceMoved ==
  ASSUME NEW q \in [Homes -> Seq(Nat)], NEW n \in Nat, Placed(n, q),
         NEW w \in Homes, NEW h \in Homes, w # h,
         NEW r \in [Homes -> Seq(Nat)], HeadMoved(w, h, q, r)
  PROVE  Placed(n, r)
<1>0. /\ q[w] # <<>> /\ r[w] = Tail(q[w]) /\ r[h] = Append(q[h], Head(q[w]))
      /\ \A g \in Homes \ {w, h} : r[g] = q[g]
  BY DEF HeadMoved
<1>1. PICK m \in Nat, c \in Nat : m = Len(q[h]) /\ c = Len(q[w]) /\ c # 0
  BY <1>0
<1>2. PICK x \in Nat : x = Head(q[w]) /\ x = q[w][1]
  BY <1>0
<1>3. PICK s \in Seq(Nat), t \in Seq(Nat) : s = Append(q[h], x) /\ t = Tail(q[w])
  <2>1. q[h] \in Seq(Nat) /\ q[w] \in Seq(Nat) /\ q[w] # <<>>
    BY <1>0
  <2>2. Append(q[h], x) \in Seq(Nat)
    BY <2>1
  <2>3. Tail(q[w]) \in Seq(Nat)
    BY <2>1
  <2> QED
    BY <2>2, <2>3
<1>4. /\ Len(s) = m + 1 /\ s[m + 1] = x
      /\ \A k \in 1 .. m : s[k] = q[h][k]
  BY <1>0, <1>1, <1>3
<1>5. Len(t) = c - 1 /\ \A k \in 1 .. c - 1 : t[k] = q[w][k + 1]
  BY <1>0, <1>1, <1>3
<1>6. /\ r \in [Homes -> Seq(Nat)] /\ r[h] = s /\ r[w] = t
      /\ \A g \in Homes \ {h, w} : r[g] = q[g]
  BY <1>0, <1>2, <1>3
<1>7. c \in Nat \ {0} /\ Shifted(w, h, m, c, q, r)
  BY <1>1, <1>2, <1>4, <1>5, <1>6 DEF Shifted
<1> QED
  BY <1>7, PlaceShifted, Zenon

-----------------------------------------------------------------------------
(* The inductive invariant.                                                *)

Items == Hashes \cup Sids \cup {Garbage}

TaskType ==
    [proto : Protocols, pc : {"idle", "execute", "wait", "done", "cleaned", "failed"},
     block : Seq(Hashes), msg : Confirmations \cup {NoBlock}, count : Nat, idx : Workers,
     total : Nat, threw : BOOLEAN, blocks : Nat]

WorkerType ==
    [pc : {"idle", "look", "find", "next", "read", "store", "completed", "failed"},
     todo : Seq(Hashes), left : SUBSET Sids, pushes : Seq(Vectors \X Items), pos : Nat]

CleanupTypes ==
    /\ task \in TaskType
    /\ worker \in [Workers -> WorkerType]
    /\ vec \in [Vectors -> Seq(Items)]
    /\ bound \in SUBSET Sids /\ contents \in SUBSET Hashes /\ raced \in BOOLEAN

\* A sub task ends its work on a transaction with a push to the vector of all hashes.
Pushes(r) ==
    /\ r.pc \in {"find", "next", "read", "store"} =>
          /\ r.todo # <<>> /\ Len(r.pushes) \in 1 .. 2
          /\ r.pushes[Len(r.pushes)] = <<"all", Head(r.todo)>>
          /\ Len(r.pushes) = 2 => r.pushes[1][1] # "all"
    /\ r.pc \in {"find", "next"} => Len(r.pushes) = 1
    /\ r.pc = "completed" => r.todo = <<>>

\* Unless two sub tasks met, the end that one has read is the end of its vector.
Alone ==
    ~raced => \A w \in Workers : worker[w].pc = "store" =>
        /\ worker[w].pos = Len(vec[Item(w)[1]])
        /\ \A u \in Workers \ {w} : ~InPush(u, Item(w)[1])

\* Every transaction handed out is before a sub task or in the vector, once.
Collected ==
    \E q \in [Homes -> Seq(Nat)] :
        /\ Placed(task.count, q)
        /\ Follows(task.block, vec["all"], q[PoolSize])
        /\ \A w \in Workers : Follows(task.block, worker[w].todo, q[w])

Stage ==
    /\ task.count <= Len(task.block)
    /\ task.pc \in {"wait", "done"} => task.count = Len(task.block)
    /\ \A w \in Workers : w > task.idx => worker[w].todo = <<>> /\ worker[w].pc = "idle"
    /\ task.pc = "execute" => worker[task.idx].pc = "idle" /\ task.idx <= NextIdx
    /\ task.pc = "done" => \A w \in Workers : worker[w].todo = <<>> /\ ~Running(w)

Collecting ==
    task.proto # "confirmation" /\ task.pc \in {"execute", "wait", "done"} =>
        Stage /\ (~raced => Collected)

\* A confirmation has no sub tasks.
Confirming ==
    task.proto = "confirmation" =>
        /\ \A w \in Workers : ~Running(w)
        /\ task.pc \in {"execute", "done"} => task.total = 0 /\ task.msg \in Confirmations

CleanupInv ==
    /\ CleanupTypes
    /\ \A w \in Workers : Pushes(worker[w])
    /\ Alone /\ Collecting /\ Confirming

LEMMA Constants ==
  /\ PoolSize \in Nat \ {0} /\ MinimalTx \in Nat \ {0}
  /\ Workers \subseteq Homes /\ PoolSize \in Homes /\ PoolSize \notin Workers /\ 0 \in Workers
  /\ Workers \subseteq Nat /\ \A h \in Homes : h = PoolSize \/ h \in Workers
  /\ HashOf \in [Sids -> Hashes] /\ SizeOf \in [Hashes -> Nat]
  /\ IsFiniteSet(Hashes) /\ IsFiniteSet(Sids)
  /\ \A b \in Blocks : b \in Seq(Hashes)
  /\ \A c \in Confirmations : c.sids \in Seq(Sids) /\ c.hashes \in Seq(Hashes)
  /\ StartBound \subseteq Sids
BY BlockCleanupAssumption DEF Workers, Homes

LEMMA FreshWorker ==
  /\ NewWorker \in WorkerType /\ Pushes(NewWorker)
  /\ NewWorker.pc = "idle" /\ NewWorker.todo = <<>>
<1>1. <<>> \in Seq(Hashes) /\ <<>> \in Seq(Vectors \X Items)
  OBVIOUS
<1> QED
  BY <1>1 DEF NewWorker, WorkerType, Pushes

\* Nothing is placed before the first transaction is handed out.
LEMMA NothingPlaced ==
  ASSUME NEW b, NEW v, v = <<>>, NEW ws, \A w \in Workers : ws[w] = NewWorker
  PROVE  \E q \in [Homes -> Seq(Nat)] :
            /\ Placed(0, q) /\ Follows(b, v, q[PoolSize])
            /\ \A w \in Workers : Follows(b, ws[w].todo, q[w])
<1> DEFINE q == [h \in Homes |-> <<>>]
<1>1. q \in [Homes -> Seq(Nat)] /\ \A h \in Homes : q[h] = <<>> /\ Len(q[h]) = 0
  OBVIOUS
<1> HIDE DEF q
<1>2. Placed(0, q)
  BY <1>1 DEF Placed, Separate
<1>3. Follows(b, v, q[PoolSize])
  BY <1>1, Constants DEF Follows
<1>4. ASSUME NEW w \in Workers PROVE Follows(b, ws[w].todo, q[w])
  <2>1. ws[w].todo = <<>>
    BY FreshWorker
  <2> QED
    BY <1>1, <2>1, Constants DEF Follows
<1> QED
  BY <1>1, <1>2, <1>3, <1>4

LEMMA CleanupInit == Init => CleanupInv
<1> SUFFICES ASSUME Init PROVE CleanupInv
  OBVIOUS
<1>1. PICK p \in Protocols :
         task = [proto |-> p, pc |-> "idle", block |-> <<>>, msg |-> NoBlock, count |-> 0,
                 idx |-> 0, total |-> 0, threw |-> FALSE, blocks |-> 0]
  BY DEF Init
<1>2. task \in TaskType /\ task.pc = "idle"
  <2>1. <<>> \in Seq(Hashes) /\ 0 \in Workers
    BY Constants
  <2> QED
    BY <1>1, <2>1 DEF TaskType
<1>3. worker \in [Workers -> WorkerType] /\ \A w \in Workers : worker[w] = NewWorker
  BY FreshWorker DEF Init
<1>4. vec \in [Vectors -> Seq(Items)]
  <2>1. <<>> \in Seq(Items)
    OBVIOUS
  <2> QED
    BY <2>1 DEF Init, EmptyVectors
<1>5. bound \in SUBSET Sids /\ contents \in SUBSET Hashes /\ raced \in BOOLEAN
  BY Constants DEF Init
<1>6. CleanupTypes
  BY <1>2, <1>3, <1>4, <1>5 DEF CleanupTypes
<1>7. \A w \in Workers : Pushes(worker[w]) /\ worker[w].pc = "idle"
  BY <1>3, FreshWorker
<1> QED
  BY <1>2, <1>6, <1>7 DEF CleanupInv, Alone, Collecting, Confirming, Running

-----------------------------------------------------------------------------
(* init and _execute.                                                      *)

LEMMA Divided ==
  ASSUME NEW n \in Nat, NEW size \in Nat \ {0}
  PROVE  n \div size \in Nat /\ n \div size <= (n + 1) \div size
OBVIOUS

\* The sub task that NextIdx gives a position of a block.
IdxOf(block, n) ==
    Smaller(n \div Larger(Len(block) \div PoolSize, Larger(PoolSize, MinimalTx)), PoolSize - 1)

LEMMA NextIdxIs == NextIdx = IdxOf(task.block, task.count) /\ NextIdx' = IdxOf(task'.block, task'.count)
BY DEF NextIdx, IdxOf, BulkSize

LEMMA IdxGrows ==
  ASSUME NEW block \in Seq(Hashes), NEW n \in Nat
  PROVE  /\ IdxOf(block, n) \in Workers /\ IdxOf(block, n + 1) \in Workers
         /\ IdxOf(block, n) <= IdxOf(block, n + 1) /\ 0 <= IdxOf(block, n)
<1> DEFINE d == Len(block) \div PoolSize
           size == Larger(d, Larger(PoolSize, MinimalTx))
<1>1. PoolSize \in Nat \ {0} /\ MinimalTx \in Nat \ {0} /\ Len(block) \in Nat
  BY Constants
<1>2. d \in Nat
  BY <1>1, Divided
<1> HIDE DEF d
<1>3. size \in Nat \ {0}
  BY <1>1, <1>2 DEF Larger
<1> HIDE DEF size
<1>4. n \div size \in Nat /\ n \div size <= (n + 1) \div size /\ (n + 1) \div size \in Nat
  BY <1>3, Divided
<1>5. PICK x \in Nat, y \in Nat : x = n \div size /\ y = (n + 1) \div size /\ x <= y
  BY <1>4
<1>6. IdxOf(block, n) = Smaller(x, PoolSize - 1) /\ IdxOf(block, n + 1) = Smaller(y, PoolSize - 1)
  BY <1>5 DEF IdxOf, size, d
<1> QED
  BY <1>1, <1>5, <1>6 DEF Smaller, Workers

LEMMA InitTaskOK ==
  ASSUME CleanupInv, NEW b \in Seq(Hashes), NEW m \in Confirmations \cup {NoBlock},
         NEW total \in Nat, InitTask(b, m, total),
         task.proto = "confirmation" => total = 0 /\ m \in Confirmations
  PROVE  CleanupInv'
<1>1. /\ task' \in TaskType /\ task'.pc = "execute" /\ task'.block = b /\ task'.msg = m
      /\ task'.count = 0 /\ task'.idx = 0 /\ task'.total = total /\ task'.proto = task.proto
  <2>1. /\ task \in TaskType /\ task.blocks \in Nat /\ task.blocks + 1 \in Nat
        /\ 0 \in Workers /\ 0 \in Nat
    BY Constants DEF CleanupInv, CleanupTypes, TaskType
  <2>2. PICK bl \in Nat : bl = task.blocks + 1
    BY <2>1
  <2>3. task' = [task EXCEPT !.pc = "execute", !.block = b, !.msg = m, !.count = 0,
                            !.idx = 0, !.total = total, !.blocks = bl]
    BY <2>1, <2>2 DEF InitTask, TaskType
  <2> QED
    BY <2>1, <2>3 DEF TaskType
<1>2. worker' \in [Workers -> WorkerType] /\ \A w \in Workers : worker'[w] = NewWorker
  BY FreshWorker DEF InitTask
<1>3. vec' \in [Vectors -> Seq(Items)] /\ vec'["all"] = <<>>
  <2>1. <<>> \in Seq(Items)
    OBVIOUS
  <2> QED
    BY <2>1 DEF InitTask, EmptyVectors, Vectors
<1>4. UNCHANGED <<bound, contents>> /\ raced' = FALSE
  BY DEF InitTask, service
<1>5. CleanupTypes'
  BY <1>1, <1>2, <1>3, <1>4 DEF CleanupInv, CleanupTypes
<1>6. \A w \in Workers : Pushes(worker'[w]) /\ worker'[w].pc = "idle" /\ worker'[w].todo = <<>>
  BY <1>2, FreshWorker
<1>7. Alone'
  BY <1>6 DEF Alone
<1>8. Collected'
  <2>1. \E q \in [Homes -> Seq(Nat)] :
            /\ Placed(0, q) /\ Follows(b, vec'["all"], q[PoolSize])
            /\ \A w \in Workers : Follows(b, worker'[w].todo, q[w])
    BY <1>2, <1>3, NothingPlaced
  <2> QED
    BY <1>1, <2>1 DEF Collected
<1>9. Stage'
  <2>1. 0 <= NextIdx'
    BY <1>1, IdxGrows, NextIdxIs
  <2>2. 0 <= Len(b) /\ 0 \in Workers
    BY Constants
  <2> QED
    BY <1>1, <1>6, <2>1, <2>2 DEF Stage
<1>10. Confirming'
  BY <1>1, <1>6 DEF Confirming, Running
<1> QED
  BY <1>5, <1>6, <1>7, <1>8, <1>9, <1>10 DEF CleanupInv, Collecting

LEMMA InitOK ==
  ASSUME CleanupInv,
         \/ \E b \in Blocks : BtcInit(b) \/ OntInit(b)
         \/ \E c \in Confirmations : ConfirmationInit(c)
  PROVE  CleanupInv'
<1>0. task.total \in Nat /\ <<>> \in Seq(Hashes)
  BY DEF CleanupInv, CleanupTypes, TaskType
<1>1. ASSUME NEW b \in Blocks, BtcInit(b) \/ OntInit(b) PROVE CleanupInv'
  <2>1. PICK total \in Nat : InitTask(b, NoBlock, total) /\ task.proto # "confirmation"
    BY <1>0, <1>1 DEF BtcInit, OntInit
  <2>2. b \in Seq(Hashes)
    BY Constants
  <2> QED
    BY <2>1, <2>2, InitTaskOK
<1>2. ASSUME NEW c \in Confirmations, ConfirmationInit(c) PROVE CleanupInv'
  BY <1>0, <1>2, InitTaskOK DEF ConfirmationInit
<1> QED
  BY <1>1, <1>2

LEMMA DispatchNextOK ==
  ASSUME CleanupInv, task.proto # "confirmation", DispatchNext
  PROVE  CleanupInv'
<1>1. PICK i \in Workers, n \in Nat, b \in Seq(Hashes), x \in Hashes :
         /\ i = task.idx /\ n = task.count /\ b = task.block /\ x = b[n + 1]
         /\ n + 1 <= Len(b)
  <2>1. task.idx \in Workers /\ task.count \in Nat /\ task.block \in Seq(Hashes)
    BY DEF CleanupInv, CleanupTypes, TaskType
  <2>2. task.count < Len(task.block)
    BY DEF DispatchNext
  <2>3. task.count + 1 \in 1 .. Len(task.block) /\ task.count + 1 <= Len(task.block)
    BY <2>1, <2>2
  <2>4. task.block[task.count + 1] \in Hashes
    BY <2>1, <2>3
  <2> QED
    BY <2>1, <2>3, <2>4
<1>2. Stage /\ task.pc = "execute" /\ (~raced => Collected)
  BY DEF CleanupInv, Collecting, DispatchNext
<1>3. worker[i].pc = "idle" /\ \A w \in Workers : w > i => worker[w].todo = <<>> /\ worker[w].pc = "idle"
  BY <1>1, <1>2 DEF Stage
<1>4. PICK todo \in Seq(Hashes) : todo = Append(worker[i].todo, x)
  <2>1. worker[i].todo \in Seq(Hashes)
    BY DEF CleanupInv, CleanupTypes, WorkerType
  <2>2. Append(worker[i].todo, x) \in Seq(Hashes)
    BY <2>1, Appended
  <2> QED
    BY <2>2, Zenon
<1>5. PICK r : /\ r \in WorkerType /\ r.todo = todo /\ r.pc \in {"idle", "look"}
               /\ r.pc = "idle" \/ NextIdx > i
               /\ worker' = [worker EXCEPT ![i] = r]
  <2>1. worker \in [Workers -> WorkerType]
    BY DEF CleanupInv, CleanupTypes
  <2>2. CASE NextIdx > i
    <3>1. worker' = [worker EXCEPT ![i] = [worker[i] EXCEPT !.todo = todo, !.pc = "look"]]
      BY <1>1, <1>4, <2>1, <2>2 DEF DispatchNext
    <3> QED
      BY <2>1, <2>2, <3>1 DEF WorkerType
  <2>3. CASE ~(NextIdx > i)
    <3>1. worker' = [worker EXCEPT ![i] = [worker[i] EXCEPT !.todo = todo]]
      BY <1>1, <1>4, <2>1, <2>3 DEF DispatchNext
    <3>2. PICK o \in WorkerType : o = worker[i]
      BY <2>1
    <3>3. PICK r : r = [o EXCEPT !.todo = todo]
      OBVIOUS
    <3>4. r \in WorkerType /\ r.todo = todo /\ r.pc = o.pc
      BY <3>2, <3>3 DEF WorkerType
    <3> QED
      BY <1>3, <3>1, <3>2, <3>3, <3>4
  <2> QED
    BY <2>2, <2>3
<1>6. /\ worker' \in [Workers -> WorkerType] /\ worker'[i] = r
      /\ \A w \in Workers \ {i} : worker'[w] = worker[w]
  BY <1>5 DEF CleanupInv, CleanupTypes
<1>7. NextIdx \in Workers /\ i <= NextIdx /\ NextIdx <= IdxOf(b, n + 1)
  BY <1>1, <1>2, IdxGrows, NextIdxIs DEF Stage
<1>8. /\ task' \in TaskType /\ task'.pc = "execute" /\ task'.count = n + 1 /\ task'.idx = NextIdx
      /\ task'.block = b /\ task'.proto = task.proto
      /\ UNCHANGED <<vec, bound, contents, raced>>
  <2>1. task \in TaskType /\ n + 1 \in Nat
    BY DEF CleanupInv, CleanupTypes
  <2>2. PICK e \in Nat, j \in Workers : e = n + 1 /\ j = NextIdx
    BY <1>7, <2>1
  <2>3. task' = [task EXCEPT !.count = e, !.idx = j]
    BY <1>1, <2>1, <2>2 DEF DispatchNext, TaskType
  <2>4. /\ task' \in TaskType /\ task'.pc = task.pc /\ task'.count = e /\ task'.idx = j
        /\ task'.block = task.block /\ task'.proto = task.proto
    BY <2>1, <2>3 DEF TaskType
  <2>5. UNCHANGED <<vec, bound, contents, raced>>
    BY DEF DispatchNext, service
  <2> QED
    BY <1>1, <1>2, <2>2, <2>4, <2>5
<1>9. CleanupTypes'
  BY <1>6, <1>8 DEF CleanupInv, CleanupTypes
<1>10. \A w \in Workers : Pushes(worker'[w])
  <2>1. Pushes(r)
    BY <1>5 DEF Pushes
  <2> QED
    BY <1>6, <2>1 DEF CleanupInv
<1>11. Alone'
  <2>1. worker'[i].pc # "store"
    BY <1>5, <1>6
  <2> QED
    BY <1>6, <1>8, <2>1 DEF CleanupInv, Alone, InPush, Item
<1>12. Stage'
  <2>1. i \in Nat /\ NextIdx \in Nat
    BY <1>7, Constants
  <2>2. ASSUME NEW w \in Workers, w > task'.idx PROVE worker'[w].todo = <<>> /\ worker'[w].pc = "idle"
    <3>1. w \in Nat /\ w > i /\ w # i
      BY <1>7, <1>8, <2>1, <2>2, Constants
    <3> QED
      BY <1>3, <1>6, <3>1
  <2>3. worker'[NextIdx].pc = "idle"
    <3>1. CASE NextIdx = i
      BY <1>5, <1>6, <2>1, <3>1
    <3>2. CASE NextIdx # i
      BY <1>3, <1>6, <1>7, <2>1, <3>2
    <3> QED
      BY <3>1, <3>2
  <2>4. task'.idx <= NextIdx'
    BY <1>7, <1>8, NextIdxIs
  <2> QED
    BY <1>1, <1>8, <2>2, <2>3, <2>4 DEF Stage
<1>13. ~raced => Collected'
  <2> HAVE ~raced
  <2>1. PICK q \in [Homes -> Seq(Nat)] :
           /\ Placed(n, q) /\ Follows(b, vec["all"], q[PoolSize])
           /\ \A w \in Workers : Follows(b, worker[w].todo, q[w])
    BY <1>1, <1>2 DEF Collected
  <2>2. PICK p : p = [q EXCEPT ![i] = Append(q[i], n + 1)]
    OBVIOUS
  <2>3. i \in Homes /\ i # PoolSize
    BY Constants
  <2>4. p \in [Homes -> Seq(Nat)] /\ Placed(n + 1, p)
    BY <2>1, <2>2, <2>3, PlaceNext
  <2>5. p[i] = Append(q[i], n + 1) /\ \A h \in Homes \ {i} : p[h] = q[h]
    BY <2>2, <2>3
  <2>6. Follows(b, todo, p[i])
    <3>1. Follows(b, worker[i].todo, q[i])
      BY <2>1
    <3>2. worker[i].todo \in Seq(Hashes) /\ q[i] \in Seq(Nat)
      BY <2>3 DEF CleanupInv, CleanupTypes, WorkerType
    <3>3. PICK s \in Seq(Hashes), o \in Seq(Nat), l \in Nat :
             s = worker[i].todo /\ o = q[i] /\ l = Len(s) /\ l = Len(o)
      <4>1. Len(worker[i].todo) \in Nat
        BY <3>2
      <4>2. Len(q[i]) = Len(worker[i].todo)
        BY <3>1 DEF Follows
      <4> QED
        BY <3>2, <4>1, <4>2, Zenon
    <3>4. /\ Len(todo) = l + 1 /\ todo[l + 1] = x /\ \A k \in 1 .. l : todo[k] = s[k]
      <4>1. todo = Append(s, x)
        BY <1>4, <3>3
      <4>2. /\ Len(todo) = Len(s) + 1 /\ todo[Len(s) + 1] = x
            /\ \A k \in 1 .. Len(s) : todo[k] = s[k]
        BY <4>1, Appended
      <4>3. Len(s) = l
        BY <3>3
      <4> QED
        BY <4>2, <4>3
    <3>5. PICK e \in Nat : e = n + 1
      OBVIOUS
    <3>6. PICK oe : oe = Append(o, e)
      OBVIOUS
    <3>7. /\ Len(oe) = l + 1 /\ oe[l + 1] = e /\ \A k \in 1 .. l : oe[k] = o[k]
      BY <3>3, <3>6
    <3>8. \A k \in 1 .. l : s[k] = b[o[k]]
      BY <3>1, <3>3 DEF Follows
    <3>9. \A k \in 1 .. l + 1 : k = l + 1 \/ k \in 1 .. l
      OBVIOUS
    <3>10. x = b[e]
      BY <1>1, <3>5
    <3>11. oe = p[i]
      BY <2>5, <3>3, <3>5, <3>6
    <3>12. Follows(b, todo, oe)
      BY <3>4, <3>7, <3>8, <3>9, <3>10 DEF Follows
    <3> QED
      BY <3>11, <3>12
  <2>7. ASSUME NEW w \in Workers PROVE Follows(b, worker'[w].todo, p[w])
    <3>1. CASE w = i
      BY <1>5, <1>6, <2>6, <3>1
    <3>2. CASE w # i
      BY <1>6, <2>1, <2>5, <3>2, Constants
    <3> QED
      BY <3>1, <3>2
  <2>8. Follows(b, vec'["all"], p[PoolSize])
    BY <1>8, <2>1, <2>3, <2>5, Constants
  <2> QED
    BY <1>8, <2>4, <2>7, <2>8 DEF Collected
<1> QED
  BY <1>8, <1>9, <1>10, <1>11, <1>12, <1>13 DEF CleanupInv, Collecting, Confirming

\* Steps that leave the sub tasks and what they collect alone.
LEMMA OthersKept ==
  ASSUME CleanupInv, task' \in TaskType, UNCHANGED <<worker, vec, raced>>,
         bound' \in SUBSET Sids, contents' \in SUBSET Hashes, Collecting', Confirming'
  PROVE  CleanupInv'
<1>1. CleanupTypes'
  BY DEF CleanupInv, CleanupTypes
<1>2. (\A w \in Workers : Pushes(worker[w]))' /\ Alone'
  BY DEF CleanupInv, Alone, InPush, Item
<1> QED
  BY <1>1, <1>2 DEF CleanupInv

\* _execute comes to a new state of the task.
LEMMA TaskAt ==
  ASSUME CleanupInv,
         NEW pc \in {"idle", "execute", "wait", "done", "cleaned", "failed"}, NEW threw \in BOOLEAN,
         task' = [task EXCEPT !.pc = pc, !.threw = threw]
  PROVE  /\ task' \in TaskType /\ task'.pc = pc /\ task'.block = task.block /\ task'.count = task.count
         /\ task'.idx = task.idx /\ task'.proto = task.proto /\ task'.msg = task.msg
         /\ task'.total = task.total
BY DEF CleanupInv, CleanupTypes, TaskType

LEMMA DispatchLastOK ==
  ASSUME CleanupInv, task.proto # "confirmation", DispatchLast
  PROVE  CleanupInv'
<1>1. Stage /\ task.pc = "execute" /\ (~raced => Collected) /\ task.count = Len(task.block)
  BY DEF CleanupInv, Collecting, DispatchLast
<1>2. PICK i \in Workers, o \in WorkerType : i = task.idx /\ o = worker[i] /\ o.pc = "idle"
  BY <1>1 DEF CleanupInv, CleanupTypes, TaskType, Stage
<1>3. /\ task' \in TaskType /\ task'.pc = "wait" /\ task'.block = task.block
      /\ task'.count = task.count /\ task'.idx = task.idx /\ task'.proto = task.proto
  <2>1. task' = [task EXCEPT !.pc = "wait"] /\ task \in TaskType
    BY DEF DispatchLast, CleanupInv, CleanupTypes
  <2> QED
    BY <2>1 DEF TaskType
<1>4. UNCHANGED <<vec, bound, contents, raced>>
  BY DEF DispatchLast, service
<1>5. PICK r \in WorkerType : r.pc = "look" /\ r.todo = o.todo /\ worker' = [worker EXCEPT ![i] = r]
  <2>1. PICK r : r = [o EXCEPT !.pc = "look"]
    OBVIOUS
  <2>2. r \in WorkerType /\ r.pc = "look" /\ r.todo = o.todo
    BY <2>1 DEF WorkerType
  <2>3. worker' = [worker EXCEPT ![i] = r]
    BY <1>2, <2>1 DEF DispatchLast
  <2> QED
    BY <2>2, <2>3
<1>6. /\ worker' \in [Workers -> WorkerType] /\ worker'[i] = r
      /\ \A w \in Workers \ {i} : worker'[w] = worker[w]
  BY <1>5 DEF CleanupInv, CleanupTypes
<1>7. CleanupTypes'
  BY <1>3, <1>4, <1>6 DEF CleanupInv, CleanupTypes
<1>8. \A w \in Workers : Pushes(worker'[w])
  <2>1. Pushes(r)
    BY <1>5 DEF Pushes
  <2> QED
    BY <1>6, <2>1 DEF CleanupInv
<1>9. Alone'
  <2>1. worker'[i].pc # "store"
    BY <1>5, <1>6
  <2> QED
    BY <1>4, <1>6, <2>1 DEF CleanupInv, Alone, InPush, Item
<1>10. Stage'
  <2>1. \A w \in Workers : w > i => w # i
    BY Constants
  <2> QED
    BY <1>1, <1>2, <1>3, <1>6, <2>1 DEF Stage
<1>11. \A w \in Workers : worker'[w].todo = worker[w].todo
  BY <1>2, <1>5, <1>6
<1>12. ~raced => Collected'
  BY <1>1, <1>3, <1>4, <1>11 DEF Collected
<1> QED
  BY <1>3, <1>4, <1>7, <1>8, <1>9, <1>10, <1>12 DEF CleanupInv, Collecting, Confirming

LEMMA DispatchThrowsOK ==
  ASSUME CleanupInv, DispatchThrows
  PROVE  CleanupInv'
<1>1. task' \in TaskType /\ task'.pc = "failed" /\ task'.proto = task.proto
  BY TaskAt DEF DispatchThrows
<1>2. Collecting' /\ Confirming'
  BY <1>1 DEF Collecting, Confirming, DispatchThrows, CleanupInv, Running
<1> QED
  BY <1>1, <1>2, OthersKept DEF DispatchThrows, CleanupInv, CleanupTypes, service

LEMMA WaitThrowsOK ==
  ASSUME CleanupInv, WaitThrows
  PROVE  CleanupInv'
<1>1. task' \in TaskType /\ task'.pc = "failed" /\ task'.proto = task.proto
  BY TaskAt DEF WaitThrows
<1>2. Collecting' /\ Confirming'
  BY <1>1 DEF Collecting, Confirming, WaitThrows, CleanupInv, Running
<1> QED
  BY <1>1, <1>2, OthersKept DEF WaitThrows, CleanupInv, CleanupTypes, service

LEMMA WaitForAllOK ==
  ASSUME CleanupInv, task.proto # "confirmation", WaitForAll
  PROVE  CleanupInv'
<1>1. /\ task' \in TaskType /\ task'.pc = "done" /\ task'.block = task.block
      /\ task'.count = task.count /\ task'.idx = task.idx /\ task'.proto = task.proto
  <2>1. task' = [task EXCEPT !.pc = "done"] /\ task \in TaskType
    BY DEF WaitForAll, CleanupInv, CleanupTypes
  <2> QED
    BY <2>1 DEF TaskType
<1>2. Stage /\ task.pc = "wait" /\ (~raced => Collected)
  BY DEF CleanupInv, Collecting, WaitForAll
<1>3. UNCHANGED <<worker, vec, bound, contents, raced>>
  BY DEF WaitForAll, service
<1>4. \A w \in Workers : worker[w].todo = <<>> /\ ~Running(w)
  <2> TAKE w \in Workers
  <2>1. CASE w <= task.idx
    <3>1. worker[w].pc = "completed"
      BY <2>1 DEF WaitForAll, Awaited
    <3> QED
      BY <3>1 DEF CleanupInv, Pushes, Running
  <2>2. CASE w > task.idx
    BY <1>2, <2>2 DEF Stage, Running
  <2>3. w \in Nat /\ task.idx \in Nat
    BY Constants DEF CleanupInv, CleanupTypes, TaskType
  <2>4. w <= task.idx \/ w > task.idx
    BY <2>3
  <2> QED
    BY <2>1, <2>2, <2>4
<1>5. Stage'
  BY <1>1, <1>2, <1>3, <1>4 DEF Stage, Running
<1>6. ~raced => Collected'
  BY <1>1, <1>2, <1>3 DEF Collected
<1>7. Collecting' /\ Confirming'
  BY <1>1, <1>3, <1>5, <1>6 DEF Collecting, Confirming
<1> QED
  BY <1>1, <1>3, <1>7, OthersKept DEF CleanupInv, CleanupTypes

LEMMA ConfirmationExecuteOK ==
  ASSUME CleanupInv, ConfirmationExecute
  PROVE  CleanupInv'
<1>1. /\ task' \in TaskType /\ task'.pc = "done" /\ task'.msg = task.msg
      /\ task'.total = task.total /\ task'.proto = task.proto
  <2>1. task' = [task EXCEPT !.pc = "done"] /\ task \in TaskType
    BY DEF ConfirmationExecute, CleanupInv, CleanupTypes
  <2> QED
    BY <2>1 DEF TaskType
<1>2. Collecting' /\ Confirming'
  BY <1>1 DEF Collecting, Confirming, ConfirmationExecute, CleanupInv, Running
<1> QED
  BY <1>1, <1>2, OthersKept DEF ConfirmationExecute, CleanupInv, CleanupTypes, service

-----------------------------------------------------------------------------
(* The sub tasks.                                                          *)

\* A step of a running sub task that leaves the vector of all hashes as it is.
LEMMA SubKeeps ==
  ASSUME CleanupInv, NEW w \in Workers, Running(w), NEW r \in WorkerType,
         worker' = [worker EXCEPT ![w] = r], r.todo = worker[w].todo, r.pc # "idle", Pushes(r),
         task' = task, vec' \in [Vectors -> Seq(Items)], vec'["all"] = vec["all"],
         UNCHANGED <<bound, contents>>, raced' \in BOOLEAN, raced => raced', Alone'
  PROVE  CleanupInv'
<1>1. /\ worker' \in [Workers -> WorkerType] /\ worker'[w] = r
      /\ \A u \in Workers \ {w} : worker'[u] = worker[u]
  BY DEF CleanupInv, CleanupTypes
<1>2. CleanupTypes'
  BY <1>1 DEF CleanupInv, CleanupTypes
<1>3. \A u \in Workers : Pushes(worker'[u]) /\ worker'[u].todo = worker[u].todo
  BY <1>1 DEF CleanupInv
<1>4. worker[w].pc # "idle"
  BY DEF Running
<1>5. Stage => Stage'
  <2> HAVE Stage
  <2>1. task.pc # "done"
    BY DEF Stage
  <2>2. ASSUME NEW u \in Workers, u > task.idx PROVE worker'[u].todo = <<>> /\ worker'[u].pc = "idle"
    <3>1. worker[u].todo = <<>> /\ worker[u].pc = "idle"
      BY <2>2 DEF Stage
    <3>2. u # w
      BY <1>4, <3>1
    <3> QED
      BY <1>1, <3>1, <3>2
  <2>3. task.pc = "execute" => worker'[task.idx].pc = "idle" /\ task.idx <= NextIdx
    <3> HAVE task.pc = "execute"
    <3>1. worker[task.idx].pc = "idle" /\ task.idx <= NextIdx /\ task.idx \in Workers
      BY DEF Stage, CleanupInv, CleanupTypes, TaskType
    <3> QED
      BY <1>1, <1>4, <3>1
  <2>4. NextIdx' = NextIdx
    BY DEF NextIdx, BulkSize
  <2> QED
    BY <2>1, <2>2, <2>3, <2>4 DEF Stage
<1>6. Collected => Collected'
  BY <1>3 DEF Collected
<1>7. Collecting'
  BY <1>5, <1>6 DEF CleanupInv, Collecting
<1> QED
  BY <1>2, <1>3, <1>7 DEF CleanupInv, Confirming

\* A step that ends in no push_back.
LEMMA StaysAlone ==
  ASSUME Alone, NEW w \in Workers, NEW r, worker' = [worker EXCEPT ![w] = r], r.pc # "store",
         worker \in [Workers -> WorkerType], UNCHANGED <<vec, raced>>
  PROVE  Alone'
<1>1. worker'[w] = r /\ \A u \in Workers \ {w} : worker'[u] = worker[u]
  OBVIOUS
<1>2. \A u \in Workers : worker'[u].pc = "store" => u # w /\ worker[u].pc = "store" /\ Item(u)' = Item(u)
  BY <1>1 DEF Item
<1>3. \A u \in Workers : \A v : InPush(u, v)' => InPush(u, v)
  BY <1>1, <1>2 DEF InPush, Item
<1> SUFFICES ASSUME ~raced, NEW u \in Workers, worker'[u].pc = "store"
             PROVE  /\ worker'[u].pos = Len(vec[Item(u)[1]])
                    /\ \A x \in Workers \ {u} : ~InPush(x, Item(u)[1])'
  BY <1>2 DEF Alone
<1>4. /\ worker[u].pos = Len(vec[Item(u)[1]])
      /\ \A x \in Workers \ {u} : ~InPush(x, Item(u)[1])
  BY <1>2 DEF Alone
<1> QED
  BY <1>1, <1>2, <1>3, <1>4 DEF InPush

LEMMA OneAndTwo ==
  ASSUME NEW S, NEW d \in S, NEW e \in S
  PROVE  /\ <<d, e>> \in Seq(S) /\ <<d>> \o <<e>> = <<d, e>>
         /\ Len(<<d, e>>) = 2 /\ <<d, e>>[1] = d /\ <<d, e>>[2] = e
         /\ <<e>> \in Seq(S) /\ Len(<<e>>) = 1 /\ <<e>>[1] = e
<1>1. <<d, e>> \in Seq(S) /\ Len(<<d, e>>) = 2 /\ <<d, e>>[1] = d /\ <<d, e>>[2] = e
  OBVIOUS
<1>2. /\ <<e>> \in Seq(S) /\ Len(<<e>>) = 1 /\ <<e>>[1] = e
      /\ <<d>> \in Seq(S) /\ Len(<<d>>) = 1 /\ <<d>>[1] = d
  OBVIOUS
<1>3. PICK f \in Seq(S), g \in Seq(S), t \in Seq(S) :
         /\ f = <<d>> /\ Len(f) = 1 /\ f[1] = d /\ g = <<e>> /\ Len(g) = 1 /\ g[1] = e
         /\ t = <<d, e>> /\ Len(t) = 2 /\ t[1] = d /\ t[2] = e
  BY <1>1, <1>2
<1>4. f \o g \in Seq(S) /\ Len(f \o g) = 2 /\ (f \o g)[1] = d /\ (f \o g)[2] = e
  BY <1>3
<1>5. f \o g = t
  <2>1. \A k \in 1 .. 2 : (f \o g)[k] = t[k]
    BY <1>3, <1>4
  <2> QED
    BY <1>3, <1>4, <2>1, SeqEqual
<1> QED
  BY <1>1, <1>2, <1>3, <1>5

\* The sub task w as a record.
LEMMA WorkerIs ==
  ASSUME CleanupInv, NEW w \in Workers
  PROVE  /\ worker \in [Workers -> WorkerType] /\ worker[w] \in WorkerType /\ Pushes(worker[w]) /\ Alone
         /\ vec \in [Vectors -> Seq(Items)] /\ raced \in BOOLEAN
BY DEF CleanupInv, CleanupTypes

LEMMA LookOK ==
  ASSUME CleanupInv, NEW w \in Workers, Look(w)
  PROVE  CleanupInv'
<1>1. PICK o \in WorkerType : o = worker[w] /\ o.pc = "look" /\ o.todo # <<>>
  BY WorkerIs DEF Look
<1>2. PICK h \in Hashes : h = Head(o.todo)
  <2>1. o.todo \in Seq(Hashes)
    BY DEF WorkerType
  <2>2. Head(o.todo) \in Hashes
    BY <1>1, <2>1
  <2> QED
    BY <2>2
<1>3. PICK d \in Vectors \X Items, e \in Vectors \X Items :
         d = <<"unknown", h>> /\ e = <<"all", h>> /\ d[1] = "unknown"
  <2>1. "unknown" \in Vectors /\ "all" \in Vectors /\ h \in Items
    BY DEF Vectors, Items
  <2>2. <<"unknown", h>> \in Vectors \X Items /\ <<"all", h>> \in Vectors \X Items
    BY <2>1
  <2>3. <<"unknown", h>>[1] = "unknown"
    OBVIOUS
  <2> QED
    BY <2>2, <2>3, Zenon
<1>4. ASSUME NEW pushes \in Seq(Vectors \X Items), NEW pc \in {"find", "read"},
             worker' = [worker EXCEPT ![w] = [o EXCEPT !.pc = pc, !.pushes = pushes]],
             Len(pushes) \in 1 .. 2, pushes[Len(pushes)] = e,
             Len(pushes) = 2 => pushes[1] = d, pc = "find" => Len(pushes) = 1
      PROVE  CleanupInv'
  <2>1. PICK r : r = [o EXCEPT !.pc = pc, !.pushes = pushes]
    OBVIOUS
  <2>2. r \in WorkerType /\ r.pc = pc /\ r.pushes = pushes /\ r.todo = o.todo
    BY <2>1 DEF WorkerType
  <2>3. Pushes(r)
    BY <1>1, <1>2, <1>3, <1>4, <2>2 DEF Pushes
  <2>4. UNCHANGED <<task, vec, bound, contents, raced>>
    BY DEF Look, service
  <2>5. worker' = [worker EXCEPT ![w] = r]
    BY <1>4, <2>1
  <2>6. Alone'
    BY <2>2, <2>4, <2>5, StaysAlone, WorkerIs
  <2>7. Running(w)
    BY <1>1 DEF Running
  <2> QED
    BY <1>1, <2>2, <2>3, <2>4, <2>5, <2>6, <2>7, SubKeeps, WorkerIs
<1>5. CASE h \in entries
  <2>1. PICK p \in Seq(Vectors \X Items) : p = <<e>> /\ Len(p) = 1 /\ p[1] = e
    BY OneAndTwo, Zenon
  <2>2. worker' = [worker EXCEPT ![w] = [o EXCEPT !.pc = "find", !.pushes = p]]
    BY <1>1, <1>2, <1>3, <1>5, <2>1 DEF Look, Current
  <2>3. Len(p) \in 1 .. 2 /\ p[Len(p)] = e /\ (Len(p) = 2 => p[1] = d) /\ ("find" = "find" => Len(p) = 1)
    BY <2>1
  <2>4. "find" \in {"find", "read"}
    OBVIOUS
  <2> QED
    BY <1>4, <2>2, <2>3, <2>4, Zenon
<1>6. CASE h \notin entries
  <2>1. PICK p \in Seq(Vectors \X Items) : p = <<d, e>> /\ Len(p) = 2 /\ p[1] = d /\ p[2] = e
    <3>1. PICK S : S = Vectors \X Items /\ d \in S /\ e \in S
      OBVIOUS
    <3>2. <<d, e>> \in Seq(S) /\ Len(<<d, e>>) = 2 /\ <<d, e>>[1] = d /\ <<d, e>>[2] = e
      BY <3>1, OneAndTwo
    <3> QED
      BY <3>1, <3>2
  <2>2. worker' = [worker EXCEPT ![w] = [o EXCEPT !.pc = "read", !.pushes = p]]
    BY <1>1, <1>2, <1>3, <1>6, <2>1 DEF Look, Current
  <2>3. Len(p) \in 1 .. 2 /\ p[Len(p)] = e /\ (Len(p) = 2 => p[1] = d) /\ ("read" = "find" => Len(p) = 1)
    BY <2>1
  <2>4. "read" \in {"find", "read"}
    OBVIOUS
  <2> QED
    BY <1>4, <2>2, <2>3, <2>4, Zenon
<1> QED
  BY <1>5, <1>6

LEMMA FindOK ==
  ASSUME CleanupInv, NEW w \in Workers, Find(w)
  PROVE  CleanupInv'
<1>1. PICK o \in WorkerType : o = worker[w] /\ o.pc = "find" /\ Pushes(o)
  BY WorkerIs DEF Find
<1>2. PICK left \in SUBSET Sids : left = SidsOf(Current(w))
  BY DEF SidsOf, CleanupInv, CleanupTypes
<1>3. PICK r : /\ r \in WorkerType /\ r.pc \in {"next", "failed"}
               /\ r.pushes = o.pushes /\ r.todo = o.todo
               /\ worker' = [worker EXCEPT ![w] = r]
  <2>1. PICK f, g : f = [o EXCEPT !.pc = "next", !.left = left] /\ g = [o EXCEPT !.pc = "failed"]
    OBVIOUS
  <2>2. /\ f \in WorkerType /\ f.pc = "next" /\ f.pushes = o.pushes /\ f.todo = o.todo
        /\ g \in WorkerType /\ g.pc = "failed" /\ g.pushes = o.pushes /\ g.todo = o.todo
    BY <2>1 DEF WorkerType
  <2>3. worker' = [worker EXCEPT ![w] = f] \/ worker' = [worker EXCEPT ![w] = g]
    BY <1>1, <1>2, <2>1 DEF Find
  <2> QED
    BY <2>2, <2>3
<1>5. Pushes(r)
  BY <1>1, <1>3 DEF Pushes
<1>6. UNCHANGED <<task, vec, bound, contents, raced>>
  BY DEF Find, service
<1>7. Alone'
  BY <1>3, <1>6, StaysAlone, WorkerIs
<1>8. Running(w)
  BY <1>1 DEF Running
<1> QED
  BY <1>1, <1>3, <1>5, <1>6, <1>7, <1>8, SubKeeps, WorkerIs

LEMMA NextSidOK ==
  ASSUME CleanupInv, NEW w \in Workers, NextSid(w)
  PROVE  CleanupInv'
<1>1. PICK o \in WorkerType : o = worker[w] /\ o.pc = "next" /\ Pushes(o)
  BY WorkerIs DEF NextSid
<1>2. UNCHANGED <<task, vec, bound, contents, raced>>
  BY DEF NextSid, service
<1>3. CASE UNCHANGED worker
  BY <1>2, <1>3 DEF CleanupInv, CleanupTypes, Alone, InPush, Item, Collecting, Collected, Stage,
       Running, NextIdx, BulkSize, Confirming
<1>4. ASSUME NEW r \in WorkerType, r.pc = "read", r.todo = o.todo, Pushes(r),
             worker' = [worker EXCEPT ![w] = r]
      PROVE  CleanupInv'
  <2>1. Alone'
    BY <1>2, <1>4, StaysAlone, WorkerIs
  <2>2. Running(w)
    BY <1>1 DEF Running
  <2> QED
    BY <1>1, <1>2, <1>4, <2>1, <2>2, SubKeeps, WorkerIs
<1>5. CASE worker' = [worker EXCEPT ![w].pc = "read"]
  <2>1. PICK r : r = [o EXCEPT !.pc = "read"]
    OBVIOUS
  <2>2. r \in WorkerType /\ r.pc = "read" /\ r.todo = o.todo /\ r.pushes = o.pushes
    BY <2>1 DEF WorkerType
  <2>3. Pushes(r)
    BY <1>1, <2>2 DEF Pushes
  <2>4. worker' = [worker EXCEPT ![w] = r]
    BY <1>1, <1>5, <2>1
  <2> QED
    BY <1>4, <2>2, <2>3, <2>4
<1>6. ASSUME NEW s \in worker[w].left,
             worker' = [worker EXCEPT ![w].pc = "read", ![w].left = @ \ {s},
                                      ![w].pushes = <<<<"sids", s>>>> \o @]
      PROVE  CleanupInv'
  <2>1. PICK e \in Vectors \X Items : o.pushes = <<e>> /\ e = <<"all", Head(o.todo)>>
    <3>1. o.pushes \in Seq(Vectors \X Items) /\ Len(o.pushes) = 1 /\ o.pushes[1] = <<"all", Head(o.todo)>>
      BY <1>1 DEF Pushes, WorkerType
    <3>2. o.pushes[1] \in Vectors \X Items /\ o.pushes = <<o.pushes[1]>>
      BY <3>1
    <3> QED
      BY <3>1, <3>2
  <2>2. PICK left \in SUBSET Sids : left = o.left \ {s} /\ s \in Sids
    BY <1>1, <1>6 DEF WorkerType
  <2>3. PICK d \in Vectors \X Items : d = <<"sids", s>> /\ d[1] = "sids"
    <3>1. "sids" \in Vectors /\ s \in Items
      BY <2>2 DEF Vectors, Items
    <3>2. <<"sids", s>> \in Vectors \X Items
      BY <3>1
    <3>3. <<"sids", s>>[1] = "sids"
      OBVIOUS
    <3> QED
      BY <3>2, <3>3, Zenon
  <2>4. <<d, e>> \in Seq(Vectors \X Items) /\ Len(<<d, e>>) = 2 /\ <<d, e>>[1] = d /\ <<d, e>>[2] = e
        /\ <<d>> \o <<e>> = <<d, e>>
    <3>1. PICK S : S = Vectors \X Items /\ d \in S /\ e \in S
      OBVIOUS
    <3>2. /\ <<d, e>> \in Seq(S) /\ Len(<<d, e>>) = 2 /\ <<d, e>>[1] = d /\ <<d, e>>[2] = e
          /\ <<d>> \o <<e>> = <<d, e>>
      BY <3>1, OneAndTwo
    <3> QED
      BY <3>1, <3>2
  <2>5. PICK p \in Seq(Vectors \X Items) : p = <<<<"sids", s>>>> \o o.pushes /\ Len(p) = 2 /\ p[1] = d /\ p[2] = e
    BY <2>1, <2>3, <2>4
  <2>6. PICK r : r = [o EXCEPT !.pc = "read", !.left = left, !.pushes = p]
    OBVIOUS
  <2>7. r \in WorkerType /\ r.pc = "read" /\ r.todo = o.todo /\ r.pushes = p
    BY <2>6 DEF WorkerType
  <2>8. Pushes(r)
    BY <1>1, <2>1, <2>3, <2>5, <2>7 DEF Pushes
  <2>9. worker' = [worker EXCEPT ![w] = r]
    BY <1>1, <1>6, <2>2, <2>5, <2>6
  <2> QED
    BY <1>4, <2>7, <2>8, <2>9
<1> QED
  BY <1>3, <1>5, <1>6 DEF NextSid

LEMMA CompletesOK ==
  ASSUME CleanupInv, NEW w \in Workers, Completes(w)
  PROVE  CleanupInv'
<1>1. PICK o \in WorkerType : o = worker[w] /\ o.pc = "look" /\ o.todo = <<>>
  BY WorkerIs DEF Completes
<1>2. PICK r : r = [o EXCEPT !.pc = "completed"]
  OBVIOUS
<1>3. r \in WorkerType /\ r.pc = "completed" /\ r.todo = o.todo
  BY <1>2 DEF WorkerType
<1>4. Pushes(r)
  BY <1>1, <1>3 DEF Pushes
<1>5. worker' = [worker EXCEPT ![w] = r] /\ UNCHANGED <<task, vec, bound, contents, raced>>
  BY <1>1, <1>2 DEF Completes, service
<1>6. Alone'
  BY <1>3, <1>5, StaysAlone, WorkerIs
<1>7. Running(w)
  BY <1>1 DEF Running
<1> QED
  BY <1>1, <1>3, <1>4, <1>5, <1>6, <1>7, SubKeeps, WorkerIs

\* What a sub task at a push_back is about to push.
LEMMA ItemIs ==
  ASSUME CleanupInv, NEW w \in Workers, worker[w].pc \in {"read", "store"}
  PROVE  /\ Item(w) \in Vectors \X Items /\ Item(w)[1] \in Vectors /\ Item(w)[2] \in Items
         /\ worker[w].todo \in Seq(Hashes) /\ worker[w].todo # <<>>
         /\ \/ Len(worker[w].pushes) = 2 /\ Item(w)[1] # "all"
            \/ Len(worker[w].pushes) = 1 /\ Item(w) = <<"all", Head(worker[w].todo)>>
<1>1. PICK o \in WorkerType : o = worker[w] /\ o.pc \in {"read", "store"} /\ Pushes(o)
  BY WorkerIs
<1>2. /\ o.todo # <<>> /\ Len(o.pushes) \in 1 .. 2 /\ o.pushes[Len(o.pushes)] = <<"all", Head(o.todo)>>
      /\ Len(o.pushes) = 2 => o.pushes[1][1] # "all"
  BY <1>1 DEF Pushes
<1>3. PICK S, p : S = Vectors \X Items /\ p = o.pushes /\ p \in Seq(S)
  BY DEF WorkerType
<1>4. Len(p) = 1 \/ Len(p) = 2
  BY <1>2, <1>3
<1>5. Head(p) = p[1] /\ p[1] \in S
  BY <1>3, <1>4
<1>6. Item(w) = p[1]
  BY <1>1, <1>3, <1>5 DEF Item
<1>7. Item(w) \in Vectors \X Items /\ Item(w)[1] \in Vectors /\ Item(w)[2] \in Items
  BY <1>3, <1>5, <1>6
<1>8. o.todo \in Seq(Hashes)
  BY DEF WorkerType
<1>9. \/ Len(worker[w].pushes) = 2 /\ Item(w)[1] # "all"
      \/ Len(worker[w].pushes) = 1 /\ Item(w) = <<"all", Head(worker[w].todo)>>
  BY <1>1, <1>2, <1>3, <1>4, <1>6
<1> QED
  BY <1>1, <1>2, <1>7, <1>8, <1>9

LEMMA ReadEndOK ==
  ASSUME CleanupInv, NEW w \in Workers, ReadEnd(w)
  PROVE  CleanupInv'
<1>1. PICK o \in WorkerType : o = worker[w] /\ o.pc = "read" /\ Pushes(o)
  BY WorkerIs DEF ReadEnd
<1>2. PICK v \in Vectors, pos \in Nat : v = Item(w)[1] /\ pos = Len(vec[v])
  <2>1. Item(w)[1] \in Vectors
    BY <1>1, ItemIs
  <2>2. vec[Item(w)[1]] \in Seq(Items)
    BY <2>1, WorkerIs
  <2> QED
    BY <2>1, <2>2
<1>3. PICK r : r = [o EXCEPT !.pc = "store", !.pos = pos]
  OBVIOUS
<1>4. /\ r \in WorkerType /\ r.pc = "store" /\ r.todo = o.todo /\ r.pushes = o.pushes /\ r.pos = pos
  BY <1>3 DEF WorkerType
<1>5. Pushes(r)
  BY <1>1, <1>4 DEF Pushes
<1>6. worker' = [worker EXCEPT ![w] = r]
  BY <1>1, <1>2, <1>3 DEF ReadEnd
<1>7. /\ UNCHANGED <<task, vec, bound, contents>> /\ raced' \in BOOLEAN /\ (raced => raced')
      /\ ~raced' => ~raced /\ \A u \in Workers \ {w} : ~InPush(u, v)
  BY <1>2, WorkerIs DEF ReadEnd, service
<1>8. worker'[w] = r /\ \A u \in Workers \ {w} : worker'[u] = worker[u]
  BY <1>6, WorkerIs
<1>9. Item(w)'[1] = v /\ \A u \in Workers \ {w} : Item(u)' = Item(u)
  BY <1>1, <1>2, <1>4, <1>8 DEF Item
<1>10. Alone'
  <2> SUFFICES ASSUME ~raced', NEW u \in Workers, worker'[u].pc = "store"
               PROVE  /\ worker'[u].pos = Len(vec'[Item(u)'[1]])
                      /\ \A x \in Workers \ {u} : ~InPush(x, Item(u)[1])'
    BY DEF Alone
  <2>1. \A x \in Workers \ {w} : \A y : InPush(x, y)' <=> InPush(x, y)
    BY <1>8, <1>9 DEF InPush
  <2>2. CASE u = w
    BY <1>2, <1>4, <1>7, <1>8, <1>9, <2>1, <2>2 DEF InPush
  <2>3. CASE u # w
    <3>1. worker[u].pc = "store" /\ worker'[u] = worker[u] /\ Item(u)' = Item(u)
      BY <1>8, <1>9, <2>3
    <3>2. worker[u].pos = Len(vec[Item(u)[1]]) /\ \A x \in Workers \ {u} : ~InPush(x, Item(u)[1])
      BY <1>7, <3>1, WorkerIs DEF Alone
    <3>3. Item(u)[1] # v
      BY <1>7, <2>3, <3>1 DEF InPush
    <3>4. ASSUME NEW x \in Workers \ {u} PROVE ~InPush(x, Item(u)[1])'
      <4>1. CASE x = w
        BY <1>9, <3>1, <3>3, <4>1 DEF InPush
      <4>2. CASE x # w
        <5>1. worker'[x] = worker[x] /\ Item(x)' = Item(x)
          BY <1>8, <1>9, <4>2
        <5> QED
          BY <3>1, <3>2, <5>1 DEF InPush
      <4> QED
        BY <4>1, <4>2
    <3> QED
      BY <1>7, <3>1, <3>2, <3>4
  <2> QED
    BY <2>2, <2>3
<1>11. Running(w)
  BY <1>1 DEF Running
<1> QED
  BY <1>1, <1>4, <1>5, <1>6, <1>7, <1>10, <1>11, SubKeeps, WorkerIs

LEMMA PushTypes ==
  ASSUME NEW s \in Seq(Items), NEW p \in Nat, NEW x \in Items, NEW t \in PushOutcomes(s, p, x)
  PROVE  t \in Seq(Items) /\ (p = Len(s) => t = Append(s, x))
<1>1. CASE Len(s) = p
  BY <1>1, Appended DEF PushOutcomes
<1>2. CASE Len(s) # p
  <2>1. PICK a : a = StoreAt(s, p, x)
    OBVIOUS
  <2>2. a \in Seq(Items)
    <3>1. a \in [1 .. Len(s) -> Items] /\ Len(s) \in Nat
      BY <2>1 DEF StoreAt
    <3> QED
      BY <3>1
  <2>3. Append(a, Garbage) \in Seq(Items)
    <3>1. Garbage \in Items
      BY DEF Items
    <3> QED
      BY <2>2, <3>1, Appended
  <2> QED
    BY <1>2, <2>1, <2>2, <2>3 DEF PushOutcomes
<1> QED
  BY <1>1, <1>2

\* A store into a vector that no other sub task is in.
LEMMA StoreAlone ==
  ASSUME Alone, NEW w \in Workers, worker[w].pc = "store", NEW r, r.pc # "store",
         worker' = [worker EXCEPT ![w] = r], worker \in [Workers -> WorkerType], UNCHANGED raced,
         NEW v, v = Item(w)[1], \A y \in Vectors \ {v} : vec'[y] = vec[y],
         \A u \in Workers : worker[u].pc = "store" => Item(u)[1] \in Vectors
  PROVE  Alone'
<1>1. worker'[w] = r /\ \A u \in Workers \ {w} : worker'[u] = worker[u]
  OBVIOUS
<1>2. \A u \in Workers : worker'[u].pc = "store" => u # w /\ worker[u].pc = "store" /\ Item(u)' = Item(u)
  BY <1>1 DEF Item
<1>3. \A u \in Workers : \A y : InPush(u, y)' => InPush(u, y)
  BY <1>1, <1>2 DEF InPush, Item
<1> SUFFICES ASSUME ~raced, NEW u \in Workers, worker'[u].pc = "store"
             PROVE  /\ worker'[u].pos = Len(vec'[Item(u)[1]])
                    /\ \A x \in Workers \ {u} : ~InPush(x, Item(u)[1])'
  BY <1>2 DEF Alone
<1>4. /\ worker[u].pos = Len(vec[Item(u)[1]])
      /\ \A x \in Workers \ {u} : ~InPush(x, Item(u)[1])
  BY <1>2 DEF Alone
<1>5. Item(u)[1] # v
  BY <1>2, <1>4 DEF InPush
<1>6. vec'[Item(u)[1]] = vec[Item(u)[1]]
  BY <1>2, <1>5
<1> QED
  BY <1>1, <1>2, <1>3, <1>4, <1>6 DEF InPush

\* What a store does to the vectors.
LEMMA StoreIs ==
  ASSUME CleanupInv, NEW w \in Workers, Store(w)
  PROVE  /\ vec' \in [Vectors -> Seq(Items)] /\ \A y \in Vectors \ {Item(w)[1]} : vec'[y] = vec[y]
         /\ ~raced => vec'[Item(w)[1]] = Append(vec[Item(w)[1]], Item(w)[2])
         /\ UNCHANGED <<task, bound, contents, raced>> /\ worker[w].pc = "store"
<1>1. worker[w].pc = "store" /\ UNCHANGED <<task, bound, contents, raced>>
  BY DEF Store, service
<1>2. PICK v \in Vectors, x \in Items : v = Item(w)[1] /\ x = Item(w)[2]
  BY <1>1, ItemIs
<1>3. PICK s \in Seq(Items), pos \in Nat : s = vec[v] /\ pos = worker[w].pos
  BY WorkerIs DEF WorkerType
<1>4. PICK t \in PushOutcomes(s, pos, x) : vec' = [vec EXCEPT ![v] = t]
  BY <1>2, <1>3 DEF Store
<1>5. t \in Seq(Items) /\ (pos = Len(s) => t = Append(s, x))
  BY PushTypes
<1>6. ~raced => pos = Len(s)
  BY <1>1, <1>2, <1>3, WorkerIs DEF Alone
<1>7. vec \in [Vectors -> Seq(Items)]
  BY WorkerIs
<1> QED
  BY <1>1, <1>2, <1>3, <1>4, <1>5, <1>6, <1>7

LEMMA Tailed ==
  ASSUME NEW S, NEW s \in Seq(S), s # <<>>
  PROVE  /\ Tail(s) \in Seq(S) /\ Len(Tail(s)) = Len(s) - 1 /\ Len(s) \in Nat \ {0}
         /\ \A k \in 1 .. Len(s) - 1 : Tail(s)[k] = s[k + 1]
         /\ Head(s) = s[1] /\ Head(s) \in S
OBVIOUS

\* A push that is not the last one for its transaction.
LEMMA StoreFirstOK ==
  ASSUME CleanupInv, NEW w \in Workers, Store(w), Len(worker[w].pushes) = 2, Item(w)[1] # "all"
  PROVE  CleanupInv'
<1>1. PICK o \in WorkerType : o = worker[w] /\ o.pc = "store" /\ Pushes(o)
  BY WorkerIs DEF Store
<1>2. PICK S, p : S = Vectors \X Items /\ p = o.pushes /\ p \in Seq(S) /\ Len(p) = 2
  BY <1>1 DEF WorkerType
<1>3. o.todo # <<>> /\ p[2] = <<"all", Head(o.todo)>>
  BY <1>1, <1>2 DEF Pushes
<1>4. PICK t : t = Tail(p) /\ t \in Seq(S) /\ Len(t) = 1 /\ t[1] = p[2]
  <2>1. p # <<>> /\ Len(p) - 1 = 1 /\ 1 \in 1 .. Len(p) - 1 /\ 1 + 1 = 2
    BY <1>2
  <2>2. Tail(p) \in Seq(S) /\ Len(Tail(p)) = 1 /\ Tail(p)[1] = p[2]
    BY <1>2, <2>1, Tailed
  <2> QED
    BY <2>2, Zenon
<1>5. PICK pc \in {"next", "read"} : pc = IF Item(w)[1] = "sids" THEN "next" ELSE "read"
  OBVIOUS
<1>6. PICK r : r = [o EXCEPT !.pushes = t, !.pc = pc]
  OBVIOUS
<1>7. r \in WorkerType /\ r.pc = pc /\ r.pushes = t /\ r.todo = o.todo
  BY <1>2, <1>4, <1>6 DEF WorkerType
<1>8. Pushes(r)
  <2>1. Len(r.pushes) = 1 /\ r.pushes[1] = <<"all", Head(r.todo)>> /\ r.todo # <<>>
    BY <1>3, <1>4, <1>7
  <2>2. Len(r.pushes) \in 1 .. 2 /\ Len(r.pushes) # 2 /\ r.pushes[Len(r.pushes)] = <<"all", Head(r.todo)>>
    BY <2>1
  <2> QED
    BY <1>7, <2>1, <2>2 DEF Pushes
<1>9. worker' = [worker EXCEPT ![w] = r]
  <2>1. AfterPush(w) = [o EXCEPT !.pushes = t, !.pc = pc, !.todo = o.todo]
    BY <1>1, <1>2, <1>4, <1>5 DEF AfterPush
  <2>2. AfterPush(w) = r
    BY <1>6, <2>1 DEF WorkerType
  <2> QED
    BY <2>2 DEF Store
<1>10. \A u \in Workers : worker[u].pc = "store" => Item(u)[1] \in Vectors
  BY ItemIs
<1>11. Alone'
  BY <1>1, <1>7, <1>9, <1>10, StoreAlone, StoreIs, WorkerIs
<1>12. vec'["all"] = vec["all"]
  BY StoreIs DEF Vectors
<1>13. Running(w)
  BY <1>1 DEF Running
<1> QED
  BY <1>1, <1>7, <1>8, <1>9, <1>11, <1>12, <1>13, StoreIs, SubKeeps, WorkerIs

LEMMA FollowTail ==
  ASSUME NEW b, NEW S, NEW s \in Seq(S), NEW a \in Seq(Nat), Follows(b, s, a), s # <<>>, a # <<>>
  PROVE  Follows(b, Tail(s), Tail(a))
<1>1. PICK n \in Nat : n = Len(s) /\ n = Len(a) /\ \A k \in 1 .. n : s[k] = b[a[k]]
  BY DEF Follows
<1>2. Len(Tail(s)) = n - 1 /\ \A k \in 1 .. n - 1 : Tail(s)[k] = s[k + 1]
  BY <1>1, Tailed
<1>3. Len(Tail(a)) = n - 1 /\ \A k \in 1 .. n - 1 : Tail(a)[k] = a[k + 1]
  BY <1>1, Tailed
<1>4. \A k \in 1 .. n - 1 : k + 1 \in 1 .. n
  BY <1>1
<1> QED
  BY <1>1, <1>2, <1>3, <1>4 DEF Follows

LEMMA FollowMoved ==
  ASSUME NEW f, NEW S, NEW s \in Seq(S), NEW a \in Seq(Nat), Follows(f, s, a), s # <<>>, a # <<>>,
         NEW T, NEW t \in Seq(T), NEW b \in Seq(Nat), Follows(f, t, b), Head(s) \in T
  PROVE  Follows(f, Append(t, Head(s)), Append(b, Head(a)))
<1>1. PICK x, y : y \in Nat /\ x = Head(s) /\ y = Head(a) /\ x = f[y] /\ x \in T
  <2>1. Len(s) \in Nat \ {0} /\ Head(s) = s[1] /\ Head(a) = a[1] /\ Head(a) \in Nat
    BY Tailed
  <2>2. 1 \in 1 .. Len(s)
    BY <2>1
  <2>3. s[1] = f[a[1]]
    BY <2>2 DEF Follows
  <2> QED
    BY <2>1, <2>3
<1>2. PICK n \in Nat : n = Len(t) /\ n = Len(b) /\ \A k \in 1 .. n : t[k] = f[b[k]]
  BY DEF Follows
<1>3. /\ Len(Append(t, x)) = n + 1 /\ Append(t, x)[n + 1] = x
      /\ \A k \in 1 .. n : Append(t, x)[k] = t[k]
  <2>1. /\ Len(Append(t, x)) = Len(t) + 1 /\ Append(t, x)[Len(t) + 1] = x
        /\ \A k \in 1 .. Len(t) : Append(t, x)[k] = t[k]
    BY <1>1, Appended
  <2> QED
    BY <1>2, <2>1
<1>4. /\ Len(Append(b, y)) = n + 1 /\ Append(b, y)[n + 1] = y
      /\ \A k \in 1 .. n : Append(b, y)[k] = b[k]
  <2>1. /\ Len(Append(b, y)) = Len(b) + 1 /\ Append(b, y)[Len(b) + 1] = y
        /\ \A k \in 1 .. Len(b) : Append(b, y)[k] = b[k]
    BY <1>1, Appended
  <2> QED
    BY <1>2, <2>1
<1>5. \A k \in 1 .. n + 1 : k = n + 1 \/ k \in 1 .. n
  OBVIOUS
<1>6. Follows(f, Append(t, x), Append(b, y))
  BY <1>1, <1>2, <1>3, <1>4, <1>5 DEF Follows
<1> QED
  BY <1>1, <1>6

\* The transaction leaves the sub task for the vector of all hashes.
LEMMA StoreLastOK ==
  ASSUME CleanupInv, NEW w \in Workers, Store(w), Len(worker[w].pushes) = 1,
         Item(w) = <<"all", Head(worker[w].todo)>>
  PROVE  CleanupInv'
<1>1. PICK o \in WorkerType : o = worker[w] /\ o.pc = "store" /\ o.todo # <<>>
  BY ItemIs, WorkerIs DEF Store
<1>2. PICK S, p : S = Vectors \X Items /\ p = o.pushes /\ p \in Seq(S) /\ Len(p) = 1
  BY <1>1 DEF WorkerType
<1>3. PICK t : t = Tail(p) /\ t \in Seq(S)
  <2>1. Len(<<>>) # 1
    OBVIOUS
  <2>2. p # <<>>
    BY <1>2, <2>1
  <2> QED
    BY <1>2, <2>2, Tailed
<1>4. PICK todo \in Seq(Hashes), rest \in Seq(Hashes), h \in Hashes :
         todo = o.todo /\ rest = Tail(todo) /\ h = Head(todo) /\ todo # <<>>
  <2>1. o.todo \in Seq(Hashes)
    BY DEF WorkerType
  <2>2. Tail(o.todo) \in Seq(Hashes) /\ Head(o.todo) \in Hashes
    BY <1>1, <2>1, Tailed
  <2> QED
    BY <1>1, <2>1, <2>2
<1>5. PICK r : r = [o EXCEPT !.pushes = t, !.pc = "look", !.todo = rest]
  OBVIOUS
<1>6. r \in WorkerType /\ r.pc = "look" /\ r.todo = rest
  BY <1>2, <1>3, <1>5 DEF WorkerType
<1>7. Pushes(r)
  BY <1>6 DEF Pushes
<1>8. worker' = [worker EXCEPT ![w] = r]
  <2>1. AfterPush(w) = r
    BY <1>1, <1>2, <1>3, <1>4, <1>5 DEF AfterPush
  <2> QED
    BY <2>1 DEF Store
<1>9. /\ worker' \in [Workers -> WorkerType] /\ worker'[w] = r
      /\ \A u \in Workers \ {w} : worker'[u] = worker[u]
  BY <1>6, <1>8, WorkerIs
<1>10. /\ vec' \in [Vectors -> Seq(Items)] /\ (~raced => vec'["all"] = Append(vec["all"], h))
       /\ UNCHANGED <<task, bound, contents, raced>>
  BY <1>1, <1>4, StoreIs
<1>11. CleanupTypes'
  BY <1>9, <1>10 DEF CleanupInv, CleanupTypes
<1>12. \A u \in Workers : Pushes(worker'[u])
  BY <1>7, <1>9 DEF CleanupInv
<1>13. Alone'
  <2>1. \A u \in Workers : worker[u].pc = "store" => Item(u)[1] \in Vectors
    BY ItemIs
  <2> QED
    BY <1>1, <1>6, <1>8, <2>1, StoreAlone, StoreIs, WorkerIs
<1>14. Running(w) /\ worker[w].pc # "idle"
  BY <1>1 DEF Running
<1>15. Stage => Stage'
  <2> HAVE Stage
  <2>1. task.pc # "done"
    BY <1>14 DEF Stage
  <2>2. ASSUME NEW u \in Workers, u > task.idx PROVE worker'[u].todo = <<>> /\ worker'[u].pc = "idle"
    <3>1. worker[u].todo = <<>> /\ worker[u].pc = "idle"
      BY <2>2 DEF Stage
    <3> QED
      BY <1>9, <1>14, <3>1
  <2>3. task.pc = "execute" => worker'[task.idx].pc = "idle" /\ task.idx <= NextIdx
    <3> HAVE task.pc = "execute"
    <3>1. worker[task.idx].pc = "idle" /\ task.idx <= NextIdx /\ task.idx \in Workers
      BY DEF Stage, CleanupInv, CleanupTypes, TaskType
    <3> QED
      BY <1>9, <1>14, <3>1
  <2>4. NextIdx' = NextIdx
    BY <1>10 DEF NextIdx, BulkSize
  <2> QED
    BY <1>10, <2>1, <2>2, <2>3, <2>4 DEF Stage
<1>16. ~raced /\ Collected => Collected'
  <2> HAVE ~raced /\ Collected
  <2>1. PICK q \in [Homes -> Seq(Nat)] :
           /\ Placed(task.count, q) /\ Follows(task.block, vec["all"], q[PoolSize])
           /\ \A u \in Workers : Follows(task.block, worker[u].todo, q[u])
    BY DEF Collected
  <2>2. w \in Homes /\ PoolSize \in Homes /\ w # PoolSize /\ task.count \in Nat
    BY Constants DEF CleanupInv, CleanupTypes, TaskType
  <2>3. PICK a \in Seq(Nat), b \in Seq(Nat) : a = q[w] /\ b = q[PoolSize] /\ a # <<>>
    <3>1. Len(q[w]) = Len(todo) /\ q[w] \in Seq(Nat) /\ q[PoolSize] \in Seq(Nat)
      BY <1>1, <1>4, <2>1, <2>2 DEF Follows
    <3>2. Len(todo) # 0
      BY <1>4
    <3>3. q[w] # <<>>
      BY <3>1, <3>2
    <3> QED
      BY <3>1, <3>3
  <2>4. PICK c \in Seq(Nat), d \in Seq(Nat) : c = Tail(a) /\ d = Append(b, Head(a))
    BY <2>3, Tailed, Appended
  <2>5. PICK g \in [Homes -> Seq(Nat)] :
           g[w] = c /\ g[PoolSize] = d /\ \A i \in Homes \ {w, PoolSize} : g[i] = q[i]
    <3>1. PICK g : g = [i \in Homes |-> IF i = w THEN c ELSE IF i = PoolSize THEN d ELSE q[i]]
      OBVIOUS
    <3>2. \A i \in Homes : (IF i = w THEN c ELSE IF i = PoolSize THEN d ELSE q[i]) \in Seq(Nat)
      OBVIOUS
    <3>3. g \in [Homes -> Seq(Nat)]
      BY <3>1, <3>2
    <3>4. g[w] = c /\ g[PoolSize] = d /\ \A i \in Homes \ {w, PoolSize} : g[i] = q[i]
      BY <2>2, <3>1
    <3> QED
      BY <3>3, <3>4
  <2>6. Placed(task.count, g)
    <3>1. g[w] = Tail(q[w]) /\ g[PoolSize] = Append(q[PoolSize], Head(q[w])) /\ q[w] # <<>>
      BY <2>3, <2>4, <2>5
    <3>2. \A i \in Homes \ {w, PoolSize} : g[i] = q[i]
      BY <2>5
    <3>3. HeadMoved(w, PoolSize, q, g)
      BY <3>1, <3>2, Zenon DEF HeadMoved
    <3> QED
      BY <2>1, <2>2, <3>3, PlaceMoved, Zenon
  <2>7. Follows(task.block, todo, a) /\ Follows(task.block, vec["all"], b)
    BY <1>1, <1>4, <2>1, <2>3
  <2>8. Follows(task.block, rest, c)
    BY <1>4, <2>3, <2>4, <2>7, FollowTail
  <2>9. Follows(task.block, vec'["all"], d)
    <3>1. PICK s \in Seq(Items) : s = vec["all"] /\ h \in Items
      BY WorkerIs DEF Vectors, Items
    <3> QED
      BY <1>4, <1>10, <2>3, <2>4, <2>7, <3>1, FollowMoved
  <2>10. \A u \in Workers : Follows(task.block, worker'[u].todo, g[u])
    BY <1>6, <1>9, <2>1, <2>5, <2>8, Constants
  <2> QED
    BY <1>10, <2>5, <2>6, <2>9, <2>10 DEF Collected
<1>17. Collecting'
  BY <1>10, <1>15, <1>16 DEF CleanupInv, Collecting
<1>18. task.proto # "confirmation"
  BY <1>14 DEF CleanupInv, Confirming
<1> QED
  BY <1>10, <1>11, <1>12, <1>13, <1>17, <1>18 DEF CleanupInv, Confirming

LEMMA StoreOK ==
  ASSUME CleanupInv, NEW w \in Workers, Store(w)
  PROVE  CleanupInv'
<1>1. worker[w].pc = "store"
  BY DEF Store
<1> QED
  BY <1>1, ItemIs, StoreFirstOK, StoreLastOK

LEMMA SubExecuteOK ==
  ASSUME CleanupInv, NEW w \in Workers, SubExecute(w)
  PROVE  CleanupInv'
BY LookOK, FindOK, NextSidOK, ReadEndOK, StoreOK, CompletesOK DEF SubExecute

-----------------------------------------------------------------------------
(* cleanup, and the service meanwhile.                                     *)

LEMMA RemovedSize ==
  ASSUME NEW hs \in SUBSET Hashes
  PROVE  ContentSize(hs) \in Nat
<1>1. IsFiniteSet(hs) /\ \A h \in hs : SizeOf[h] \in Nat
  BY Constants, FS_Subset
<1>2. IsFiniteSet(UNION {{h} \X (1 .. SizeOf[h]) : h \in hs})
  BY <1>1, PartsFinite
<1> QED
  BY <1>2, FS_CardinalityType DEF ContentSize

\* A cleanup keeps what the next block finds.
LEMMA CleanedOK ==
  ASSUME CleanupInv, task' \in TaskType, task'.pc = "cleaned", vec' \in [Vectors -> Seq(Items)],
         UNCHANGED <<worker, raced>>, (\A w \in Workers : ~Running(w)), bound' \in SUBSET Sids, contents' \in SUBSET Hashes
  PROVE  CleanupInv'
<1>1. CleanupTypes'
  BY DEF CleanupInv, CleanupTypes
<1>2. \A w \in Workers : Pushes(worker'[w])
  BY DEF CleanupInv
<1>3. Alone'
  BY DEF Alone, Running
<1>4. Collecting' /\ Confirming'
  BY DEF Collecting, Confirming, Running
<1> QED
  BY <1>1, <1>2, <1>3, <1>4 DEF CleanupInv

LEMMA CleanTransactionsOK ==
  ASSUME CleanupInv, CleanTransactions
  PROVE  CleanupInv'
<1>1. bound \in SUBSET Sids /\ contents \in SUBSET Hashes /\ task \in TaskType
  BY DEF CleanupInv, CleanupTypes
<1>2. PICK total \in Nat : total = ContentSize(contents \cap Range(vec["all"]))
  <2>1. contents \cap Range(vec["all"]) \in SUBSET Hashes
    BY <1>1
  <2> QED
    BY <2>1, RemovedSize
<1>3. task' = [task EXCEPT !.pc = "cleaned", !.total = total]
  BY <1>2 DEF CleanTransactions
<1>4. task' \in TaskType /\ task'.pc = "cleaned"
  BY <1>1, <1>3 DEF TaskType
<1>5. bound' \in SUBSET Sids /\ contents' \in SUBSET Hashes /\ UNCHANGED <<worker, vec, raced>>
  BY <1>1 DEF CleanTransactions, RemoveAll
<1>6. \A w \in Workers : ~Running(w)
  BY DEF CleanTransactions, CleanupInv, Collecting, Stage, Confirming
<1> QED
  BY <1>4, <1>5, <1>6, CleanedOK DEF CleanupInv, CleanupTypes

\* SetToSeq makes a vector of the set.
LEMMA SeqOfSet ==
  ASSUME NEW S, IsFiniteSet(S)
  PROVE  SetToSeq(S) \in Seq(S) /\ Range(SetToSeq(S)) = S
<1>1. PICK n \in Nat : n = Cardinality(S) /\ ExistsBijection(1 .. n, S)
  BY FS_CardinalityType
<1>2. PICK g \in Bijection(1 .. n, S) : TRUE
  BY <1>1 DEF ExistsBijection
<1>3. \E f \in [1 .. n -> S] : IsInjective(f)
  BY <1>2 DEF Bijection, Injection, IsInjective
<1>4. PICK f : f = SetToSeq(S)
  OBVIOUS
<1>5. f \in [1 .. n -> S] /\ IsInjective(f)
  BY <1>1, <1>3, <1>4 DEF SetToSeq
<1>6. f \in Injection(1 .. n, S)
  BY <1>5 DEF IsInjective, Injection
<1>7. Cardinality(1 .. n) = n
  BY FS_Interval
<1>8. f \in Surjection(1 .. n, S)
  BY <1>1, <1>6, <1>7, FS_Injection
<1>9. f \in Seq(S)
  BY <1>5
<1>10. Range(f) = S
  BY <1>5, <1>8 DEF Surjection, Range
<1> QED
  BY <1>4, <1>9, <1>10

\* What a confirmation removes and reports.
LEMMA ReportedSids ==
  ASSUME CleanupInv, NEW c \in Confirmations
  PROVE  /\ RemovedBySid(c) \cup Range(c.hashes) \in SUBSET Hashes
         /\ ReportedBySid(c) \cup ReportedByHash(c) \in SUBSET Sids
<1>1. c.sids \in Seq(Sids) /\ c.hashes \in Seq(Hashes) /\ bound \in SUBSET Sids
  BY Constants DEF CleanupInv, CleanupTypes
<1>2. (\A i \in DOMAIN c.sids : c.sids[i] \in Sids) /\ (\A i \in DOMAIN c.hashes : c.hashes[i] \in Hashes)
  BY <1>1
<1>3. Range(c.sids) \in SUBSET Sids /\ Range(c.hashes) \in SUBSET Hashes
  BY <1>2 DEF Range
<1>4. RemovedBySid(c) \in SUBSET Hashes
  BY <1>2, Constants DEF RemovedBySid
<1>5. ReportedByHash(c) \in SUBSET Sids
  BY <1>1 DEF ReportedByHash, SidsOf
<1>6. ReportedBySid(c) \in SUBSET Sids
  BY <1>1, <1>3 DEF ReportedBySid, Duplicates
<1> QED
  BY <1>3, <1>4, <1>5, <1>6

LEMMA ConfirmationCleanupOK ==
  ASSUME CleanupInv, ConfirmationCleanup
  PROVE  CleanupInv'
<1>1. bound \in SUBSET Sids /\ contents \in SUBSET Hashes /\ task \in TaskType /\ vec \in [Vectors -> Seq(Items)]
  BY DEF CleanupInv, CleanupTypes
<1>2. PICK c \in Confirmations : c = task.msg /\ task.total = 0 /\ \A w \in Workers : ~Running(w)
  BY DEF ConfirmationCleanup, CleanupInv, Confirming
<1>3. PICK hs \in SUBSET Hashes, ss \in SUBSET Sids :
         hs = RemovedBySid(c) \cup Range(c.hashes) /\ ss = ReportedBySid(c) \cup ReportedByHash(c)
  BY ReportedSids
<1>4. PICK total \in Nat : total = task.total + ContentSize(contents \cap hs)
  <2>1. contents \cap hs \in SUBSET Hashes
    BY <1>3
  <2>2. ContentSize(contents \cap hs) \in Nat
    BY <2>1, RemovedSize
  <2> QED
    BY <1>2, <2>2
<1>5. task' = [task EXCEPT !.pc = "cleaned", !.total = total]
  BY <1>2, <1>3, <1>4 DEF ConfirmationCleanup
<1>6. task' \in TaskType /\ task'.pc = "cleaned"
  BY <1>1, <1>5 DEF TaskType
<1>7. bound' \in SUBSET Sids /\ contents' \in SUBSET Hashes /\ UNCHANGED <<worker, raced>>
  BY <1>1 DEF ConfirmationCleanup, RemoveAll
<1>8. vec' \in [Vectors -> Seq(Items)]
  <2>1. SetToSeq(ss) \in Seq(ss)
    BY Constants, FS_Subset, SeqOfSet
  <2>2. ss \subseteq Items
    BY DEF Items
  <2>3. PICK t : t = SetToSeq(ss) /\ t \in Seq(ss)
    BY <2>1
  <2>4. t \in Seq(Items)
    BY <2>2, <2>3
  <2>5. vec' = [vec EXCEPT !["sids"] = t]
    BY <1>2, <1>3, <2>3 DEF ConfirmationCleanup
  <2> QED
    BY <1>1, <2>4, <2>5
<1> QED
  BY <1>2, <1>6, <1>7, <1>8, CleanedOK

\* assign_short_id, set_transaction_contents and the removals.
LEMMA ServiceOK ==
  ASSUME CleanupInv,
         \/ \E s \in Sids : AssignShortId(s)
         \/ \E h \in Hashes : SetContents(h) \/ RemoveTransaction(h)
  PROVE  CleanupInv'
<1>1. UNCHANGED <<task, worker, vec, raced>>
  BY DEF AssignShortId, SetContents, RemoveTransaction
<1>2. bound' \in SUBSET Sids /\ contents' \in SUBSET Hashes
  BY DEF AssignShortId, SetContents, RemoveTransaction, RemoveAll, CleanupInv, CleanupTypes
<1>3. Collecting' /\ Confirming'
  BY <1>1 DEF CleanupInv, Collecting, Collected, Stage, Running, NextIdx, BulkSize, Confirming
<1> QED
  BY <1>1, <1>2, <1>3, OthersKept DEF CleanupInv, CleanupTypes

LEMMA CleanupNextOK == CleanupInv /\ [Next]_vars => CleanupInv'
<1> SUFFICES ASSUME CleanupInv, [Next]_vars PROVE CleanupInv'
  OBVIOUS
<1>1. CASE \/ \E b \in Blocks : BtcInit(b) \/ OntInit(b)
           \/ \E c \in Confirmations : ConfirmationInit(c)
  BY <1>1, InitOK
<1>2. CASE BtcExecute \/ OntExecute
  BY <1>2, DispatchNextOK, DispatchLastOK, DispatchThrowsOK, WaitForAllOK, WaitThrowsOK
     DEF BtcExecute, OntExecute, Execute
<1>3. CASE ConfirmationExecute
  BY <1>3, ConfirmationExecuteOK
<1>4. CASE \E w \in Workers : BtcSubExecute(w) \/ OntSubExecute(w)
  BY <1>4, SubExecuteOK DEF BtcSubExecute, OntSubExecute
<1>5. CASE BtcCleanup \/ OntCleanup
  BY <1>5, CleanTransactionsOK DEF BtcCleanup, OntCleanup
<1>6. CASE ConfirmationCleanup
  BY <1>6, ConfirmationCleanupOK
<1>7. CASE \/ \E s \in Sids : AssignShortId(s)
           \/ \E h \in Hashes : SetContents(h) \/ RemoveTransaction(h)
  BY <1>7, ServiceOK
<1>8. CASE UNCHANGED vars
  BY <1>8 DEF vars, CleanupInv, CleanupTypes, Alone, InPush, Item, Collecting, Collected, Stage,
       Running, NextIdx, BulkSize, Confirming
<1> QED
  BY <1>1, <1>2, <1>3, <1>4, <1>5, <1>6, <1>7, <1>8 DEF Next

\* What a sub task found is there, or was removed since.
Found ==
    \A w \in Workers : /\ worker[w].pc = "find" => Current(w) \in entries \cup lost
                       /\ worker[w].pc = "failed" => Current(w) \in lost

\* A step that leaves every sub task as it is, or takes it to a state of no concern.
LEMMA FoundKept ==
  ASSUME Found, entries \ entries' \subseteq lost', lost \subseteq lost',
         \A w \in Workers : worker'[w] = worker[w] \/ worker'[w].pc \notin {"find", "failed"}
  PROVE  Found'
BY DEF Found, Current

LEMMA SubFound ==
  ASSUME CleanupInv, Found, NEW w \in Workers, SubExecute(w)
  PROVE  Found'
<1>0. worker \in [Workers -> WorkerType] /\ UNCHANGED <<entries, lost>>
  BY DEF CleanupInv, CleanupTypes, SubExecute, Look, Find, NextSid, ReadEnd, Store, Completes, service
<1>1. ASSUME NEW r, worker' = [worker EXCEPT ![w] = r], r.pc \notin {"find", "failed"} PROVE Found'
  BY <1>0, <1>1, FoundKept
<1>2. CASE Look(w)
  <2>1. \A u \in Workers \ {w} : worker'[u] = worker[u]
    BY <1>0, <1>2 DEF Look
  <2>2. worker'[w].todo = worker[w].todo /\ worker'[w].pc # "failed"
    BY <1>0, <1>2 DEF Look, WorkerType
  <2>3. worker'[w].pc = "find" => Current(w) \in entries
    BY <1>0, <1>2 DEF Look, WorkerType
  <2> QED
    BY <1>0, <2>1, <2>2, <2>3 DEF Found, Current
<1>3. CASE Find(w)
  <2>1. \A u \in Workers \ {w} : worker'[u] = worker[u]
    BY <1>0, <1>3 DEF Find
  <2>2. worker'[w].todo = worker[w].todo /\ worker'[w].pc # "find"
    BY <1>0, <1>3 DEF Find, WorkerType
  <2>3. worker'[w].pc = "failed" => Current(w) \in lost
    BY <1>0, <1>3 DEF Find, Found, WorkerType
  <2> QED
    BY <1>0, <2>1, <2>2, <2>3 DEF Found, Current
<1>4. CASE NextSid(w) \/ ReadEnd(w) \/ Completes(w)
  <2>1. \A u \in Workers : worker'[u] = worker[u] \/ worker'[u].pc \notin {"find", "failed"}
    BY <1>0, <1>4 DEF NextSid, ReadEnd, Completes, WorkerType
  <2> QED
    BY <1>0, <2>1, FoundKept
<1>5. CASE Store(w)
  <2>1. PICK r : r = AfterPush(w) /\ r.pc \notin {"find", "failed"}
    <3>1. PICK o, a, x, y : o = worker[w] /\ o \in WorkerType /\ a \in {"next", "read", "look"}
                            /\ AfterPush(w) = [o EXCEPT !.pushes = x, !.pc = a, !.todo = y]
      BY <1>0 DEF AfterPush
    <3>2. [o EXCEPT !.pushes = x, !.pc = a, !.todo = y].pc = a
      BY <3>1 DEF WorkerType
    <3> QED
      BY <3>1, <3>2
  <2> QED
    BY <1>1, <1>5, <2>1 DEF Store
<1> QED
  BY <1>2, <1>3, <1>4, <1>5 DEF SubExecute

LEMMA FoundNext == CleanupInv /\ Found /\ [Next]_vars => Found'
<1> SUFFICES ASSUME CleanupInv, Found, [Next]_vars PROVE Found'
  OBVIOUS
<1>0. worker \in [Workers -> WorkerType]
  BY DEF CleanupInv, CleanupTypes
<1>1. ASSUME NEW b, NEW m, NEW total, InitTask(b, m, total) PROVE Found'
  <2>1. \A w \in Workers : worker'[w] = NewWorker
    BY <1>1 DEF InitTask
  <2> QED
    BY <2>1, FreshWorker DEF Found
<1>2. CASE DispatchNext /\ task.proto # "confirmation"
  <2>1. UNCHANGED <<entries, lost>>
    BY <1>2 DEF DispatchNext, service
  <2>2. PICK x, r : \/ worker' = [worker EXCEPT ![task.idx].todo = x]
                    \/ worker' = [[worker EXCEPT ![task.idx].todo = x] EXCEPT ![task.idx].pc = "look"]
    BY <1>2 DEF DispatchNext
  <2>3. task.idx \in Workers /\ worker[task.idx].pc = "idle" /\ worker[task.idx] \in WorkerType
    BY <1>0, <1>2 DEF DispatchNext, CleanupInv, CleanupTypes, Collecting, Stage, TaskType
  <2>4. \A w \in Workers : worker'[w] = worker[w] \/ worker'[w].pc \notin {"find", "failed"}
    BY <1>0, <2>2, <2>3 DEF WorkerType
  <2> QED
    BY <2>1, <2>4, FoundKept
<1>3. CASE DispatchLast
  <2>1. \A w \in Workers : worker'[w] = worker[w] \/ worker'[w].pc \notin {"find", "failed"}
    BY <1>0, <1>3 DEF DispatchLast, WorkerType
  <2> QED
    BY <1>3, <2>1, FoundKept DEF DispatchLast, service
<1>4. CASE DispatchThrows \/ WaitForAll \/ WaitThrows \/ ConfirmationExecute
  BY <1>4, FoundKept DEF DispatchThrows, WaitForAll, WaitThrows, ConfirmationExecute, service
<1>5. CASE \E w \in Workers : SubExecute(w)
  BY <1>5, SubFound
<1>6. CASE CleanTransactions \/ ConfirmationCleanup
  <2>1. \A w \in Workers : ~Running(w)
    BY <1>6 DEF CleanTransactions, ConfirmationCleanup, CleanupInv, Collecting, Stage, Confirming
  <2>2. UNCHANGED <<worker, lost>>
    BY <1>6 DEF CleanTransactions, ConfirmationCleanup
  <2> QED
    BY <2>1, <2>2 DEF Found, Running, Current
<1>7. CASE \/ \E s \in Sids : AssignShortId(s)
           \/ \E h \in Hashes : SetContents(h) \/ RemoveTransaction(h)
  BY <1>7, FoundKept DEF AssignShortId, SetContents, RemoveTransaction, RemoveAll
<1>8. CASE UNCHANGED vars
  BY <1>8, FoundKept DEF vars
<1> QED
  BY <1>1, <1>2, <1>3, <1>4, <1>5, <1>6, <1>7, <1>8
     DEF Next, BtcInit, OntInit, ConfirmationInit, BtcExecute, OntExecute, Execute,
         BtcSubExecute, OntSubExecute, BtcCleanup, OntCleanup

LEMMA FoundFirst == Init => Found
<1> SUFFICES ASSUME Init PROVE Found
  OBVIOUS
<1>1. \A w \in Workers : worker[w] = NewWorker
  BY DEF Init
<1> QED
  BY <1>1, FreshWorker DEF Found

LEMMA CleanupInvariance == Spec => [](CleanupInv /\ Found)
BY CleanupInit, FoundFirst, CleanupNextOK, FoundNext, PTL DEF Spec

-----------------------------------------------------------------------------
(* What a completed task has collected and what a cleanup removes.         *)

\* The elements of s are those of b, each at the position that p says.
Rearranged(s, b, p) ==
    /\ \A k \in 1 .. Len(s) : s[k] = b[p[k]] /\ p[k] \in 1 .. Len(b)
    /\ \A k, l \in 1 .. Len(s) : p[k] = p[l] => k = l
    /\ \A i \in 1 .. Len(b) : \E k \in 1 .. Len(s) : p[k] = i

LEMMA SameCount ==
  ASSUME NEW s \in Seq(Items), NEW b \in Seq(Hashes), NEW p, Rearranged(s, b, p), NEW x
  PROVE  Count(s, x) = Count(b, x)
<1>0. /\ \A k \in 1 .. Len(s) : s[k] = b[p[k]] /\ p[k] \in 1 .. Len(b)
      /\ \A k, l \in 1 .. Len(s) : p[k] = p[l] => k = l
      /\ \A i \in 1 .. Len(b) : \E k \in 1 .. Len(s) : p[k] = i
  BY DEF Rearranged
<1>1. PICK m \in Nat, n \in Nat : m = Len(s) /\ n = Len(b) /\ DOMAIN s = 1 .. m /\ DOMAIN b = 1 .. n
  OBVIOUS
<1>2. PICK A \in SUBSET (1 .. m), B \in SUBSET (1 .. n) :
         A = {i \in DOMAIN s : s[i] = x} /\ B = {i \in DOMAIN b : b[i] = x}
  BY <1>1
<1>3. PICK f : f = [i \in A |-> p[i]]
  OBVIOUS
<1>4. \A i \in A : p[i] \in B
  BY <1>0, <1>1, <1>2
<1>5. \A j \in B : \E i \in A : p[i] = j
  <2> TAKE j \in B
  <2>1. j \in 1 .. n /\ b[j] = x
    BY <1>1, <1>2
  <2>2. PICK k \in 1 .. m : p[k] = j
    BY <1>0, <1>1, <2>1
  <2>3. k \in A
    BY <1>0, <1>1, <1>2, <2>1, <2>2
  <2> QED
    BY <2>2, <2>3
<1>6. f \in Bijection(A, B)
  <2>1. f \in [A -> B]
    BY <1>3, <1>4
  <2>2. \A i, j \in A : f[i] = f[j] => i = j
    BY <1>0, <1>1, <1>2, <1>3
  <2>3. \A j \in B : \E i \in A : f[i] = j
    BY <1>3, <1>5
  <2> QED
    BY <2>1, <2>2, <2>3 DEF Bijection, Injection, Surjection, IsInjective
<1>7. IsFiniteSet(A)
  <2>1. IsFiniteSet(1 .. m)
    BY FS_Interval
  <2> QED
    BY <2>1, FS_Subset
<1>8. Cardinality(A) = Cardinality(B)
  BY <1>6, <1>7, FS_Bijection DEF ExistsBijection
<1> QED
  BY <1>2, <1>8 DEF Count

LEMMA CollectedAll == CleanupInv /\ Found => CollectedUnlessRaced
<1> SUFFICES ASSUME CleanupInv, task.pc = "done", task.proto # "confirmation", ~raced,
                    NEW h \in Hashes \cup {Garbage}
             PROVE  Count(vec["all"], h) = Count(task.block, h)
  BY DEF CollectedUnlessRaced, Found
<1>1. PICK b \in Seq(Hashes), s \in Seq(Items), n \in Nat :
         b = task.block /\ s = vec["all"] /\ n = task.count /\ n = Len(b)
  <2>1. task.block \in Seq(Hashes) /\ vec["all"] \in Seq(Items) /\ task.count \in Nat
    BY DEF CleanupInv, CleanupTypes, TaskType, Vectors
  <2>2. task.count = Len(task.block)
    BY DEF CleanupInv, Collecting, Stage
  <2> QED
    BY <2>1, <2>2
<1>2. PICK q \in [Homes -> Seq(Nat)] :
         /\ Placed(n, q) /\ Follows(b, s, q[PoolSize])
         /\ \A w \in Workers : Follows(b, worker[w].todo, q[w])
  BY <1>1 DEF CleanupInv, Collecting, Collected
<1>3. PICK p \in Seq(Nat) : p = q[PoolSize]
  BY Constants
<1>4. Len(p) = Len(s) /\ \A k \in 1 .. Len(s) : s[k] = b[p[k]]
  BY <1>2, <1>3 DEF Follows
<1>5. ASSUME NEW w \in Workers, NEW k \in 1 .. Len(q[w]) PROVE FALSE
  <2>1. worker[w].todo = <<>>
    BY DEF CleanupInv, Collecting, Stage
  <2>2. Len(q[w]) = 0
    BY <1>2, <2>1 DEF Follows
  <2> QED
    BY <1>5, <2>2
<1>6. /\ \A k \in 1 .. Len(s) : p[k] \in 1 .. n
      /\ \A k, l \in 1 .. Len(s) : p[k] = p[l] => k = l
  <2>1. PoolSize \in Homes
    BY Constants
  <2>2. /\ \A k \in 1 .. Len(q[PoolSize]) : q[PoolSize][k] \in 1 .. n
        /\ \A k \in 1 .. Len(q[PoolSize]) : \A l \in 1 .. Len(q[PoolSize]) :
              q[PoolSize][k] = q[PoolSize][l] => k = l
    BY <1>2, <2>1 DEF Placed, Separate
  <2> QED
    BY <1>3, <1>4, <2>2
<1>7. ASSUME NEW i \in 1 .. n PROVE \E k \in 1 .. Len(s) : p[k] = i
  <2>1. PICK g \in Homes : \E k \in 1 .. Len(q[g]) : q[g][k] = i
    BY <1>2 DEF Placed
  <2>2. g = PoolSize
    BY <1>5, <2>1, Constants
  <2> QED
    BY <1>3, <1>4, <2>1, <2>2
<1>8. /\ \A k \in 1 .. Len(s) : s[k] = b[p[k]] /\ p[k] \in 1 .. Len(b)
      /\ \A i \in 1 .. Len(b) : \E k \in 1 .. Len(s) : p[k] = i
  BY <1>1, <1>4, <1>6, <1>7
<1>9. Rearranged(s, b, p)
  BY <1>6, <1>8 DEF Rearranged
<1>10. Count(s, h) = Count(b, h)
  BY <1>9, SameCount
<1> QED
  BY <1>1, <1>10

\* A task of any protocol that completes, whatever block it had and however its sub
\* tasks interleaved, has collected each transaction of the block as often as the
\* block has it, unless two sub tasks met in a push_back; and a sub task fails only at
\* a transaction that left the service after the sub task found it there.
THEOREM BlockIsCollected == Spec => []CollectedUnlessRaced
BY CleanupInvariance, CollectedAll, PTL

\* Every short id that a confirmation unbinds is one it reports: the one of the
\* message that came first for its transaction removed it, and reported the others.
LEMMA UnboundReported ==
  ASSUME CleanupInv, NEW c \in Confirmations, NEW s \in bound,
         HashOf[s] \in RemovedBySid(c) \cup Range(c.hashes)
  PROVE  s \in ReportedBySid(c) \cup ReportedByHash(c)
<1>1. CASE HashOf[s] \in RemovedBySid(c)
  <2> DEFINE K == {k \in DOMAIN c.sids : c.sids[k] \in bound /\ HashOf[c.sids[k]] = HashOf[s]}
  <2>1. c.sids \in Seq(Sids)
    BY Constants
  <2>2. PICK n \in Nat : DOMAIN c.sids = 1 .. n
    BY <2>1
  <2>3. K # {} /\ K \in SUBSET Nat
    BY <1>1, <2>2 DEF RemovedBySid
  <2>4. PICK k : k \in K /\ k \in 1 .. n /\ \A j \in K : k <= j
    <3> HIDE DEF K
    <3>1. Min(K) \in K /\ \A j \in K : Min(K) <= j
      BY <2>3, MinIsLeast
    <3>2. K \subseteq 1 .. n
      BY <2>2 DEF K
    <3> QED
      BY <3>1, <3>2
  <2>5. k \in DOMAIN c.sids /\ c.sids[k] \in bound /\ HashOf[c.sids[k]] = HashOf[s]
    BY <2>4
  <2>6. \A j \in 1 .. k - 1 : HashOf[c.sids[j]] # HashOf[c.sids[k]] \/ c.sids[j] \notin bound
    <3> SUFFICES ASSUME NEW j \in 1 .. k - 1, HashOf[c.sids[j]] = HashOf[c.sids[k]], c.sids[j] \in bound
                 PROVE  FALSE
      OBVIOUS
    <3>1. j \in 1 .. n /\ ~(k <= j)
      BY <2>4
    <3>2. j \in K
      BY <2>2, <2>5, <3>1
    <3> HIDE DEF K
    <3> QED
      BY <2>4, <3>1, <3>2
  <2>7. FirstOf(c, k)
    BY <2>5, <2>6 DEF FirstOf
  <2>8. CASE s = c.sids[k]
    BY <2>5, <2>8 DEF ReportedBySid, Range
  <2>9. CASE s # c.sids[k]
    <3>1. s \in Duplicates(c.sids[k], bound)
      BY <2>5, <2>9 DEF Duplicates
    <3>2. k \in {i \in DOMAIN c.sids : FirstOf(c, i)}
      BY <2>5, <2>7
    <3> QED
      BY <3>1, <3>2 DEF ReportedBySid
  <2> QED
    BY <2>8, <2>9
<1>2. CASE HashOf[s] \notin RemovedBySid(c)
  <2>1. PICK i \in DOMAIN c.hashes : c.hashes[i] = HashOf[s]
    BY <1>2 DEF Range
  <2>2. s \in SidsOf(c.hashes[i])
    BY <2>1 DEF SidsOf
  <2> QED
    BY <1>2, <2>1, <2>2 DEF ReportedByHash
<1> QED
  BY <1>1, <1>2

LEMMA CleanTransactionsExact ==
  ASSUME CleanupInv, CleanTransactions
  PROVE  task'.total = ContentSize(contents \ contents')
<1>1. contents \ contents' = contents \cap Range(vec["all"])
  BY DEF CleanTransactions, RemoveAll
<1>2. task \in TaskType
  BY DEF CleanupInv, CleanupTypes
<1>3. task'.total = ContentSize(contents \cap Range(vec["all"]))
  BY <1>2 DEF CleanTransactions, TaskType
<1> QED
  BY <1>1, <1>3

LEMMA ConfirmationExact ==
  ASSUME CleanupInv, ConfirmationCleanup
  PROVE  task'.total = ContentSize(contents \ contents') /\ RemovedReported
<1>1. contents \in SUBSET Hashes /\ task \in TaskType /\ vec \in [Vectors -> Seq(Items)]
  BY DEF CleanupInv, CleanupTypes
<1>2. PICK c \in Confirmations : c = task.msg /\ task.total = 0
  BY DEF ConfirmationCleanup, CleanupInv, Confirming
<1>3. PICK hs \in SUBSET Hashes, ss \in SUBSET Sids :
         hs = RemovedBySid(c) \cup Range(c.hashes) /\ ss = ReportedBySid(c) \cup ReportedByHash(c)
  BY ReportedSids
<1>4. contents \ contents' = contents \cap hs /\ entries' = entries \ hs /\ bound \ bound' = {s \in bound : HashOf[s] \in hs}
  BY <1>2, <1>3 DEF ConfirmationCleanup, RemoveAll
<1>5. PICK size \in Nat : size = ContentSize(contents \cap hs)
  <2>1. contents \cap hs \in SUBSET Hashes
    BY <1>3
  <2> QED
    BY <2>1, RemovedSize
<1>6. task'.total = size
  <2>1. task' = [task EXCEPT !.pc = "cleaned", !.total = 0 + size]
    BY <1>2, <1>3, <1>5 DEF ConfirmationCleanup
  <2> QED
    BY <1>1, <2>1 DEF TaskType
<1>7. Range(vec'["sids"]) = ss
  <2>1. vec'["sids"] = SetToSeq(ss)
    BY <1>1, <1>2, <1>3 DEF ConfirmationCleanup, Vectors
  <2> QED
    BY <2>1, Constants, FS_Subset, SeqOfSet
<1>8. bound \ bound' \subseteq ss
  BY <1>3, <1>4, UnboundReported
<1>9. \A i \in DOMAIN task.msg.hashes : task.msg.hashes[i] \notin entries'
  BY <1>2, <1>3, <1>4 DEF Range
<1> QED
  BY <1>4, <1>5, <1>6, <1>7, <1>8, <1>9 DEF RemovedReported

\* total_content_removed is the size of what a cleanup freed and every short id it
\* removed is reported, for every block, confirmation and state of the service.
THEOREM CleanupIsExact == Spec => CleanupExact
<1> DEFINE Exact == task.pc = "done" /\ task'.pc = "cleaned" =>
                       /\ task'.total = ContentSize(contents \ contents')
                       /\ task.proto = "confirmation" => RemovedReported
<1>1. CleanupInv /\ [Next]_vars => [Exact]_vars
  <2> SUFFICES ASSUME CleanupInv, Next, task.pc = "done", task'.pc = "cleaned"
               PROVE  /\ task'.total = ContentSize(contents \ contents')
                      /\ task.proto = "confirmation" => RemovedReported
    OBVIOUS
  <2>1. CASE BtcCleanup \/ OntCleanup
    BY <2>1, CleanTransactionsExact DEF BtcCleanup, OntCleanup
  <2>2. CASE ConfirmationCleanup
    BY <2>2, ConfirmationExact
  <2>3. ~(\/ \E b \in Blocks : BtcInit(b) \/ OntInit(b)
          \/ \E c \in Confirmations : ConfirmationInit(c))
    BY DEF BtcInit, OntInit, ConfirmationInit, InitTask
  <2>4. ~(BtcExecute \/ OntExecute \/ ConfirmationExecute)
    BY DEF BtcExecute, OntExecute, Execute, WaitThrows, ConfirmationExecute, DispatchNext, DispatchLast, DispatchThrows,
         WaitForAll
  <2>5. ~(\E w \in Workers : BtcSubExecute(w) \/ OntSubExecute(w))
    BY DEF BtcSubExecute, OntSubExecute, SubExecute, Look, Find, NextSid, ReadEnd, Store, Completes
  <2>6. ~(\/ \E s \in Sids : AssignShortId(s)
          \/ \E h \in Hashes : SetContents(h) \/ RemoveTransaction(h))
    BY DEF AssignShortId, SetContents, RemoveTransaction
  <2> QED
    BY <2>1, <2>2, <2>3, <2>4, <2>5, <2>6 DEF Next
<1> QED
  BY <1>1, CleanupInvariance, PTL DEF Spec, CleanupExact

=============================================================================
