----------------------- MODULE MemoryAllocationProofs -----------------------
(***************************************************************************)
(* For any number of allocators, clients, sizes and blocks: every block is *)
(* in exactly one place or free, the queues keep their limits, and the     *)
(* thread calls back only allocators that are alive.                       *)
(***************************************************************************)
EXTENDS MemoryAllocation, TLAPS

(* All queues of blocks as one function, from what a queue is to its blocks. *)

CopyHome == <<"copy", 0, 0>>
DeallocHome(a) == <<"dealloc", a, 0>>
PoolHome(a, n) == <<"pool", a, n>>
PoolHomes(a) == {PoolHome(a, n) : n \in Sizes}

Homes == {CopyHome} \cup {DeallocHome(a) : a \in Allocators} \cup UNION {PoolHomes(a) : a \in Allocators}

QueuesOf(pools, deallocs, copy) ==
    [h \in Homes |-> CASE h[1] = "copy" -> copy
                       [] h[1] = "dealloc" -> deallocs[h[2]]
                       [] OTHER -> pools[h[2]][h[3]]]

Queues == QueuesOf(pool, dealloc, thread.copy)
BlockQueues == [Homes -> Seq(Blocks)]

In(seq, b) == \E k \in 1 .. Len(seq) : seq[k] = b

Queued(q, b) == \E h \in Homes : In(q[h], b)

\* The queues q and r differ at most in what is in the given homes.
Apart(q, r, homes) == \A h \in Homes \ homes : r[h] = q[h]

\* The front of a queue is taken, a block is put at the end of a queue, queues are
\* emptied, a queue moves to an empty home.
Taken(q, r, g) == q[g] # <<>> /\ r[g] = Tail(q[g]) /\ Apart(q, r, {g})
Added(q, r, g, b) == r[g] = Append(q[g], b) /\ Apart(q, r, {g})
Emptied(q, r, homes) == (\A h \in homes : r[h] = <<>>) /\ Apart(q, r, homes)
Moved(q, r, f, g) == q[g] = <<>> /\ r[g] = q[f] /\ r[f] = <<>> /\ Apart(q, r, {g, f})

\* No block is in two slots.
SlotsDiffer(q) ==
    \A h, g \in Homes : \A k \in 1 .. Len(q[h]), l \in 1 .. Len(q[g]) :
        q[h][k] = q[g][l] => h = g /\ k = l

\* Blocks of callers are in no queue, and a block is allocated exactly if it is in
\* the hands of a caller or in a queue.
Accounted(q, out, sizes) ==
    /\ \A b \in out : ~Queued(q, b)
    /\ \A b \in Blocks : sizes[b] # 0 <=> b \in out \/ Queued(q, b)

(* The inductive invariant.                                                *)

BlocksOnce == SlotsDiffer(Queues) /\ Accounted(Queues, DOMAIN held, heap)

\* A block in stock has the size of its queue, one in the hands of a caller is
\* large enough.
SizesFit ==
    /\ \A a \in Allocators, n \in Sizes : \A b \in Blocks : In(pool[a][n], b) => heap[b] = n
    /\ \A b \in DOMAIN held : heap[b] >= held[b]

\* The thread runs the callback of a registered allocator, whose event stays in
\* front until the callback ends, and has a copy of blocks to free only meanwhile.
CallbackRuns ==
    /\ callbacks = {a \in Allocators : life[a] = "live"}
    /\ thread.pc \in {"fill", "free"} => events # <<>> /\ Head(events) \in callbacks
    /\ thread.pc \notin {"fill", "free"} => thread.copy = <<>>

\* The queue being filled is no longer than the thread counts.
FillCounts ==
    thread.pc = "fill" => thread.i \in Sizes /\ Len(pool[Head(events)][thread.i]) <= thread.j

\* A client that is about to allocate asks for at least one byte.
Requests == \A c \in Clients : client[c].pc = "new" => client[c].n # 0

IInv == TypeOK /\ BlocksOnce /\ SizesFit /\ CallbackRuns /\ FillCounts /\ QueuesBounded /\ Requests

-----------------------------------------------------------------------------
(* Queues of blocks.                                                       *)

LEMMA HomesDiffer ==
  /\ CopyHome \in Homes
  /\ \A a \in Allocators : DeallocHome(a) \in Homes /\ DeallocHome(a) # CopyHome
  /\ \A a \in Allocators, n \in Sizes :
        /\ PoolHome(a, n) \in Homes /\ PoolHome(a, n) \in PoolHomes(a)
        /\ PoolHome(a, n) # CopyHome
        /\ \A c \in Allocators : PoolHome(a, n) # DeallocHome(c)
  /\ \A a, c \in Allocators : DeallocHome(a) = DeallocHome(c) => a = c
  /\ \A a, c \in Allocators, n, m \in Sizes : PoolHome(a, n) = PoolHome(c, m) => a = c /\ n = m
<1>1. \A a, n : "copy" # "dealloc" /\ "copy" # "pool" /\ "dealloc" # "pool"
  OBVIOUS
<1>2. \A a : DeallocHome(a) # CopyHome
  BY <1>1 DEF DeallocHome, CopyHome
<1>3. \A a, n, c : PoolHome(a, n) # CopyHome /\ PoolHome(a, n) # DeallocHome(c)
  BY <1>1 DEF DeallocHome, CopyHome, PoolHome
<1>4. \A a, c : DeallocHome(a) = DeallocHome(c) => a = c
  BY DEF DeallocHome
<1>5. \A a, c, n, m : PoolHome(a, n) = PoolHome(c, m) => a = c /\ n = m
  BY DEF PoolHome
<1>6. /\ CopyHome \in Homes
      /\ \A a \in Allocators : DeallocHome(a) \in Homes
      /\ \A a \in Allocators, n \in Sizes : PoolHome(a, n) \in Homes /\ PoolHome(a, n) \in PoolHomes(a)
  BY DEF Homes, PoolHomes
<1> QED
  BY <1>2, <1>3, <1>4, <1>5, <1>6

\* What is in each home.
LEMMA QueuesAt ==
  ASSUME NEW p, NEW d, NEW copy
  PROVE  /\ QueuesOf(p, d, copy)[CopyHome] = copy
         /\ \A a \in Allocators : QueuesOf(p, d, copy)[DeallocHome(a)] = d[a]
         /\ \A a \in Allocators, n \in Sizes : QueuesOf(p, d, copy)[PoolHome(a, n)] = p[a][n]
<1> DEFINE Q(h) == CASE h[1] = "copy" -> copy
                     [] h[1] = "dealloc" -> d[h[2]]
                     [] OTHER -> p[h[2]][h[3]]
<1>1. \A h \in Homes : QueuesOf(p, d, copy)[h] = Q(h)
  BY DEF QueuesOf
<1>2. Q(CopyHome) = copy
  BY DEF CopyHome
<1>3. \A a : Q(DeallocHome(a)) = d[a]
  BY DEF DeallocHome
<1>4. \A a, n : Q(PoolHome(a, n)) = p[a][n]
  BY DEF PoolHome
<1> HIDE DEF Q
<1> QED
  BY <1>1, <1>2, <1>3, <1>4, HomesDiffer

LEMMA HomeCases ==
  ASSUME NEW h \in Homes
  PROVE  \/ h = CopyHome
         \/ \E a \in Allocators : h = DeallocHome(a)
         \/ \E a \in Allocators, n \in Sizes : h = PoolHome(a, n)
  BY DEF Homes, PoolHomes

\* A block is taken from the front of a queue and handed to a caller.
LEMMA TakeSound ==
  ASSUME NEW q \in BlockQueues, NEW r \in BlockQueues, NEW g \in Homes,
         NEW out, NEW sizes, SlotsDiffer(q), Accounted(q, out, sizes),
         Taken(q, r, g),
         NEW out2, \A x : x \in out2 <=> x \in out \/ x = Head(q[g])
  PROVE  SlotsDiffer(r) /\ Accounted(r, out2, sizes)
<1>1. Len(q[g]) \in Nat \ {0} /\ Head(q[g]) = q[g][1]
  BY DEF BlockQueues, Taken
<1>2. /\ Len(r[g]) = Len(q[g]) - 1
      /\ \A k \in 1 .. Len(r[g]) : r[g][k] = q[g][k + 1]
  BY DEF BlockQueues, Taken
<1>3. \A h \in Homes : h # g => r[h] = q[h]
  BY DEF Apart, Taken
<1>4. SlotsDiffer(r)
  <2>1. ASSUME NEW h \in Homes, NEW n \in Homes, NEW k \in 1 .. Len(r[h]),
               NEW l \in 1 .. Len(r[n]), r[h][k] = r[n][l]
        PROVE  h = n /\ k = l
    <3> DEFINE kk == IF h = g THEN k + 1 ELSE k
               ll == IF n = g THEN l + 1 ELSE l
    <3>1. kk \in 1 .. Len(q[h]) /\ q[h][kk] = r[h][k]
      <4>1. CASE h = g  BY <4>1, <1>1, <1>2
      <4>2. CASE h # g  BY <4>2, <1>3
      <4> QED  BY <4>1, <4>2
    <3>2. ll \in 1 .. Len(q[n]) /\ q[n][ll] = r[n][l]
      <4>1. CASE n = g  BY <4>1, <1>1, <1>2
      <4>2. CASE n # g  BY <4>2, <1>3
      <4> QED  BY <4>1, <4>2
    <3>3. h = n /\ kk = ll
      BY <3>1, <3>2, <2>1 DEF SlotsDiffer
    <3> QED
      BY <3>3
  <2> QED
    BY <2>1 DEF SlotsDiffer
<1>5. ASSUME NEW b PROVE Queued(r, b) <=> Queued(q, b) /\ b # Head(q[g])
  <2>1. ASSUME NEW h \in Homes, In(r[h], b) PROVE Queued(q, b) /\ b # Head(q[g])
    <3>1. PICK k \in 1 .. Len(r[h]) : r[h][k] = b
      BY <2>1 DEF In
    <3> DEFINE kk == IF h = g THEN k + 1 ELSE k
    <3>2. kk \in 1 .. Len(q[h]) /\ q[h][kk] = b /\ (h = g => kk # 1) /\ 1 \in 1 .. Len(q[g])
      <4>1. CASE h = g  BY <4>1, <1>1, <1>2, <3>1
      <4>2. CASE h # g  BY <4>2, <1>1, <1>3, <3>1
      <4> QED  BY <4>1, <4>2
    <3> HIDE DEF kk
    <3>3. Queued(q, b)
      BY <3>2 DEF Queued, In
    <3>4. b # q[g][1]
      BY <3>2 DEF SlotsDiffer
    <3> QED
      BY <1>1, <3>3, <3>4
  <2>2. ASSUME NEW h \in Homes, In(q[h], b), b # Head(q[g]) PROVE In(r[h], b)
    <3>1. PICK k \in 1 .. Len(q[h]) : q[h][k] = b
      BY <2>2 DEF In
    <3> DEFINE kk == IF h = g THEN k - 1 ELSE k
    <3>2. kk \in 1 .. Len(r[h]) /\ r[h][kk] = b
      <4>1. CASE h = g  BY <4>1, <1>1, <1>2, <2>2, <3>1
      <4>2. CASE h # g  BY <4>2, <1>3, <3>1
      <4> QED  BY <4>1, <4>2
    <3> QED
      BY <3>2 DEF In
  <2> QED
    BY <2>1, <2>2 DEF Queued
<1>6. Queued(q, Head(q[g]))
  <2>1. 1 \in 1 .. Len(q[g]) /\ q[g][1] = Head(q[g])
    BY <1>1
  <2> QED
    BY <2>1, Zenon DEF Queued, In
<1> QED
  BY <1>4, <1>5, <1>6 DEF Accounted

\* A block that was in no queue is put at the end of one.
LEMMA AppendSound ==
  ASSUME NEW q \in BlockQueues, NEW r \in BlockQueues, NEW g \in Homes, NEW b \in Blocks,
         NEW out, NEW sizes, SlotsDiffer(q), Accounted(q, out, sizes),
         ~Queued(q, b), Added(q, r, g, b),
         NEW out2, \A x : x \in out2 <=> x \in out /\ x # b,
         NEW sizes2, \A x \in Blocks : sizes2[x] # 0 <=> sizes[x] # 0 \/ x = b
  PROVE  SlotsDiffer(r) /\ Accounted(r, out2, sizes2)
<1>1. Len(q[g]) \in Nat
  BY DEF BlockQueues
<1>2. /\ Len(r[g]) = Len(q[g]) + 1
      /\ \A k \in 1 .. Len(q[g]) : r[g][k] = q[g][k]
      /\ r[g][Len(q[g]) + 1] = b
  BY DEF BlockQueues, Added
<1>3. \A h \in Homes : h # g => r[h] = q[h]
  BY DEF Apart, Added
<1>4. \A h \in Homes : \A k \in 1 .. Len(q[h]) : q[h][k] # b
  BY DEF Queued, In
<1> DEFINE New(h, k) == h = g /\ k = Len(q[g]) + 1
<1>5. ASSUME NEW h \in Homes, NEW k \in 1 .. Len(r[h])
      PROVE  /\ ~New(h, k) => k \in 1 .. Len(q[h]) /\ r[h][k] = q[h][k]
             /\ New(h, k) => r[h][k] = b
  BY <1>1, <1>2, <1>3
<1>6. SlotsDiffer(r)
  <2>1. ASSUME NEW h \in Homes, NEW n \in Homes, NEW k \in 1 .. Len(r[h]),
               NEW l \in 1 .. Len(r[n]), r[h][k] = r[n][l]
        PROVE  h = n /\ k = l
    <3>1. CASE New(h, k) /\ New(n, l)
      BY <3>1
    <3>2. CASE ~New(h, k) /\ New(n, l)
      <4>1. k \in 1 .. Len(q[h]) /\ q[h][k] = r[h][k] /\ r[n][l] = b
        BY <3>2, <1>5
      <4> QED
        BY <4>1, <1>4, <2>1
    <3>3. CASE New(h, k) /\ ~New(n, l)
      <4>1. l \in 1 .. Len(q[n]) /\ q[n][l] = r[n][l] /\ r[h][k] = b
        BY <3>3, <1>5
      <4> QED
        BY <4>1, <1>4, <2>1
    <3>4. CASE ~New(h, k) /\ ~New(n, l)
      BY <3>4, <1>5, <2>1 DEF SlotsDiffer
    <3> QED
      BY <3>1, <3>2, <3>3, <3>4
  <2> QED
    BY <2>1 DEF SlotsDiffer
<1>7. ASSUME NEW x PROVE Queued(r, x) <=> Queued(q, x) \/ x = b
  <2>1. ASSUME NEW h \in Homes, In(r[h], x) PROVE Queued(q, x) \/ x = b
    BY <1>5, <2>1 DEF In, Queued
  <2>2. ASSUME NEW h \in Homes, In(q[h], x) PROVE In(r[h], x)
    BY <1>1, <1>2, <1>3, <2>2 DEF In
  <2>3. In(r[g], b)
    BY <1>1, <1>2 DEF In
  <2> QED
    BY <2>1, <2>2, <2>3 DEF Queued
<1> QED
  BY <1>6, <1>7 DEF Accounted

\* The queues of some homes are emptied and their blocks freed.
LEMMA ClearSound ==
  ASSUME NEW q \in BlockQueues, NEW r \in BlockQueues, NEW homes \in SUBSET Homes,
         NEW out, NEW sizes, SlotsDiffer(q), Accounted(q, out, sizes),
         Emptied(q, r, homes),
         NEW sizes2,
         \A x \in Blocks : sizes2[x] # 0 <=> sizes[x] # 0 /\ ~\E h \in homes : In(q[h], x)
  PROVE  SlotsDiffer(r) /\ Accounted(r, out, sizes2)
<1>1. \A h \in homes : Len(r[h]) = 0
  BY DEF Emptied
<1>2. \A h \in Homes \ homes : r[h] = q[h]
  BY DEF Apart, Emptied
<1>3. SlotsDiffer(r)
  BY <1>1, <1>2 DEF SlotsDiffer
<1>4. ASSUME NEW x
      PROVE  Queued(r, x) <=> Queued(q, x) /\ ~\E h \in homes : In(q[h], x)
  <2>1. ASSUME NEW h \in Homes, In(r[h], x) PROVE h \notin homes /\ In(q[h], x)
    BY <1>1, <1>2, <2>1 DEF In
  <2>2. ASSUME NEW h \in Homes \ homes, In(r[h], x), NEW g \in homes PROVE ~In(q[g], x)
    BY <1>2, <2>2 DEF In, SlotsDiffer
  <2>3. ASSUME NEW h \in Homes, In(q[h], x), h \notin homes PROVE In(r[h], x)
    BY <1>2, <2>3
  <2> QED
    BY <2>1, <2>2, <2>3 DEF Queued
<1>5. \A b : (\E h \in homes : In(q[h], b)) => Queued(q, b)
  BY DEF Queued
<1> QED
  BY <1>3, <1>4, <1>5 DEF Accounted

\* A queue moves to a home that is empty.
LEMMA MoveSound ==
  ASSUME NEW q \in BlockQueues, NEW r \in BlockQueues, NEW g \in Homes, NEW f \in Homes, f # g,
         NEW out, NEW sizes, SlotsDiffer(q), Accounted(q, out, sizes),
         Moved(q, r, f, g)
  PROVE  SlotsDiffer(r) /\ Accounted(r, out, sizes)
<1>1. Len(q[g]) = 0 /\ Len(r[f]) = 0 /\ r[g] = q[f]
  BY DEF Moved
<1>2. \A h \in Homes : h # g /\ h # f => r[h] = q[h]
  BY DEF Apart, Moved
<1>3. SlotsDiffer(r)
  BY <1>1, <1>2 DEF SlotsDiffer
<1>4. \A x : Queued(r, x) <=> Queued(q, x)
  BY <1>1, <1>2 DEF Queued, In
<1> QED
  BY <1>3, <1>4 DEF Accounted

LEMMA QueuesApart ==
  ASSUME NEW p, NEW d, NEW c, NEW p2, NEW d2, NEW c2, NEW homes,
         c2 = c \/ CopyHome \in homes,
         \A a \in Allocators : d2[a] = d[a] \/ DeallocHome(a) \in homes,
         \A a \in Allocators, n \in Sizes : p2[a][n] = p[a][n] \/ PoolHome(a, n) \in homes
  PROVE  Apart(QueuesOf(p, d, c), QueuesOf(p2, d2, c2), homes)
<1> SUFFICES ASSUME NEW h \in Homes \ homes
             PROVE  QueuesOf(p, d, c)[h] = QueuesOf(p2, d2, c2)[h]
  BY DEF Apart
<1>1. CASE h = CopyHome
  BY <1>1, QueuesAt
<1>2. ASSUME NEW a \in Allocators, h = DeallocHome(a)
      PROVE  QueuesOf(p, d, c)[h] = QueuesOf(p2, d2, c2)[h]
  BY <1>2, QueuesAt
<1>3. ASSUME NEW a \in Allocators, NEW n \in Sizes, h = PoolHome(a, n)
      PROVE  QueuesOf(p, d, c)[h] = QueuesOf(p2, d2, c2)[h]
  BY <1>3, QueuesAt
<1> QED
  BY <1>1, <1>2, <1>3, HomeCases

Pools == [Allocators -> [Sizes -> Seq(Blocks)]]
Deallocs == [Allocators -> Seq(Blocks)]

LEMMA QueuesTyped ==
  ASSUME NEW p \in Pools, NEW d \in Deallocs, NEW c \in Seq(Blocks)
  PROVE  QueuesOf(p, d, c) \in BlockQueues
<1>1. \A h \in Homes : QueuesOf(p, d, c)[h] \in Seq(Blocks)
  BY HomeCases, QueuesAt DEF Pools, Deallocs
<1> QED
  BY <1>1 DEF QueuesOf, BlockQueues

-----------------------------------------------------------------------------
(* Types.                                                                  *)

ThreadType == [pc : {"start", "check", "toWait", "waiting", "woken", "drain",
                     "fill", "free", "exited"},
               i : 0 .. MaxCount, j : Nat, copy : Seq(Blocks)]
ClientType == [pc : {"idle", "new", "push", "signal"}, for : Allocators, n : 0 .. MaxCount + 1]

LEMMA Bounds ==
  /\ MaxCount \in Nat \ {0}
  /\ MaxPointers \in Nat \ {0}
  /\ 1 \in Sizes
  /\ \A n \in Sizes : n \in 1 .. MaxCount + 1
  /\ Idle \in ClientType
<1>1. MaxCount \in Nat \ {0} /\ MaxPointers \in Nat \ {0}
  BY MemoryAllocationAssumption
<1>2. 1 \in Sizes /\ \A n \in Sizes : n \in 1 .. MaxCount + 1
  BY <1>1 DEF Sizes
<1>3. Idle \in ClientType
  BY <1>1, MemoryAllocationAssumption DEF Idle, ClientType
<1> QED
  BY <1>1, <1>2, <1>3

LEMMA InitTyped == Init => TypeOK
  BY Bounds DEF Init, TypeOK, ClientType

LEMMA FreedTyped ==
  ASSUME heap \in [Blocks -> 0 .. MaxCount + 1], NEW S
  PROVE  Freed(S) \in [Blocks -> 0 .. MaxCount + 1]
  BY Bounds DEF Freed

LEMMA HandedTyped ==
  ASSUME TypeOK, NEW b \in Blocks, NEW n \in 1 .. MaxCount + 1
  PROVE  /\ DOMAIN Handed(b, n) = DOMAIN held \cup {b}
         /\ \A x \in DOMAIN held \cup {b} : Handed(b, n)[x] = IF x = b THEN n ELSE held[x]
         /\ DOMAIN Handed(b, n) \subseteq Blocks
         /\ \A x \in DOMAIN Handed(b, n) : Handed(b, n)[x] \in 1 .. MaxCount + 1
  BY DEF Handed, TypeOK

\* A client that is about to allocate asks for one of the sizes.
LEMMA ClientStepTyped ==
  ASSUME TypeOK, Requests, NEW c \in Clients, ClientRuns(c)
  PROVE  TypeOK' /\ Requests'
<1> USE DEF TypeOK, Requests
<1>1. client[c] \in ClientType /\ Idle \in ClientType
  BY Bounds DEF ClientType
<1>2. CASE AllocateNew(c)
  <2>1. client[c].n \in 1 .. MaxCount + 1
    <3>1. client[c].n \in 0 .. MaxCount + 1
      BY <1>1 DEF ClientType
    <3>2. client[c].n # 0
      BY <1>2 DEF AllocateNew
    <3> QED
      BY <3>1, <3>2, Bounds
  <2>2. PICK b \in Blocks : NewBlock(client[c].n, b) /\ held' = Handed(b, client[c].n)
    BY <1>2 DEF AllocateNew
  <2>3. heap' \in [Blocks -> 0 .. MaxCount + 1]
    BY <2>1, <2>2 DEF NewBlock
  <2>4. DOMAIN held' \subseteq Blocks /\ \A x \in DOMAIN held' : held'[x] \in 1 .. MaxCount + 1
    BY <2>1, <2>2, HandedTyped
  <2>5. client' \in [Clients -> ClientType]
    BY <1>1, <1>2 DEF AllocateNew, ClientType
  <2>6. Requests'
    BY <1>1, <1>2 DEF AllocateNew, ClientType, Idle
  <2> QED
    BY <1>2, <2>3, <2>4, <2>5, <2>6 DEF AllocateNew, ClientType
<1>3. CASE Push(c)
  <2>1. client' \in [Clients -> ClientType] /\ Requests'
    BY <1>1, <1>3 DEF Push, ClientType
  <2>2. client[c].for \in Allocators
    BY <1>1 DEF ClientType
  <2>3. events' \in Seq(Allocators)
    BY <1>3, <2>2 DEF Push
  <2> QED
    BY <1>3, <2>1, <2>3 DEF Push, ClientType
<1>4. CASE Signal(c)
  <2>1. client' \in [Clients -> ClientType] /\ Requests'
    BY <1>1, <1>4 DEF Signal, ClientType, Idle
  <2>2. thread' \in ThreadType
    BY <1>4 DEF Signal, At, ThreadType
  <2> QED
    BY <1>4, <2>1, <2>2 DEF Signal, ClientType, ThreadType
<1> QED
  BY <1>2, <1>3, <1>4 DEF ClientRuns

\* A client is where it was or at a request.
LEMMA ClientTyped ==
  ASSUME TypeOK, Requests, NEW c \in Clients, NEW q \in ClientType, q.pc = "new" => q.n # 0,
         client' = [client EXCEPT ![c] = q]
  PROVE  client' \in [Clients -> ClientType] /\ Requests'
<1>1. client \in [Clients -> ClientType]
  BY DEF TypeOK, ClientType
<1>2. client' \in [Clients -> ClientType] /\ client'[c] = q
      /\ \A d \in Clients : d # c => client'[d] = client[d]
  BY <1>1
<1> QED
  BY <1>2 DEF Requests

LEMMA CallStepTyped ==
  ASSUME TypeOK, Requests, NEW c \in Clients, NEW a \in Allocators,
         \/ Register(c, a) \/ Unregister(c, a)
         \/ \E n \in 1 .. MaxCount + 1 : AllocateFromPool(c, a, n) \/ AllocateUnlocks(c, a, n)
         \/ \E b \in Blocks : Deallocate(c, a, b)
  PROVE  TypeOK' /\ Requests'
<1> USE DEF TypeOK, Requests
<1>1. CASE Register(c, a) \/ Unregister(c, a)
  BY <1>1 DEF Register, Unregister
<1>2. ASSUME NEW n \in 1 .. MaxCount + 1, AllocateFromPool(c, a, n) PROVE TypeOK' /\ Requests'
  <2>1. n \in Sizes /\ pool[a][n] # <<>> /\ Stock(a, n) = pool[a][n]
    BY <1>2, Bounds DEF AllocateFromPool, Stock, Sizes
  <2>2. Head(pool[a][n]) \in Blocks
    BY <2>1
  <2>3. pool' \in Pools
    <3>1. Tail(pool[a][n]) \in Seq(Blocks)
      BY <2>1
    <3> QED
      BY <1>2, <2>1, <3>1 DEF AllocateFromPool, Pools
  <2>4. DOMAIN held' \subseteq Blocks /\ \A x \in DOMAIN held' : held'[x] \in 1 .. MaxCount + 1
    BY <1>2, <2>1, <2>2, HandedTyped DEF AllocateFromPool
  <2>5. client' \in [Clients -> ClientType] /\ Requests'
    <3>1. PICK q : q = [pc |-> "push", for |-> a, n |-> n]
      OBVIOUS
    <3>2. q \in ClientType /\ q.pc # "new"
      BY <3>1, Bounds DEF ClientType
    <3> QED
      BY <1>2, <3>1, <3>2, ClientTyped DEF AllocateFromPool
  <2> QED
    BY <1>2, <2>3, <2>4, <2>5 DEF AllocateFromPool, ClientType, Pools
<1>3. ASSUME NEW n \in 1 .. MaxCount + 1, AllocateUnlocks(c, a, n) PROVE TypeOK' /\ Requests'
  <2>1. client' \in [Clients -> ClientType] /\ Requests'
    <3>1. PICK q : q = [pc |-> "new", for |-> a, n |-> n]
      OBVIOUS
    <3>2. q \in ClientType /\ q.n # 0
      BY <3>1, Bounds DEF ClientType
    <3> QED
      BY <1>3, <3>1, <3>2, ClientTyped DEF AllocateUnlocks
  <2> QED
    BY <1>3, <2>1 DEF AllocateUnlocks, ClientType
<1>4. ASSUME NEW b \in Blocks, Deallocate(c, a, b) PROVE TypeOK' /\ Requests'
  <2>1. client' \in [Clients -> ClientType] /\ Requests'
    <3>1. PICK q : q = [pc |-> "push", for |-> a, n |-> 0]
      OBVIOUS
    <3>2. q \in ClientType /\ q.pc # "new"
      BY <3>1, Bounds DEF ClientType
    <3> QED
      BY <1>4, <3>1, <3>2, ClientTyped DEF Deallocate
  <2>2. dealloc' \in [Allocators -> Seq(Blocks)]
    BY <1>4 DEF Deallocate
  <2>3. heap' \in [Blocks -> 0 .. MaxCount + 1]
    BY <1>4, FreedTyped DEF Deallocate
  <2> QED
    BY <1>4, <2>1, <2>2, <2>3 DEF Deallocate, ClientType
<1> QED
  BY <1>1, <1>2, <1>3, <1>4

LEMMA OtherStepTyped ==
  ASSUME TypeOK, Requests,
         ThreadRuns \/ WakeSpuriously \/ SetStop \/ NotifyStop \/ \E a \in Allocators : DestroyAllocator(a),
         CallbackRuns, FillCounts
  PROVE  TypeOK' /\ Requests'
<1> USE DEF TypeOK, Requests
<1>1. thread \in ThreadType
  BY DEF ThreadType
<1>2. CASE ThreadStart \/ CheckStop \/ Wait \/ Wake \/ WakeSpuriously
  <2>1. thread' \in ThreadType
    BY <1>1, <1>2 DEF ThreadStart, CheckStop, Wait, Wake, WakeSpuriously, At, ThreadType
  <2> QED
    BY <1>2, <2>1 DEF ThreadStart, CheckStop, Wait, Wake, WakeSpuriously, ThreadType
<1>3. CASE TakeEvent
  <2>1. thread' \in ThreadType
    <3>1. CASE thread' = At("check") \/ thread' = thread
      BY <1>1, <3>1 DEF At, ThreadType
    <3>2. CASE /\ events # <<>>
               /\ thread' = [pc |-> "fill", i |-> 1, j |-> Len(pool[Head(events)][1]),
                             copy |-> dealloc[Head(events)]]
      <4>1. /\ Head(events) \in Allocators
            /\ 1 \in 0 .. MaxCount
        BY <3>2, Bounds DEF Sizes
      <4>2. dealloc[Head(events)] \in Seq(Blocks) /\ Len(pool[Head(events)][1]) \in Nat
        BY <4>1, Bounds
      <4> QED
        BY <3>2, <4>1, <4>2 DEF ThreadType
    <3> QED
      BY <1>3, <3>1, <3>2 DEF TakeEvent
  <2>2. dealloc' \in Deallocs /\ events' \in Seq(Allocators)
    <3>1. /\ dealloc' = dealloc \/ dealloc' = [dealloc EXCEPT ![Head(events)] = <<>>]
          /\ events' = events \/ (events # <<>> /\ events' = Tail(events))
      BY <1>3 DEF TakeEvent
    <3>2. dealloc \in [Allocators -> Seq(Blocks)] /\ events \in Seq(Allocators)
      OBVIOUS
    <3> HIDE DEF TypeOK, Requests
    <3>3. [dealloc EXCEPT ![Head(events)] = <<>>] \in [Allocators -> Seq(Blocks)]
      <4>1. \A x : x \in Seq(Blocks) => [dealloc EXCEPT ![Head(events)] = x] \in [Allocators -> Seq(Blocks)]
        BY <3>2
      <4>2. <<>> \in Seq(Blocks)
        OBVIOUS
      <4> QED
        BY <4>1, <4>2, Zenon
    <3>4. events # <<>> => Tail(events) \in Seq(Allocators)
      BY <3>2
    <3>5. dealloc' \in Deallocs /\ events' \in Seq(Allocators)
      BY <3>1, <3>2, <3>3, <3>4 DEF Deallocs
    <3> QED
      BY <3>5
  <2> QED
    BY <1>3, <2>1, <2>2 DEF TakeEvent, ThreadType, Deallocs
<1>4. CASE Fill
  <2>1. thread.i \in Sizes /\ Head(events) \in Allocators
    BY <1>4 DEF Fill, CallbackRuns, FillCounts
  <2>2. PICK b \in Blocks : /\ NewBlock(thread.i, b)
                            /\ pool' = [pool EXCEPT ![Head(events)][thread.i] = Append(@, b)]
    BY <1>4 DEF Fill
  <2>3. heap' \in [Blocks -> 0 .. MaxCount + 1]
    BY <2>1, <2>2, Bounds DEF NewBlock
  <2>4. pool' \in Pools
    BY <2>1, <2>2 DEF Pools
  <2>5. thread' \in ThreadType
    <3>1. thread.j + 1 \in Nat
      BY <1>1 DEF ThreadType
    <3> QED
      BY <1>1, <1>4, <3>1 DEF Fill, ThreadType
  <2> QED
    BY <1>4, <2>3, <2>4, <2>5 DEF Fill, ThreadType, Pools
<1>5. CASE NextSize
  <2>1. thread' \in ThreadType
    <3>1. CASE thread.i < MaxCount
      <4>1. thread.i + 1 \in Sizes /\ thread.i + 1 \in 0 .. MaxCount /\ Head(events) \in Allocators
        BY <1>1, <1>5, <3>1, Bounds DEF NextSize, CallbackRuns, Sizes, ThreadType
      <4>2. Len(pool[Head(events)][thread.i + 1]) \in Nat
        BY <4>1
      <4> QED
        BY <1>1, <1>5, <3>1, <4>1, <4>2 DEF NextSize, ThreadType
    <3>2. CASE ~(thread.i < MaxCount)
      BY <1>1, <1>5, <3>2 DEF NextSize, ThreadType
    <3> QED
      BY <3>1, <3>2
  <2> QED
    BY <1>5, <2>1 DEF NextSize, ThreadType
<1>6. CASE FreeCopy
  <2>1. heap' \in [Blocks -> 0 .. MaxCount + 1]
    BY <1>6, FreedTyped DEF FreeCopy
  <2>2. events' \in Seq(Allocators)
    BY <1>6 DEF FreeCopy, CallbackRuns
  <2>3. thread' \in ThreadType
    BY <1>6, Bounds DEF FreeCopy, ThreadType
  <2> QED
    BY <1>6, <2>1, <2>2, <2>3 DEF FreeCopy, ThreadType
<1>7. CASE SetStop \/ NotifyStop
  <2>1. thread' \in ThreadType
    BY <1>1, <1>7 DEF SetStop, NotifyStop, At, ThreadType
  <2> QED
    BY <1>7, <2>1 DEF SetStop, NotifyStop, ThreadType
<1>8. ASSUME NEW a \in Allocators, DestroyAllocator(a) PROVE TypeOK' /\ Requests'
  <2>1. heap' \in [Blocks -> 0 .. MaxCount + 1]
    BY <1>8, FreedTyped DEF DestroyAllocator
  <2>2. pool' \in Pools /\ dealloc' \in Deallocs
    BY <1>8 DEF DestroyAllocator, Pools, Deallocs
  <2> QED
    BY <1>8, <2>1, <2>2 DEF DestroyAllocator, Pools, Deallocs
<1> QED
  BY <1>2, <1>3, <1>4, <1>5, <1>6, <1>7, <1>8 DEF ThreadRuns

-----------------------------------------------------------------------------
(* The steps that move blocks.                                             *)

QueuesNext == QueuesOf(pool', dealloc', thread'.copy)

LEMMA QueuesPrimed == Queues' = QueuesNext
  BY DEF Queues, QueuesNext

LEMMA QueuesKinds ==
  ASSUME TypeOK
  PROVE  /\ Queues \in BlockQueues
         /\ Queues[CopyHome] = thread.copy
         /\ \A a \in Allocators : Queues[DeallocHome(a)] = dealloc[a]
         /\ \A a \in Allocators, n \in Sizes : Queues[PoolHome(a, n)] = pool[a][n]
<1>1. pool \in Pools /\ dealloc \in Deallocs /\ thread.copy \in Seq(Blocks)
  BY DEF TypeOK, Pools, Deallocs
<1>2. Queues \in BlockQueues
  BY <1>1, QueuesTyped DEF Queues
<1> QED
  BY <1>2, QueuesAt DEF Queues

LEMMA QueuesNextKinds ==
  ASSUME TypeOK'
  PROVE  /\ QueuesNext \in BlockQueues
         /\ QueuesNext[CopyHome] = thread'.copy
         /\ \A a \in Allocators : QueuesNext[DeallocHome(a)] = dealloc'[a]
         /\ \A a \in Allocators, n \in Sizes : QueuesNext[PoolHome(a, n)] = pool'[a][n]
<1>1. pool' \in Pools /\ dealloc' \in Deallocs /\ thread'.copy \in Seq(Blocks)
  BY DEF TypeOK, Pools, Deallocs
<1>2. QueuesNext \in BlockQueues
  BY <1>1, QueuesTyped DEF QueuesNext
<1> QED
  BY <1>2, QueuesAt DEF QueuesNext

\* The blocks of a queue are in it, and allocated.
LEMMA QueuedInHome ==
  ASSUME TypeOK, BlocksOnce, NEW b \in Blocks
  PROVE  /\ In(thread.copy, b) => Queued(Queues, b)
         /\ \A a \in Allocators : In(dealloc[a], b) => Queued(Queues, b)
         /\ \A a \in Allocators, n \in Sizes : In(pool[a][n], b) => Queued(Queues, b)
         /\ Queued(Queues, b) => heap[b] # 0
<1>1. /\ In(thread.copy, b) => Queued(Queues, b)
      /\ \A a \in Allocators : In(dealloc[a], b) => Queued(Queues, b)
      /\ \A a \in Allocators, n \in Sizes : In(pool[a][n], b) => Queued(Queues, b)
  BY QueuesKinds, HomesDiffer DEF Queued
<1> QED
  BY <1>1 DEF BlocksOnce, Accounted

LEMMA RangeIsIn ==
  ASSUME NEW s \in Seq(Blocks), NEW b PROVE b \in Range(s) <=> In(s, b)
  BY DEF Range, In

\* Nothing moves.
LEMMA QuietStep ==
  ASSUME IInv, UNCHANGED <<heap, held, pool, dealloc>>, thread'.copy = thread.copy
  PROVE  BlocksOnce' /\ SizesFit' /\ QueuesBounded'
<1>1. Queues' = Queues
  BY DEF Queues
<1> QED
  BY <1>1 DEF IInv, BlocksOnce, SizesFit, QueuesBounded

\* The sizes fit still when no block in use has changed its size, except for a new
\* one, and the stock has lost blocks at most.
LEMMA SizesStep ==
  ASSUME IInv, TypeOK', BlocksOnce',
         \A x \in Blocks : heap'[x] # 0 => heap'[x] = heap[x],
         \A a \in Allocators, n \in Sizes : \A x \in Blocks : In(pool'[a][n], x) => In(pool[a][n], x),
         \A x \in DOMAIN held' : x \in DOMAIN held /\ held'[x] = held[x]
  PROVE  SizesFit'
<1>1. ASSUME NEW a \in Allocators, NEW n \in Sizes, NEW x \in Blocks, In(pool'[a][n], x)
      PROVE  heap'[x] = n
  <2>1. heap'[x] # 0
    <3>1. QueuesNext[PoolHome(a, n)] = pool'[a][n] /\ PoolHome(a, n) \in Homes
      BY QueuesNextKinds, HomesDiffer
    <3>2. Queued(QueuesNext, x)
      BY <1>1, <3>1 DEF Queued
    <3> QED
      BY <3>2, QueuesPrimed DEF BlocksOnce, Accounted
  <2> QED
    BY <1>1, <2>1 DEF IInv, SizesFit
<1>2. ASSUME NEW x \in DOMAIN held' PROVE heap'[x] >= held'[x]
  <2>1. x \in Blocks /\ heap'[x] # 0
    BY DEF TypeOK, BlocksOnce, Accounted
  <2> QED
    BY <2>1 DEF IInv, SizesFit
<1> QED
  BY <1>1, <1>2 DEF SizesFit

LEMMA TakeStep ==
  ASSUME IInv, TypeOK', NEW c \in Clients, NEW a \in Allocators, NEW n \in 1 .. MaxCount + 1,
         AllocateFromPool(c, a, n)
  PROVE  BlocksOnce' /\ SizesFit' /\ QueuesBounded' /\ CallbackRuns' /\ FillCounts'
<1>1. n \in Sizes /\ pool[a][n] # <<>> /\ Stock(a, n) = pool[a][n]
  BY Bounds DEF AllocateFromPool, Stock, Sizes
<1> DEFINE b == Head(pool[a][n])
<1>2. /\ pool' = [pool EXCEPT ![a][n] = Tail(pool[a][n])]
      /\ UNCHANGED <<heap, dealloc, life, callbacks, events, thread>>
      /\ held' = Handed(b, n)
  BY <1>1 DEF AllocateFromPool
<1>3. /\ pool'[a][n] = Tail(pool[a][n])
      /\ \A d \in Allocators, m \in Sizes : <<d, m>> # <<a, n>> => pool'[d][m] = pool[d][m]
  BY <1>1, <1>2 DEF IInv, TypeOK
<1>4. pool[a][n] \in Seq(Blocks) /\ b \in Blocks /\ In(pool[a][n], b)
  <2>1. pool[a][n] \in Seq(Blocks)
    BY <1>1 DEF IInv, TypeOK
  <2>2. b \in Blocks /\ 1 \in 1 .. Len(pool[a][n]) /\ pool[a][n][1] = b
    BY <1>1, <2>1
  <2> QED
    BY <2>1, <2>2 DEF In
<1>5. /\ Len(Tail(pool[a][n])) <= Len(pool[a][n])
      /\ \A x : In(Tail(pool[a][n]), x) => In(pool[a][n], x)
  BY <1>1, <1>4 DEF In
<1>6. /\ DOMAIN held' = DOMAIN held \cup {b}
      /\ \A x \in DOMAIN held' : held'[x] = IF x = b THEN n ELSE held[x]
  <2> HIDE DEF b
  <2>1. TypeOK
    BY DEF IInv
  <2>2. /\ DOMAIN Handed(b, n) = DOMAIN held \cup {b}
        /\ \A x \in DOMAIN held \cup {b} : Handed(b, n)[x] = IF x = b THEN n ELSE held[x]
    BY <1>4, <2>1, HandedTyped
  <2> QED
    BY <1>2, <2>2
<1> HIDE DEF b
<1>7. BlocksOnce'
  <2>1. Taken(Queues, QueuesNext, PoolHome(a, n))
    <3>1. Apart(Queues, QueuesNext, {PoolHome(a, n)})
      <4>1. \A d \in Allocators, m \in Sizes :
               pool'[d][m] = pool[d][m] \/ PoolHome(d, m) \in {PoolHome(a, n)}
        BY <1>3
      <4>2. thread'.copy = thread.copy /\ \A d \in Allocators : dealloc'[d] = dealloc[d]
        BY <1>2
      <4> QED
        BY <4>1, <4>2, QueuesApart DEF Queues, QueuesNext
    <3> QED
      BY <1>1, <1>3, <3>1, QueuesKinds, QueuesNextKinds DEF Taken, IInv
  <2>2. /\ Queues \in BlockQueues /\ QueuesNext \in BlockQueues /\ PoolHome(a, n) \in Homes
        /\ Head(Queues[PoolHome(a, n)]) = b
    BY <1>1, QueuesKinds, QueuesNextKinds, HomesDiffer DEF IInv, b
  <2>3. SlotsDiffer(QueuesNext) /\ Accounted(QueuesNext, DOMAIN held', heap)
    BY <1>6, <2>1, <2>2, TakeSound DEF IInv, BlocksOnce
  <2> QED
    BY <1>2, <2>3, QueuesPrimed DEF BlocksOnce
<1>8. SizesFit'
  <2>1. ASSUME NEW d \in Allocators, NEW m \in Sizes, NEW x \in Blocks, In(pool'[d][m], x)
        PROVE  heap'[x] = m
    BY <1>2, <1>3, <1>5, <2>1 DEF IInv, SizesFit
  <2>2. heap[b] = n
    BY <1>1, <1>4 DEF IInv, SizesFit
  <2>3. ASSUME NEW x \in DOMAIN held' PROVE heap'[x] >= held'[x]
    BY <1>1, <1>2, <1>6, <2>2 DEF IInv, SizesFit, Sizes
  <2> QED
    BY <2>1, <2>3 DEF SizesFit
<1>9. ASSUME NEW d \in Allocators, NEW m \in Sizes
      PROVE  Len(pool'[d][m]) <= Len(pool[d][m]) /\ Len(pool'[d][m]) \in Nat /\ Len(pool[d][m]) \in Nat
  <2>1. pool[d][m] \in Seq(Blocks) /\ pool'[d][m] \in Seq(Blocks)
    BY DEF IInv, TypeOK
  <2>2. Len(pool'[d][m]) <= Len(pool[d][m])
    <3>1. CASE <<d, m>> = <<a, n>>
      BY <3>1, <1>3, <1>5
    <3>2. CASE <<d, m>> # <<a, n>>
      BY <3>2, <1>3, <2>1
    <3> QED
      BY <3>1, <3>2
  <2> QED
    BY <2>1, <2>2
<1>10. QueuesBounded'
  BY <1>2, <1>9, Bounds DEF IInv, QueuesBounded
<1>11. CallbackRuns'
  BY <1>2 DEF IInv, CallbackRuns
<1>12. FillCounts'
  <2> SUFFICES ASSUME thread'.pc = "fill"
               PROVE  thread'.i \in Sizes /\ Len(pool'[Head(events')][thread'.i]) <= thread'.j
    BY DEF FillCounts
  <2>1. /\ thread.i \in Sizes /\ Head(events) \in Allocators /\ thread.j \in Nat
        /\ Len(pool[Head(events)][thread.i]) <= thread.j
    BY <1>2 DEF IInv, FillCounts, CallbackRuns, TypeOK
  <2> QED
    BY <1>2, <1>9, <2>1
<1> QED
  BY <1>7, <1>8, <1>10, <1>11, <1>12

LEMMA NewStep ==
  ASSUME IInv, TypeOK', NEW c \in Clients, AllocateNew(c)
  PROVE  BlocksOnce' /\ SizesFit' /\ QueuesBounded' /\ CallbackRuns' /\ FillCounts'
<1>1. PICK b \in Blocks : NewBlock(client[c].n, b) /\ held' = Handed(b, client[c].n)
  BY DEF AllocateNew
<1> DEFINE n == client[c].n
<1>2. n \in 1 .. MaxCount + 1 /\ n # 0
  <2>1. client[c].n \in 0 .. MaxCount + 1 /\ client[c].pc = "new"
    BY DEF AllocateNew, IInv, TypeOK
  <2>2. client[c].n # 0
    BY <2>1 DEF IInv, Requests
  <2> QED
    BY <2>1, <2>2, Bounds
<1> HIDE DEF n
<1>3. UNCHANGED <<pool, dealloc, life, callbacks, events, thread>>
  BY DEF AllocateNew
<1>4. heap[b] = 0 /\ heap'[b] = n /\ \A x \in Blocks : x # b => heap'[x] = heap[x]
  BY <1>1 DEF NewBlock, IInv, TypeOK, n
<1>5. /\ DOMAIN held' = DOMAIN held \cup {b}
      /\ \A x \in DOMAIN held' : held'[x] = IF x = b THEN n ELSE held[x]
  <2>1. TypeOK
    BY DEF IInv
  <2>2. /\ DOMAIN Handed(b, n) = DOMAIN held \cup {b}
        /\ \A x \in DOMAIN held \cup {b} : Handed(b, n)[x] = IF x = b THEN n ELSE held[x]
    BY <1>2, <2>1, HandedTyped
  <2> QED
    BY <1>1, <2>2 DEF n
<1>6. Queues' = Queues
  BY <1>3 DEF Queues
<1>7. BlocksOnce'
  BY <1>2, <1>4, <1>5, <1>6 DEF IInv, BlocksOnce, Accounted
<1>8. SizesFit'
  <2>1. ASSUME NEW a \in Allocators, NEW m \in Sizes, NEW x \in Blocks, In(pool[a][m], x)
        PROVE  heap'[x] = m
    BY <1>4, <2>1, QueuedInHome DEF IInv, SizesFit
  <2>2. ASSUME NEW x \in DOMAIN held' PROVE heap'[x] >= held'[x]
    BY <1>2, <1>4, <1>5 DEF IInv, SizesFit, TypeOK
  <2> QED
    BY <1>3, <2>1, <2>2 DEF SizesFit
<1> QED
  BY <1>3, <1>7, <1>8 DEF IInv, QueuesBounded, CallbackRuns, FillCounts

\* deallocate, with or without the drain of an overfull queue.
LEMMA GiveStep ==
  ASSUME IInv, TypeOK', NEW c \in Clients, NEW a \in Allocators, NEW b \in Blocks,
         Deallocate(c, a, b)
  PROVE  BlocksOnce' /\ SizesFit' /\ QueuesBounded' /\ CallbackRuns' /\ FillCounts'
<1> DEFINE kept == IF Overfull(a) THEN <<>> ELSE dealloc[a]
           mid == [Queues EXCEPT ![DeallocHome(a)] = kept]
<1>1. /\ b \in DOMAIN held
      /\ dealloc' = [dealloc EXCEPT ![a] = Append(kept, b)]
      /\ heap' = IF Overfull(a) THEN Freed(Range(dealloc[a])) ELSE heap
      /\ UNCHANGED <<pool, life, callbacks, events, thread>>
      /\ DOMAIN held' = DOMAIN held \ {b}
      /\ \A x \in DOMAIN held' : held'[x] = held[x]
  BY DEF Deallocate
<1>2. dealloc[a] \in Seq(Blocks) /\ kept \in Seq(Blocks)
  BY DEF IInv, TypeOK
<1>3. /\ \A d \in Allocators : d # a => dealloc'[d] = dealloc[d]
      /\ dealloc'[a] = Append(kept, b)
  BY <1>1 DEF IInv, TypeOK
<1>4. \A x \in Blocks : heap'[x] = IF Overfull(a) /\ In(dealloc[a], x) THEN 0 ELSE heap[x]
  BY <1>1, <1>2, RangeIsIn DEF Freed
<1>5. Len(kept) <= MaxPointers
  BY <1>2, Bounds DEF Overfull
<1>6. ~Overfull(a) => kept = dealloc[a]
  OBVIOUS
<1>7. Overfull(a) => kept = <<>>
  OBVIOUS
<1> HIDE DEF kept
<1> DEFINE home == DeallocHome(a)
<1>8. /\ Queues \in BlockQueues /\ QueuesNext \in BlockQueues /\ home \in Homes
      /\ Queues[home] = dealloc[a] /\ QueuesNext[home] = dealloc'[a]
  BY QueuesKinds, QueuesNextKinds, HomesDiffer DEF IInv
<1>9. Apart(Queues, QueuesNext, {home})
  BY <1>1, <1>3, QueuesApart DEF Queues, QueuesNext
<1> HIDE DEF home
<1>10. /\ mid \in BlockQueues
       /\ mid[home] = kept
       /\ \A h \in Homes : h # home => mid[h] = Queues[h]
  BY <1>2, <1>8 DEF BlockQueues, home
<1> HIDE DEF mid
<1>11. SlotsDiffer(mid) /\ Accounted(mid, DOMAIN held, heap')
  <2>1. CASE Overfull(a)
    <3>1. Emptied(Queues, mid, {home})
      BY <1>7, <1>10, <2>1 DEF Emptied, Apart
    <3>2. \A x \in Blocks : heap'[x] # 0 <=> heap[x] # 0 /\ ~\E h \in {home} : In(Queues[h], x)
      BY <1>4, <1>8, <2>1
    <3>3. {home} \in SUBSET Homes
      BY <1>8
    <3> QED
      BY <1>8, <1>10, <3>1, <3>2, <3>3, ClearSound DEF IInv, BlocksOnce
  <2>2. CASE ~Overfull(a)
    <3>1. mid = Queues
      BY <1>6, <1>8, <1>10, <2>2 DEF BlockQueues
    <3>2. heap' = heap
      BY <1>1, <2>2
    <3> QED
      BY <3>1, <3>2 DEF IInv, BlocksOnce
  <2> QED
    BY <2>1, <2>2
<1>12. BlocksOnce'
  <2>1. Added(mid, QueuesNext, home, b)
    BY <1>3, <1>8, <1>9, <1>10 DEF Added, Apart
  <2>2. ~Queued(mid, b) /\ heap'[b] # 0
    BY <1>1, <1>11 DEF Accounted
  <2>3. \A x \in Blocks : heap'[x] # 0 <=> heap'[x] # 0 \/ x = b
    BY <2>2
  <2>4. \A x : x \in DOMAIN held' <=> x \in DOMAIN held /\ x # b
    BY <1>1
  <2>5. SlotsDiffer(QueuesNext) /\ Accounted(QueuesNext, DOMAIN held', heap')
    BY <1>8, <1>10, <1>11, <2>1, <2>2, <2>3, <2>4, AppendSound
  <2> QED
    BY <2>5, QueuesPrimed DEF BlocksOnce
<1>13. SizesFit'
  BY <1>1, <1>4, <1>12, SizesStep
<1>14. QueuesBounded'
  <2>1. Len(Append(kept, b)) = Len(kept) + 1 /\ Len(kept) \in Nat
    BY <1>2
  <2>2. Len(dealloc'[a]) <= MaxPointers + 1
    BY <1>3, <1>5, <2>1, Bounds
  <2> QED
    BY <1>1, <1>3, <2>2 DEF IInv, QueuesBounded
<1> QED
  BY <1>1, <1>12, <1>13, <1>14 DEF IInv, CallbackRuns, FillCounts

\* The end of ~ConcurrentAllocator.
LEMMA DestroyStep ==
  ASSUME IInv, TypeOK', NEW a \in Allocators, DestroyAllocator(a)
  PROVE  BlocksOnce' /\ SizesFit' /\ QueuesBounded' /\ CallbackRuns' /\ FillCounts'
<1> DEFINE homes == {DeallocHome(a)} \cup PoolHomes(a)
<1>1. /\ life[a] = "leaving"
      /\ dealloc' = [dealloc EXCEPT ![a] = <<>>]
      /\ pool' = [pool EXCEPT ![a] = [n \in Sizes |-> <<>>]]
      /\ life' = [life EXCEPT ![a] = "gone"]
      /\ UNCHANGED <<held, callbacks, events, thread>>
  BY DEF DestroyAllocator
<1>2. /\ \A d \in Allocators : d # a => dealloc'[d] = dealloc[d] /\ pool'[d] = pool[d]
      /\ dealloc'[a] = <<>>
      /\ \A n \in Sizes : pool'[a][n] = <<>>
  BY <1>1 DEF IInv, TypeOK
<1>3. /\ Queues \in BlockQueues /\ QueuesNext \in BlockQueues
      /\ homes \in SUBSET Homes
      /\ \A h \in homes : h = DeallocHome(a) \/ \E n \in Sizes : h = PoolHome(a, n)
      /\ DeallocHome(a) \in homes
      /\ \A n \in Sizes : PoolHome(a, n) \in homes
  <2>1. \A h \in homes : h = DeallocHome(a) \/ \E n \in Sizes : h = PoolHome(a, n)
    BY DEF PoolHomes
  <2>2. DeallocHome(a) \in homes /\ \A n \in Sizes : PoolHome(a, n) \in homes
    BY DEF PoolHomes
  <2>3. homes \in SUBSET Homes
    BY <2>1, HomesDiffer
  <2> QED
    BY <2>1, <2>2, <2>3, QueuesKinds, QueuesNextKinds DEF IInv
<1> HIDE DEF homes
<1>4. \A x \in Blocks : heap'[x] =
         IF In(dealloc[a], x) \/ \E n \in Sizes : In(pool[a][n], x) THEN 0 ELSE heap[x]
  <2>1. dealloc[a] \in Seq(Blocks) /\ \A n \in Sizes : pool[a][n] \in Seq(Blocks)
    BY DEF IInv, TypeOK
  <2>2. heap' = Freed(Range(dealloc[a]) \cup UNION {Range(pool[a][n]) : n \in Sizes})
    BY DEF DestroyAllocator
  <2>3. \A x : x \in Range(dealloc[a]) \cup UNION {Range(pool[a][n]) : n \in Sizes}
                 <=> In(dealloc[a], x) \/ \E n \in Sizes : In(pool[a][n], x)
    BY <2>1, RangeIsIn
  <2> QED
    BY <2>2, <2>3 DEF Freed
<1>5. BlocksOnce'
  <2>1. Emptied(Queues, QueuesNext, homes)
    <3>1. Apart(Queues, QueuesNext, homes)
      <4>1. thread'.copy = thread.copy
        BY <1>1
      <4>2. \A d \in Allocators : dealloc'[d] = dealloc[d] \/ DeallocHome(d) \in homes
        BY <1>2, <1>3
      <4>3. \A d \in Allocators, n \in Sizes : pool'[d][n] = pool[d][n] \/ PoolHome(d, n) \in homes
        BY <1>2, <1>3
      <4> QED
        BY <4>1, <4>2, <4>3, QueuesApart DEF Queues, QueuesNext
    <3>2. \A h \in homes : QueuesNext[h] = <<>>
      BY <1>2, <1>3, QueuesNextKinds
    <3> QED
      BY <3>1, <3>2 DEF Emptied
  <2>2. \A x \in Blocks : heap'[x] # 0 <=> heap[x] # 0 /\ ~\E h \in homes : In(Queues[h], x)
    <3>1. ASSUME NEW x \in Blocks
          PROVE  (\E h \in homes : In(Queues[h], x)) <=>
                 In(dealloc[a], x) \/ \E n \in Sizes : In(pool[a][n], x)
      BY <1>3, QueuesKinds DEF IInv
    <3> QED
      BY <1>4, <3>1
  <2>3. SlotsDiffer(QueuesNext) /\ Accounted(QueuesNext, DOMAIN held, heap')
    BY <1>3, <2>1, <2>2, ClearSound DEF IInv, BlocksOnce
  <2> QED
    BY <1>1, <2>3, QueuesPrimed DEF BlocksOnce
<1>6. SizesFit'
  <2>1. \A d \in Allocators, n \in Sizes : \A x \in Blocks : In(pool'[d][n], x) => In(pool[d][n], x)
    BY <1>2 DEF In
  <2> QED
    BY <1>1, <1>4, <1>5, <2>1, SizesStep
<1>7. QueuesBounded'
  BY <1>2, Bounds DEF IInv, QueuesBounded
<1>8. CallbackRuns'
  BY <1>1 DEF IInv, CallbackRuns, TypeOK
<1>9. FillCounts'
  BY <1>1, <1>2 DEF IInv, FillCounts, CallbackRuns
<1> QED
  BY <1>5, <1>6, <1>7, <1>8, <1>9

\* A callback starts: the queue of blocks to free becomes the thread's copy.
LEMMA SwapStep ==
  ASSUME IInv, TypeOK', events # <<>>, Head(events) \in callbacks, thread.pc = "drain",
         thread' = [pc |-> "fill", i |-> 1, j |-> Len(pool[Head(events)][1]),
                    copy |-> dealloc[Head(events)]],
         dealloc' = [dealloc EXCEPT ![Head(events)] = <<>>],
         UNCHANGED <<heap, held, pool, life, callbacks, events>>
  PROVE  BlocksOnce' /\ SizesFit' /\ QueuesBounded' /\ CallbackRuns' /\ FillCounts'
<1> DEFINE a == Head(events)
<1>1. a \in Allocators
  BY DEF IInv, CallbackRuns
<1>2. /\ thread'.copy = dealloc[a] /\ thread.copy = <<>>
      /\ dealloc'[a] = <<>>
      /\ \A d \in Allocators : d # a => dealloc'[d] = dealloc[d]
  BY <1>1 DEF IInv, CallbackRuns, TypeOK
<1> HIDE DEF a
<1>3. BlocksOnce'
  <2>1. /\ Queues \in BlockQueues /\ QueuesNext \in BlockQueues
        /\ CopyHome \in Homes /\ DeallocHome(a) \in Homes /\ DeallocHome(a) # CopyHome
    BY <1>1, QueuesKinds, QueuesNextKinds, HomesDiffer DEF IInv
  <2>2. Moved(Queues, QueuesNext, DeallocHome(a), CopyHome)
    <3>1. Apart(Queues, QueuesNext, {CopyHome, DeallocHome(a)})
      BY <1>2, QueuesApart DEF Queues, QueuesNext
    <3> QED
      BY <1>1, <1>2, <3>1, QueuesKinds, QueuesNextKinds DEF Moved, IInv
  <2>3. SlotsDiffer(QueuesNext) /\ Accounted(QueuesNext, DOMAIN held, heap)
    BY <2>1, <2>2, MoveSound DEF IInv, BlocksOnce
  <2> QED
    BY <2>3, QueuesPrimed DEF BlocksOnce
<1>4. SizesFit'
  BY DEF IInv, SizesFit
<1>5. QueuesBounded'
  BY <1>2, Bounds DEF IInv, QueuesBounded
<1>6. CallbackRuns' /\ FillCounts'
  <2>1. Len(pool[a][1]) \in Nat
    BY <1>1, Bounds DEF IInv, TypeOK
  <2>2. thread'.pc = "fill" /\ thread'.i = 1 /\ thread'.j = Len(pool[a][1])
    BY DEF a
  <2> QED
    BY <2>1, <2>2, Bounds DEF IInv, CallbackRuns, FillCounts, a
<1> QED
  BY <1>3, <1>4, <1>5, <1>6

\* The thread puts a new block in stock.
LEMMA FillStep ==
  ASSUME IInv, TypeOK', Fill
  PROVE  BlocksOnce' /\ SizesFit' /\ QueuesBounded' /\ CallbackRuns' /\ FillCounts'
<1> DEFINE a == Head(events)
           n == thread.i
<1>1. /\ a \in Allocators /\ n \in Sizes /\ n # 0
      /\ thread.pc = "fill" /\ Len(pool[a][n]) <= thread.j /\ thread.j < MaxPointers
      /\ UNCHANGED <<held, dealloc, life, callbacks, events>>
      /\ thread'.pc = thread.pc /\ thread'.i = thread.i /\ thread'.copy = thread.copy
      /\ thread'.j = thread.j + 1
  BY DEF Fill, Wanted, IInv, CallbackRuns, FillCounts, TypeOK, Sizes
<1>2. PICK b \in Blocks : NewBlock(n, b) /\ pool' = [pool EXCEPT ![a][n] = Append(@, b)]
  BY DEF Fill
<1>3. /\ heap[b] = 0 /\ heap'[b] = n /\ \A x \in Blocks : x # b => heap'[x] = heap[x]
      /\ pool[a][n] \in Seq(Blocks)
      /\ pool'[a][n] = Append(pool[a][n], b)
      /\ \A d \in Allocators, m \in Sizes : <<d, m>> # <<a, n>> => pool'[d][m] = pool[d][m]
  BY <1>1, <1>2 DEF NewBlock, IInv, TypeOK
<1>4. thread.j \in Nat
  BY DEF IInv, TypeOK
<1> HIDE DEF a, n
<1>5. ~Queued(Queues, b) /\ b \notin DOMAIN held
  BY <1>3 DEF IInv, BlocksOnce, Accounted
<1>6. BlocksOnce'
  <2>1. /\ Queues \in BlockQueues /\ QueuesNext \in BlockQueues /\ PoolHome(a, n) \in Homes
    BY <1>1, QueuesKinds, QueuesNextKinds, HomesDiffer DEF IInv
  <2>2. Added(Queues, QueuesNext, PoolHome(a, n), b)
    <3>1. Apart(Queues, QueuesNext, {PoolHome(a, n)})
      BY <1>1, <1>3, QueuesApart DEF Queues, QueuesNext
    <3> QED
      BY <1>1, <1>3, <3>1, QueuesKinds, QueuesNextKinds DEF Added, IInv
  <2>3. \A x \in Blocks : heap'[x] # 0 <=> heap[x] # 0 \/ x = b
    BY <1>1, <1>3
  <2>4. \A x : x \in DOMAIN held <=> x \in DOMAIN held /\ x # b
    BY <1>5
  <2>5. SlotsDiffer(QueuesNext) /\ Accounted(QueuesNext, DOMAIN held, heap')
    BY <1>5, <2>1, <2>2, <2>3, <2>4, AppendSound DEF IInv, BlocksOnce
  <2> QED
    BY <1>1, <2>5, QueuesPrimed DEF BlocksOnce
<1>7. SizesFit'
  <2>1. \A x : In(Append(pool[a][n], b), x) => In(pool[a][n], x) \/ x = b
    BY <1>3 DEF In
  <2>2. ASSUME NEW d \in Allocators, NEW m \in Sizes, NEW x \in Blocks, In(pool'[d][m], x)
        PROVE  heap'[x] = m
    <3>1. CASE x = b /\ <<d, m>> = <<a, n>>
      BY <1>3, <3>1
    <3>2. CASE In(pool[d][m], x)
      BY <1>3, <3>2, QueuedInHome DEF IInv, SizesFit
    <3> QED
      BY <1>3, <2>1, <2>2, <3>1, <3>2
  <2>3. ASSUME NEW x \in DOMAIN held' PROVE heap'[x] >= held'[x]
    BY <1>1, <1>3, <1>5 DEF IInv, SizesFit, TypeOK
  <2> QED
    BY <2>2, <2>3 DEF SizesFit
<1>8. Len(pool'[a][n]) = Len(pool[a][n]) + 1 /\ Len(pool[a][n]) \in Nat
  BY <1>3
<1>9. QueuesBounded'
  <2>1. ASSUME NEW d \in Allocators, NEW m \in Sizes PROVE Len(pool'[d][m]) <= MaxPointers
    <3>1. CASE <<d, m>> = <<a, n>>
      <4>1. d = a /\ m = n /\ MaxPointers \in Nat
        BY <3>1, Bounds
      <4> QED
        BY <1>1, <1>4, <1>8, <4>1
    <3>2. CASE <<d, m>> # <<a, n>>
      BY <1>3, <3>2 DEF IInv, QueuesBounded
    <3> QED
      BY <3>1, <3>2
  <2> QED
    BY <1>1, <2>1 DEF IInv, QueuesBounded
<1>10. CallbackRuns'
  BY <1>1 DEF IInv, CallbackRuns
<1>11. FillCounts'
  BY <1>1, <1>4, <1>8 DEF FillCounts, a, n
<1> QED
  BY <1>6, <1>7, <1>9, <1>10, <1>11

\* The end of a callback.
LEMMA FreeStep ==
  ASSUME IInv, TypeOK', FreeCopy
  PROVE  BlocksOnce' /\ SizesFit' /\ QueuesBounded' /\ CallbackRuns' /\ FillCounts'
<1>1. /\ UNCHANGED <<held, pool, dealloc, life, callbacks>>
      /\ thread'.pc = "drain" /\ thread'.copy = <<>>
  BY DEF FreeCopy
<1>2. \A x \in Blocks : heap'[x] = IF In(thread.copy, x) THEN 0 ELSE heap[x]
  <2>1. thread.copy \in Seq(Blocks)
    BY DEF IInv, TypeOK
  <2> QED
    BY <2>1, RangeIsIn DEF FreeCopy, Freed
<1>3. BlocksOnce'
  <2>1. Queues \in BlockQueues /\ QueuesNext \in BlockQueues /\ {CopyHome} \in SUBSET Homes
    BY QueuesKinds, QueuesNextKinds, HomesDiffer DEF IInv
  <2>2. Emptied(Queues, QueuesNext, {CopyHome})
    <3>1. Apart(Queues, QueuesNext, {CopyHome})
      BY <1>1, QueuesApart DEF Queues, QueuesNext
    <3> QED
      BY <1>1, <3>1, QueuesNextKinds DEF Emptied
  <2>3. \A x \in Blocks : heap'[x] # 0 <=> heap[x] # 0 /\ ~\E h \in {CopyHome} : In(Queues[h], x)
    BY <1>2, QueuesKinds DEF IInv
  <2>4. SlotsDiffer(QueuesNext) /\ Accounted(QueuesNext, DOMAIN held, heap')
    BY <2>1, <2>2, <2>3, ClearSound DEF IInv, BlocksOnce
  <2> QED
    BY <1>1, <2>4, QueuesPrimed DEF BlocksOnce
<1>4. SizesFit'
  BY <1>1, <1>2, <1>3, SizesStep
<1> QED
  BY <1>1, <1>3, <1>4 DEF IInv, QueuesBounded, CallbackRuns, FillCounts

-----------------------------------------------------------------------------
LEMMA InitOK == Init => IInv
<1> SUFFICES ASSUME Init PROVE IInv
  OBVIOUS
<1>1. TypeOK
  BY InitTyped
<1>2. \A h \in Homes : Len(Queues[h]) = 0
  <2>1. /\ Len(thread.copy) = 0
        /\ \A a \in Allocators : Len(dealloc[a]) = 0
        /\ \A a \in Allocators, n \in Sizes : Len(pool[a][n]) = 0
    BY DEF Init
  <2> QED
    BY <1>1, <2>1, QueuesKinds, HomeCases
<1>3. BlocksOnce
  <2>1. DOMAIN held = {} /\ \A b \in Blocks : heap[b] = 0
    BY DEF Init
  <2> QED
    BY <1>2, <2>1 DEF BlocksOnce, SlotsDiffer, Accounted, Queued, In
<1>4. SizesFit /\ QueuesBounded
  BY Bounds DEF Init, SizesFit, QueuesBounded, In
<1>5. CallbackRuns /\ FillCounts /\ Requests
  BY DEF Init, CallbackRuns, FillCounts, Requests, Idle
<1> QED
  BY <1>1, <1>3, <1>4, <1>5 DEF IInv

\* Steps that move no block: clients that register, leave, ask or notify.
LEMMA QuietClientStep ==
  ASSUME IInv, NEW c \in Clients, NEW a \in Allocators,
         \/ Register(c, a) \/ Unregister(c, a) \/ Push(c) \/ Signal(c)
         \/ \E n \in 1 .. MaxCount + 1 : AllocateUnlocks(c, a, n)
  PROVE  BlocksOnce' /\ SizesFit' /\ QueuesBounded' /\ CallbackRuns' /\ FillCounts'
<1>1. /\ UNCHANGED <<heap, held, pool, dealloc>>
      /\ thread' = thread \/ (thread.pc = "waiting" /\ thread' = At("woken"))
  BY DEF Register, Unregister, Push, Signal, AllocateUnlocks
<1>2. /\ thread'.copy = thread.copy /\ thread'.i = thread.i /\ thread'.j = thread.j
      /\ thread'.pc = thread.pc \/ (thread.pc = "waiting" /\ thread'.pc = "woken")
  BY <1>1 DEF At, IInv, TypeOK
<1>3. BlocksOnce' /\ SizesFit' /\ QueuesBounded'
  BY <1>1, <1>2, QuietStep
<1>4. CASE Register(c, a) \/ Unregister(c, a) \/ Push(c)
  <2>1. thread.pc \notin {"fill", "free"}
    BY <1>4 DEF Register, Unregister, Push, ThreadHolds
  <2>2. callbacks' = {d \in Allocators : life'[d] = "live"}
    BY <1>4 DEF Register, Unregister, Push, IInv, CallbackRuns, TypeOK
  <2> QED
    BY <1>2, <1>3, <2>1, <2>2 DEF IInv, CallbackRuns, FillCounts
<1>5. CASE Signal(c) \/ \E n \in 1 .. MaxCount + 1 : AllocateUnlocks(c, a, n)
  <2>1. UNCHANGED <<callbacks, life, events, pool>>
    BY <1>5 DEF Signal, AllocateUnlocks
  <2> QED
    BY <1>2, <1>3, <2>1 DEF IInv, CallbackRuns, FillCounts
<1> QED
  BY <1>4, <1>5

\* Steps of the thread and the destructor that move no block.
LEMMA QuietThreadStep ==
  ASSUME IInv,
         \/ ThreadStart \/ CheckStop \/ Wait \/ Wake \/ WakeSpuriously \/ NextSize
         \/ SetStop \/ NotifyStop
  PROVE  BlocksOnce' /\ SizesFit' /\ QueuesBounded' /\ CallbackRuns' /\ FillCounts'
<1>1. UNCHANGED <<heap, held, pool, dealloc, life, callbacks, events>>
  BY DEF ThreadStart, CheckStop, Wait, Wake, WakeSpuriously, NextSize, SetStop, NotifyStop
<1>2. CASE ~NextSize
  <2>1. \/ thread' = thread
        \/ thread.pc \notin {"fill", "free"} /\ \E pc \in {"check", "exited", "toWait", "waiting", "woken", "drain"} :
                                                   thread' = At(pc)
    BY <1>2 DEF ThreadStart, CheckStop, Wait, Wake, WakeSpuriously, SetStop, NotifyStop
  <2>2. /\ thread'.copy = thread.copy
        /\ \/ thread' = thread
           \/ thread.pc \notin {"fill", "free"} /\ thread'.pc \notin {"fill", "free"}
    BY <2>1 DEF At, IInv, TypeOK
  <2>3. BlocksOnce' /\ SizesFit' /\ QueuesBounded'
    BY <1>1, <2>2, QuietStep
  <2> QED
    BY <1>1, <2>2, <2>3 DEF IInv, CallbackRuns, FillCounts
<1>3. CASE NextSize
  <2>1. /\ thread.pc = "fill"
        /\ thread'.copy = thread.copy
        /\ \/ /\ thread.i < MaxCount /\ thread'.pc = "fill" /\ thread'.i = thread.i + 1
              /\ thread'.j = Len(pool[Head(events)][thread.i + 1])
           \/ thread'.pc = "free"
    BY <1>3 DEF NextSize, IInv, TypeOK
  <2>2. BlocksOnce' /\ SizesFit' /\ QueuesBounded'
    BY <1>1, <2>1, QuietStep
  <2>3. CallbackRuns'
    BY <1>1, <2>1 DEF IInv, CallbackRuns
  <2>4. FillCounts'
    <3>1. CASE thread'.pc = "free"
      BY <3>1 DEF FillCounts
    <3>2. CASE /\ thread.i < MaxCount /\ thread'.pc = "fill" /\ thread'.i = thread.i + 1
               /\ thread'.j = Len(pool[Head(events)][thread.i + 1])
      <4>1. thread.i + 1 \in Sizes /\ Head(events) \in Allocators
        BY <2>1, <3>2, Bounds DEF IInv, FillCounts, CallbackRuns, Sizes
      <4>2. Len(pool[Head(events)][thread.i + 1]) \in Nat
        BY <4>1 DEF IInv, TypeOK
      <4> QED
        BY <1>1, <3>2, <4>1, <4>2 DEF FillCounts
    <3> QED
      BY <2>1, <3>1, <3>2
  <2> QED
    BY <2>2, <2>3, <2>4
<1> QED
  BY <1>2, <1>3

LEMMA TakeEventStep ==
  ASSUME IInv, TypeOK', TakeEvent
  PROVE  BlocksOnce' /\ SizesFit' /\ QueuesBounded' /\ CallbackRuns' /\ FillCounts'
<1>1. thread.pc = "drain" /\ UNCHANGED <<heap, held, pool, life, callbacks>>
  BY DEF TakeEvent
<1>2. CASE /\ events # <<>>
           /\ Head(events) \in callbacks
           /\ thread' = [pc |-> "fill", i |-> 1, j |-> Len(pool[Head(events)][1]),
                         copy |-> dealloc[Head(events)]]
           /\ dealloc' = [dealloc EXCEPT ![Head(events)] = <<>>]
           /\ UNCHANGED events
  BY <1>1, <1>2, SwapStep
<1>3. CASE (thread' = At("check") \/ thread' = thread) /\ UNCHANGED dealloc
  <2>1. thread'.copy = thread.copy /\ thread'.pc \in {"check", "drain"}
    BY <1>1, <1>3 DEF At, IInv, TypeOK
  <2>2. BlocksOnce' /\ SizesFit' /\ QueuesBounded'
    BY <1>1, <1>3, <2>1, QuietStep
  <2> QED
    BY <1>1, <2>1, <2>2 DEF IInv, CallbackRuns, FillCounts
<1> QED
  BY <1>2, <1>3 DEF TakeEvent

LEMMA NextOK == IInv /\ [Next]_vars => IInv'
<1> SUFFICES ASSUME IInv, [Next]_vars PROVE IInv'
  OBVIOUS
<1>1. TypeOK /\ Requests /\ CallbackRuns /\ FillCounts
  BY DEF IInv
<1>2. ASSUME NEW c \in Clients, ClientRuns(c) PROVE IInv'
  <2>1. TypeOK' /\ Requests'
    BY <1>1, <1>2, ClientStepTyped
  <2>2. PICK a \in Allocators : TRUE
    BY MemoryAllocationAssumption
  <2>3. BlocksOnce' /\ SizesFit' /\ QueuesBounded' /\ CallbackRuns' /\ FillCounts'
    BY <1>2, <2>1, NewStep, QuietClientStep DEF ClientRuns
  <2> QED
    BY <2>1, <2>3 DEF IInv
<1>3. ASSUME NEW c \in Clients, NEW a \in Allocators,
             \/ Register(c, a) \/ Unregister(c, a)
             \/ \E n \in 1 .. MaxCount + 1 : AllocateFromPool(c, a, n) \/ AllocateUnlocks(c, a, n)
             \/ \E b \in Blocks : Deallocate(c, a, b)
      PROVE  IInv'
  <2>1. TypeOK' /\ Requests'
    BY <1>1, <1>3, CallStepTyped
  <2>2. BlocksOnce' /\ SizesFit' /\ QueuesBounded' /\ CallbackRuns' /\ FillCounts'
    BY <1>3, <2>1, QuietClientStep, TakeStep, GiveStep
  <2> QED
    BY <2>1, <2>2 DEF IInv
<1>4. CASE ThreadRuns \/ WakeSpuriously \/ SetStop \/ NotifyStop \/ \E a \in Allocators : DestroyAllocator(a)
  <2>1. TypeOK' /\ Requests'
    BY <1>1, <1>4, OtherStepTyped
  <2>2. BlocksOnce' /\ SizesFit' /\ QueuesBounded' /\ CallbackRuns' /\ FillCounts'
    BY <1>4, <2>1, QuietThreadStep, TakeEventStep, FillStep, FreeStep, DestroyStep DEF ThreadRuns
  <2> QED
    BY <2>1, <2>2 DEF IInv
<1>5. CASE UNCHANGED vars
  <2>1. BlocksOnce' /\ SizesFit' /\ QueuesBounded'
    BY <1>5, QuietStep DEF vars
  <2> QED
    BY <1>5, <2>1 DEF vars, IInv, TypeOK, CallbackRuns, FillCounts, Requests
<1> QED
  BY <1>2, <1>3, <1>4, <1>5 DEF Next

LEMMA Invariance == Spec => []IInv
  BY InitOK, NextOK, PTL DEF Spec

-----------------------------------------------------------------------------
\* The fields of allocators, clients and the thread keep their types.
THEOREM TypeCorrect == Spec => []TypeOK
<1>1. IInv => TypeOK
  BY DEF IInv
<1> QED
  BY <1>1, Invariance, PTL

\* No block is handed out twice, freed twice or forgotten, and every caller has a
\* block that is large enough, however the refills of the thread, the drains of the
\* clients and the destructors of allocators interleave.
THEOREM NoBlockLost == Spec => []MemorySound
<1>1. ASSUME IInv, NEW b \in Blocks PROVE InExactlyOnePlace(b)
  <2> DEFINE Slot(h, k) == <<h[1], h[2], h[3], k>>
  <2>1. ASSUME NEW p \in Places(b)
        PROVE  \/ p = <<"held", 0, 0, 0>> /\ b \in DOMAIN held
               \/ \E h \in Homes : \E k \in 1 .. Len(Queues[h]) : p = Slot(h, k) /\ Queues[h][k] = b
    <3>1. CASE p \in {<<"held", 0, 0, 0>> : x \in DOMAIN held \cap {b}}
      BY <3>1
    <3>2. CASE \E k \in DOMAIN thread.copy : thread.copy[k] = b /\ p = <<"copy", 0, 0, k>>
      <4>1. PICK k \in 1 .. Len(thread.copy) : thread.copy[k] = b /\ p = <<"copy", 0, 0, k>>
        BY <1>1, <3>2 DEF IInv, TypeOK
      <4>2. p = Slot(CopyHome, k) /\ CopyHome \in Homes /\ Queues[CopyHome] = thread.copy
        BY <1>1, <4>1, HomesDiffer, QueuesKinds DEF CopyHome, IInv
      <4> QED
        BY <4>1, <4>2
    <3>3. CASE \E a \in Allocators : \E k \in DOMAIN dealloc[a] : dealloc[a][k] = b /\ p = <<"dealloc", a, 0, k>>
      <4>1. PICK a \in Allocators : \E k \in 1 .. Len(dealloc[a]) : dealloc[a][k] = b /\ p = <<"dealloc", a, 0, k>>
        BY <1>1, <3>3 DEF IInv, TypeOK
      <4>2. PICK k \in 1 .. Len(dealloc[a]) : dealloc[a][k] = b /\ p = <<"dealloc", a, 0, k>>
        BY <4>1
      <4>3. p = Slot(DeallocHome(a), k)
        BY <4>2 DEF DeallocHome
      <4> QED
        BY <1>1, <4>2, <4>3, HomesDiffer, QueuesKinds DEF IInv
    <3>4. CASE \E a \in Allocators, n \in Sizes : \E k \in DOMAIN pool[a][n] :
                  pool[a][n][k] = b /\ p = <<"pool", a, n, k>>
      <4>1. PICK a \in Allocators, n \in Sizes : \E k \in 1 .. Len(pool[a][n]) :
                   pool[a][n][k] = b /\ p = <<"pool", a, n, k>>
        BY <1>1, <3>4 DEF IInv, TypeOK
      <4>2. PICK k \in 1 .. Len(pool[a][n]) : pool[a][n][k] = b /\ p = <<"pool", a, n, k>>
        BY <4>1
      <4>3. p = Slot(PoolHome(a, n), k)
        BY <4>2 DEF PoolHome
      <4> QED
        BY <1>1, <4>2, <4>3, HomesDiffer, QueuesKinds DEF IInv
    <3> QED
      BY <2>1, <3>1, <3>2, <3>3, <3>4 DEF Places
  <2>2. Queued(Queues, b) \/ b \in DOMAIN held => Places(b) # {}
    <3>1. ASSUME b \in DOMAIN held PROVE Places(b) # {}
      <4>1. <<"held", 0, 0, 0>> \in {<<"held", 0, 0, 0>> : x \in DOMAIN held \cap {b}}
        BY <3>1
      <4>2. <<"held", 0, 0, 0>> \in Places(b)
        BY <4>1 DEF Places
      <4> QED
        BY <4>2
    <3>2. ASSUME In(thread.copy, b) PROVE Places(b) # {}
      <4>1. PICK k \in DOMAIN thread.copy : thread.copy[k] = b
        BY <1>1, <3>2 DEF In, IInv, TypeOK
      <4>2. <<"copy", 0, 0, k>> \in Places(b)
        BY <4>1 DEF Places
      <4> QED
        BY <4>2
    <3>3. ASSUME NEW a \in Allocators, In(dealloc[a], b) PROVE Places(b) # {}
      <4>1. PICK k \in DOMAIN dealloc[a] : dealloc[a][k] = b
        BY <1>1, <3>3 DEF In, IInv, TypeOK
      <4>2. <<"dealloc", a, 0, k>> \in Places(b)
        BY <4>1 DEF Places
      <4> QED
        BY <4>2
    <3>4. ASSUME NEW a \in Allocators, NEW n \in Sizes, In(pool[a][n], b) PROVE Places(b) # {}
      <4>1. PICK k \in DOMAIN pool[a][n] : pool[a][n][k] = b
        BY <1>1, <3>4 DEF In, IInv, TypeOK
      <4>2. <<"pool", a, n, k>> \in Places(b)
        <5> DEFINE F(d, m) == {<<"pool", d, m, l>> : l \in {i \in DOMAIN pool[d][m] : pool[d][m][i] = b}}
        <5>1. <<"pool", a, n, k>> \in F(a, n)
          BY <4>1
        <5> HIDE DEF F
        <5>2. <<"pool", a, n, k>> \in UNION {F(d, m) : d \in Allocators, m \in Sizes}
          BY <5>1
        <5> QED
          BY <5>2 DEF Places, F
      <4> QED
        BY <4>2
    <3> QED
      BY <1>1, <3>1, <3>2, <3>3, <3>4, QueuesKinds, HomeCases DEF Queued, IInv
  <2>3. Places(b) # {} => Queued(Queues, b) \/ b \in DOMAIN held
    BY <2>1 DEF Queued, In
  <2>4. ASSUME NEW p \in Places(b), NEW r \in Places(b) PROVE p = r
    <3>1. b \in DOMAIN held => ~Queued(Queues, b)
      BY <1>1 DEF IInv, BlocksOnce, Accounted
    <3>2. CASE b \in DOMAIN held
      BY <2>1, <3>1, <3>2 DEF Queued, In
    <3>3. CASE b \notin DOMAIN held
      <4>1. PICK h \in Homes : \E k \in 1 .. Len(Queues[h]) : p = Slot(h, k) /\ Queues[h][k] = b
        BY <2>1, <3>3
      <4>2. PICK k \in 1 .. Len(Queues[h]) : p = Slot(h, k) /\ Queues[h][k] = b
        BY <4>1
      <4>3. PICK g \in Homes : \E l \in 1 .. Len(Queues[g]) : r = Slot(g, l) /\ Queues[g][l] = b
        BY <2>1, <3>3
      <4>4. PICK l \in 1 .. Len(Queues[g]) : r = Slot(g, l) /\ Queues[g][l] = b
        BY <4>3
      <4>5. h = g /\ k = l
        BY <1>1, <4>2, <4>4 DEF IInv, BlocksOnce, SlotsDiffer
      <4> QED
        BY <4>2, <4>4, <4>5
    <3> QED
      BY <3>2, <3>3
  <2>5. heap[b] # 0 <=> Places(b) # {}
    BY <1>1, <2>2, <2>3 DEF IInv, BlocksOnce, Accounted
  <2> QED
    BY <2>4, <2>5 DEF InExactlyOnePlace
<1>2. IInv => MemorySound
  BY <1>1 DEF MemorySound, IInv, SizesFit
<1> QED
  BY <1>2, Invariance, PTL

\* The limits of the queues hold although the thread fills a queue from a length
\* that is stale once it lets the mutex go.
THEOREM QueuesKeepLimits == Spec => []QueuesBounded
<1>1. IInv => QueuesBounded
  BY DEF IInv
<1> QED
  BY <1>1, Invariance, PTL

\* The thread never runs the callback of an allocator whose destructor has gone
\* past remove.
THEOREM CallbacksAlive == Spec => []CallbackAlive
<1>1. IInv => CallbackAlive
  BY DEF IInv, CallbackRuns, CallbackAlive
<1> QED
  BY <1>1, Invariance, PTL
=============================================================================
