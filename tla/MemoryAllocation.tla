-------------------------- MODULE MemoryAllocation --------------------------
(***************************************************************************)
(* ConcurrentAllocator and MemoryAllocationThread.  An allocator keeps, for *)
(* every small request size, a queue of blocks allocated ahead of time and *)
(* a queue of blocks that wait to be freed.  It registers a callback with  *)
(* the allocation thread, and its clients push its index to the thread's   *)
(* events whenever there is something to refill or to free.                *)
(*                                                                         *)
(* An action is one lock scope: where the code lets a mutex go in the      *)
(* middle of an operation, a second action goes on from there.  The         *)
(* allocator's mutex therefore needs no variable; the thread's mutex does,  *)
(* since a whole callback runs under it (ThreadHolds).  Blocks are numbers *)
(* with the size they were allocated with, 0 while they are not allocated. *)
(* The statistics counter _total_bytes_allocated is left out.              *)
(***************************************************************************)
EXTENDS Integers, Sequences, FiniteSets, Functions

CONSTANTS
    Allocators,   \* allocator objects
    Clients,      \* threads that allocate and deallocate
    MaxCount,     \* max_count_per_allocation
    MaxPointers,  \* max_allocation_pointer_count
    MaxOutside,   \* bound: blocks callers hold or have given back
    MaxEvents     \* bound: events pushed and not yet handled

ASSUME MemoryAllocationAssumption ==
    /\ {MaxCount, MaxPointers, MaxOutside, MaxEvents} \subseteq Nat \ {0}
    /\ Clients # {}
    /\ Allocators # {}

VARIABLES
    heap,       \* size of every block, 0 if it is not allocated
    held,       \* blocks in the hands of callers, with the size they asked for
    pool,       \* _allocation_queues of every allocator, by size
    dealloc,    \* _deallocation_queue of every allocator
    life,       \* of every allocator: "new", "live", "leaving", "gone"
    callbacks,  \* MemoryAllocationThread::_callbacks
    events,     \* MemoryAllocationThread::_events
    client,     \* where each client is
    thread,     \* where the allocation thread is
    stop        \* progress of ~MemoryAllocationThread

vars == <<heap, held, pool, dealloc, life, callbacks, events, client, thread, stop>>

\* Enough that ::operator new always finds one.
Blocks == 1 .. MaxOutside + MaxCount * MaxPointers * Cardinality(Allocators)
Sizes == 1 .. MaxCount

Idle == [pc |-> "idle", for |-> CHOOSE a \in Allocators : TRUE, n |-> 0]

\* The thread holds its _mtx from the start of a round to the next wait.
ThreadHolds == thread.pc \in {"check", "toWait", "drain", "fill", "free"}

At(pc) == [thread EXCEPT !.pc = pc]

Init ==
    /\ heap = [b \in Blocks |-> 0]
    /\ held = [b \in {} |-> 0]
    /\ pool = [a \in Allocators |-> [n \in Sizes |-> <<>>]]
    /\ dealloc = [a \in Allocators |-> <<>>]
    /\ life = [a \in Allocators |-> "new"]
    /\ callbacks = {}
    /\ events = <<>>
    /\ client = [c \in Clients |-> Idle]
    /\ thread = [pc |-> "start", i |-> 0, j |-> 0, copy |-> <<>>]
    /\ stop = "no"

\* ::operator new gives some block that is not allocated, the lowest.
NewBlock(n, b) ==
    /\ heap[b] = 0
    /\ \A lower \in 1 .. b - 1 : heap[lower] # 0
    /\ heap' = [heap EXCEPT ![b] = n]

\* ::operator delete of every block of a queue.
Freed(blocks) == [b \in Blocks |-> IF b \in blocks THEN 0 ELSE heap[b]]

\* A caller gets a block for a request of size n.
Handed(b, n) == [x \in DOMAIN held \cup {b} |-> IF x = b THEN n ELSE held[x]]

-----------------------------------------------------------------------------
(* Clients.                                                                *)

\* The bound on callers: a request is made only below it.
BelowBound ==
    Cardinality({b \in Blocks : heap[b] # 0}
                \ UNION {Range(pool[a][n]) : a \in Allocators, n \in Sizes})
    + Cardinality({c \in Clients : client[c].pc = "new"}) < MaxOutside

\* The constructors register the allocator: MemoryAllocationThread::add.
Register(c, a) ==
    /\ client[c].pc = "idle" /\ stop = "no"
    /\ life[a] = "new"
    /\ ~ThreadHolds
    /\ life' = [life EXCEPT ![a] = "live"]
    /\ callbacks' = callbacks \cup {a}
    /\ UNCHANGED <<heap, held, pool, dealloc, events, client, thread, stop>>

\* What is in stock for a request: _allocation_queues.at(n - 1), for sizes that
\* have a queue.
Stock(a, n) == IF n <= MaxCount THEN pool[a][n] ELSE <<>>

\* allocate finds a block in the queue.
AllocateFromPool(c, a, n) ==
    /\ client[c].pc = "idle"
    /\ life[a] = "live" /\ BelowBound
    /\ Stock(a, n) # <<>>
    /\ held' = Handed(Head(Stock(a, n)), n)
    /\ pool' = [pool EXCEPT ![a][n] = Tail(@)]
    /\ client' = [client EXCEPT ![c] = [pc |-> "push", for |-> a, n |-> n]]
    /\ UNCHANGED <<heap, dealloc, life, callbacks, events, thread, stop>>

\* allocate finds none, or the request is larger than any queue, and lets the
\* mutex go while it allocates.
AllocateUnlocks(c, a, n) ==
    /\ client[c].pc = "idle"
    /\ life[a] = "live" /\ BelowBound
    /\ Stock(a, n) = <<>>
    /\ client' = [client EXCEPT ![c] = [pc |-> "new", for |-> a, n |-> n]]
    /\ UNCHANGED <<heap, held, pool, dealloc, life, callbacks, events, thread, stop>>

\* ... the rest of it.  Only sizes that have a queue are worth an event.
AllocateNew(c) ==
    /\ client[c].pc = "new"
    /\ \E b \in Blocks :
          /\ NewBlock(client[c].n, b)
          /\ held' = Handed(b, client[c].n)
    /\ client' = [client EXCEPT ![c] =
                     IF client[c].n <= MaxCount THEN [@ EXCEPT !.pc = "push"] ELSE Idle]
    /\ UNCHANGED <<pool, dealloc, life, callbacks, events, thread, stop>>

\* Fault variant: the queue is never drained by the clients.
OverfullNever(a) == FALSE

\* Fault variant: what the drain frees stays in the queue.
DeallocateKeepsFreed(c, a, b) ==
    /\ client[c].pc = "idle"
    /\ life[a] = "live"
    /\ b \in DOMAIN held
    /\ held' = [x \in DOMAIN held \ {b} |-> held[x]]
    /\ heap' = IF Len(dealloc[a]) > MaxPointers THEN Freed(Range(dealloc[a])) ELSE heap
    /\ dealloc' = [dealloc EXCEPT ![a] = Append(@, b)]
    /\ client' = [client EXCEPT ![c] = [pc |-> "push", for |-> a, n |-> 0]]
    /\ UNCHANGED <<pool, life, callbacks, events, thread, stop>>

Overfull(a) == Len(dealloc[a]) > MaxPointers

\* deallocate: all allocators compare equal, so a block may come back to another
\* allocator than the one it came from.
Deallocate(c, a, b) ==
    /\ client[c].pc = "idle"
    /\ life[a] = "live"
    /\ b \in DOMAIN held
    /\ held' = [x \in DOMAIN held \ {b} |-> held[x]]
    /\ heap' = IF Overfull(a) THEN Freed(Range(dealloc[a])) ELSE heap
    /\ dealloc' = [dealloc EXCEPT ![a] = Append(IF Overfull(a) THEN <<>> ELSE @, b)]
    /\ client' = [client EXCEPT ![c] = [pc |-> "push", for |-> a, n |-> 0]]
    /\ UNCHANGED <<pool, life, callbacks, events, thread, stop>>

\* MemoryAllocationThread::notify: push under the mutex, ...
Push(c) ==
    /\ client[c].pc = "push"
    /\ ~ThreadHolds
    /\ Len(events) < MaxEvents
    /\ events' = Append(events, client[c].for)
    /\ client' = [client EXCEPT ![c].pc = "signal"]
    /\ UNCHANGED <<heap, held, pool, dealloc, life, callbacks, thread, stop>>

\* ... notify_one after it.
Signal(c) ==
    /\ client[c].pc = "signal"
    /\ thread' = IF thread.pc = "waiting" THEN At("woken") ELSE thread
    /\ client' = [client EXCEPT ![c] = Idle]
    /\ UNCHANGED <<heap, held, pool, dealloc, life, callbacks, events, stop>>

\* No operation of a client on the allocator is under way: destroying it then is
\* the owner's mistake.
Unused(a) == \A c \in Clients : client[c].pc = "idle" \/ client[c].for # a

\* Fault variant: remove does not take the thread's mutex.
UnregisterUnlocked(c, a) ==
    /\ client[c].pc = "idle"
    /\ life[a] = "live"
    /\ Unused(a)
    /\ life' = [life EXCEPT ![a] = "leaving"]
    /\ callbacks' = callbacks \ {a}
    /\ UNCHANGED <<heap, held, pool, dealloc, events, client, thread, stop>>

\* ~ConcurrentAllocator first unregisters: MemoryAllocationThread::remove.
Unregister(c, a) ==
    /\ client[c].pc = "idle"
    /\ life[a] = "live"
    /\ Unused(a)
    /\ ~ThreadHolds
    /\ life' = [life EXCEPT ![a] = "leaving"]
    /\ callbacks' = callbacks \ {a}
    /\ UNCHANGED <<heap, held, pool, dealloc, events, client, thread, stop>>

\* The rest of the destructor frees everything both kinds of queues hold.
DestroyAllocator(a) ==
    /\ life[a] = "leaving"
    /\ heap' = Freed(Range(dealloc[a]) \cup UNION {Range(pool[a][n]) : n \in Sizes})
    /\ dealloc' = [dealloc EXCEPT ![a] = <<>>]
    /\ pool' = [pool EXCEPT ![a] = [n \in Sizes |-> <<>>]]
    /\ life' = [life EXCEPT ![a] = "gone"]
    /\ UNCHANGED <<held, callbacks, events, client, thread, stop>>

-----------------------------------------------------------------------------
(* The allocation thread.                                                  *)

ThreadStart ==
    /\ thread.pc = "start"
    /\ thread' = At("check")
    /\ UNCHANGED <<heap, held, pool, dealloc, life, callbacks, events, client, stop>>

CheckStop ==
    /\ thread.pc = "check"
    /\ thread' = At(IF stop = "no" THEN "toWait" ELSE "exited")
    /\ UNCHANGED <<heap, held, pool, dealloc, life, callbacks, events, client, stop>>

\* _condition.wait: no predicate, whatever events there are already.
Wait ==
    /\ thread.pc = "toWait"
    /\ thread' = At("waiting")
    /\ UNCHANGED <<heap, held, pool, dealloc, life, callbacks, events, client, stop>>

WakeSpuriously ==
    /\ thread.pc = "waiting"
    /\ thread' = At("drain")
    /\ UNCHANGED <<heap, held, pool, dealloc, life, callbacks, events, client, stop>>

Wake ==
    /\ thread.pc = "woken"
    /\ thread' = At("drain")
    /\ UNCHANGED <<heap, held, pool, dealloc, life, callbacks, events, client, stop>>

\* Fault variant: one event a round.
TakeEventOnce ==
    /\ thread.pc = "drain"
    /\ \/ /\ events = <<>>
          /\ UNCHANGED events
       \/ /\ events # <<>>
          /\ events' = Tail(events)
    /\ thread' = At("check")
    /\ UNCHANGED <<heap, held, pool, dealloc, life, callbacks, client, stop>>

\* The inner loop: no event, an event of an allocator that has left, or a
\* callback, which starts by swapping the deallocation queue away.
TakeEvent ==
    /\ thread.pc = "drain"
    /\ \/ /\ events = <<>>
          /\ thread' = At("check")
          /\ UNCHANGED <<events, dealloc>>
       \/ /\ events # <<>>
          /\ Head(events) \notin callbacks
          /\ events' = Tail(events)
          /\ UNCHANGED <<thread, dealloc>>
       \/ /\ events # <<>>
          /\ Head(events) \in callbacks
          /\ LET a == Head(events) IN
             /\ thread' = [pc |-> "fill", i |-> 1, j |-> Len(pool[a][1]),
                           copy |-> dealloc[a]]
             /\ dealloc' = [dealloc EXCEPT ![a] = <<>>]
          /\ UNCHANGED events
    /\ UNCHANGED <<heap, held, pool, life, callbacks, client, stop>>

\* Fault variant: one block too many.
WantedOneMore == MaxPointers + 1

Wanted == MaxPointers

\* _check_allocations lets the allocator's mutex go for every block it allocates;
\* j counts from the length the queue had when the loop over it began.
Fill ==
    /\ thread.pc = "fill"
    /\ thread.j < Wanted
    /\ \E b \in Blocks :
          /\ NewBlock(thread.i, b)
          /\ pool' = [pool EXCEPT ![Head(events)][thread.i] = Append(@, b)]
    /\ thread' = [thread EXCEPT !.j = @ + 1]
    /\ UNCHANGED <<held, dealloc, life, callbacks, events, client, stop>>

NextSize ==
    /\ thread.pc = "fill"
    /\ thread.j >= Wanted
    /\ thread' = IF thread.i < MaxCount
                 THEN [thread EXCEPT !.i = @ + 1, !.j = Len(pool[Head(events)][thread.i + 1])]
                 ELSE [thread EXCEPT !.pc = "free"]
    /\ UNCHANGED <<heap, held, pool, dealloc, life, callbacks, events, client, stop>>

\* The end of the callback, outside the allocator's mutex, and the pop.
FreeCopy ==
    /\ thread.pc = "free"
    /\ heap' = Freed(Range(thread.copy))
    /\ events' = Tail(events)
    /\ thread' = [pc |-> "drain", i |-> 0, j |-> 0, copy |-> <<>>]
    /\ UNCHANGED <<held, pool, dealloc, life, callbacks, client, stop>>

-----------------------------------------------------------------------------
(* ~MemoryAllocationThread, once no allocator refers to the thread.          *)

SetStop ==
    /\ stop = "no"
    /\ \A a \in Allocators : life[a] \in {"new", "gone"}
    /\ \A c \in Clients : client[c].pc = "idle"
    /\ stop' = "set"
    /\ UNCHANGED <<heap, held, pool, dealloc, life, callbacks, events, client, thread>>

\* notify_all, without the mutex, and join.  The thread may be anywhere; "missed"
\* remembers that it had read the flag before it was set and was not waiting yet.
NotifyStop ==
    /\ stop = "set"
    /\ stop' = IF thread.pc = "toWait" THEN "missed" ELSE "notified"
    /\ thread' = IF thread.pc = "waiting" THEN At("woken") ELSE thread
    /\ UNCHANGED <<heap, held, pool, dealloc, life, callbacks, events, client>>

-----------------------------------------------------------------------------
ClientRuns(c) == AllocateNew(c) \/ Push(c) \/ Signal(c)

ThreadRuns ==
    \/ ThreadStart \/ CheckStop \/ Wait \/ Wake
    \/ TakeEvent \/ Fill \/ NextSize \/ FreeCopy

Next ==
    \/ \E c \in Clients :
          \/ ClientRuns(c)
          \/ \E a \in Allocators :
                \/ Register(c, a)
                \/ \E n \in 1 .. MaxCount + 1 :
                      AllocateFromPool(c, a, n) \/ AllocateUnlocks(c, a, n)
                \/ \E b \in Blocks : Deallocate(c, a, b)
                \/ Unregister(c, a)
    \/ \E a \in Allocators : DestroyAllocator(a)
    \/ ThreadRuns
    \/ WakeSpuriously
    \/ SetStop
    \/ NotifyStop

(* A thread that is inside an operation goes on with it.  Nobody has to call *)
(* an operation, and no wakeup is spurious by right.                         *)
Fairness ==
    /\ WF_vars(ThreadRuns)
    /\ WF_vars(NotifyStop)
    /\ \A c \in Clients : WF_vars(ClientRuns(c))

Spec == Init /\ [][Next]_vars /\ Fairness

-----------------------------------------------------------------------------
(* Properties.                                                             *)

\* The values of the fields of allocators, clients and the thread.
TypeOK ==
    /\ heap \in [Blocks -> 0 .. MaxCount + 1]
    /\ DOMAIN held \subseteq Blocks
    /\ \A b \in DOMAIN held : held[b] \in 1 .. MaxCount + 1
    /\ pool \in [Allocators -> [Sizes -> Seq(Blocks)]]
    /\ dealloc \in [Allocators -> Seq(Blocks)]
    /\ life \in [Allocators -> {"new", "live", "leaving", "gone"}]
    /\ callbacks \subseteq Allocators
    /\ events \in Seq(Allocators)
    /\ client \in [Clients -> [pc : {"idle", "new", "push", "signal"},
                               for : Allocators, n : 0 .. MaxCount + 1]]
    /\ thread \in [pc : {"start", "check", "toWait", "waiting", "woken", "drain",
                          "fill", "free", "exited"},
                    i : 0 .. MaxCount, j : Nat, copy : Seq(Blocks)]
    /\ stop \in {"no", "set", "notified", "missed"}

\* The places a block is in: the hands of a caller and slots of queues.
Places(b) ==
    LET Slots(q) == {k \in DOMAIN q : q[k] = b} IN
    UNION {{<<"held", 0, 0, 0>> : x \in DOMAIN held \cap {b}},
           {<<"copy", 0, 0, k>> : k \in Slots(thread.copy)},
           UNION {{<<"dealloc", a, 0, k>> : k \in Slots(dealloc[a])} : a \in Allocators},
           UNION {{<<"pool", a, n, k>> : k \in Slots(pool[a][n])} : a \in Allocators, n \in Sizes}}

InExactlyOnePlace(b) ==
    IF heap[b] = 0 THEN Places(b) = {} ELSE \E p \in Places(b) : Places(b) = {p}

\* Every allocated block is in exactly one place and no freed block is in any:
\* nothing is handed out twice, freed twice or forgotten, however the refills of
\* the thread interleave with the clients; and a caller holds at least as much as
\* it asked for, out of a queue or not.
MemorySound ==
    /\ \A b \in Blocks : InExactlyOnePlace(b)
    /\ \A b \in DOMAIN held : heap[b] >= held[b]

\* The thread fills a queue up to max_allocation_pointer_count and no further,
\* although it counts from a length that is stale once it lets the mutex go;
\* the queue of blocks to free passes the limit by one at most.
QueuesBounded ==
    \A a \in Allocators :
        /\ \A n \in Sizes : Len(pool[a][n]) <= MaxPointers
        /\ Len(dealloc[a]) <= MaxPointers + 1

\* The callback of an allocator never runs once its destructor has gone past
\* remove: the lambda's captured reference is alive.
CallbackAlive ==
    thread.pc \in {"fill", "free"} => life[Head(events)] = "live"

EventsHandled ==
    \A c \in Clients :
        (client[c].pc = "signal" /\ thread.pc \in {"waiting", "woken", "drain", "fill", "free"})
        ~> (events = <<>>)

StopEnds == (stop = "notified") ~> (thread.pc = "exited")

\* A notification that finds the thread past its first wait empties the events:
\* none is left for a later notification.  And the destructor's join returns,
\* unless its notification came after the thread had read the flag and before it
\* waited.
ThreadResponds == EventsHandled /\ StopEnds
=============================================================================
