--------------------- MODULE CompactBlockMappingProofs ---------------------
(***************************************************************************)
(* For any tasks, blocks and transactions: a sub task of a mapping reads   *)
(* the bucket it was given, unchanged, until it ends; a mapping that       *)
(* succeeds forgets no position of the block; and without collisions it is *)
(* exact.  The proof takes the inductive invariant of the pool from        *)
(* SafeBucketContainerProofs: every step here is one of the container, or  *)
(* leaves it alone.                                                        *)
(***************************************************************************)
EXTENDS CompactBlockMapping, FiniteSetTheorems, SequenceTheorems, TLAPS

\* The pool once more, with what is proved about it.
Container == INSTANCE SafeBucketContainerProofs WITH Items <- Hashes, Readers <- Tasks

\* The fields of a task object and of a sub task.
IsJob(j) ==
    j = [pc |-> j.pc, block |-> j.block, claimed |-> j.claimed, types |-> j.types,
         sids |-> j.sids, missing |-> j.missing, cells |-> j.cells, counter |-> j.counter]

IsSub(s) ==
    s = [pc |-> s.pc, given |-> s.given, todo |-> s.todo, hash |-> s.hash,
         dup |-> s.dup, pos |-> s.pos, end |-> s.end]

Shaped ==
    /\ job = [t \in Tasks |-> job[t]]
    /\ sub = [t \in Tasks |-> sub[t]]
    /\ \A t \in Tasks :
          /\ IsJob(job[t])
          /\ sub[t] = [i \in Pool!BucketIdx |-> sub[t][i]]
          /\ \A i \in Pool!BucketIdx : IsSub(sub[t][i])

\* From acquire_tx_pool to on_finished_reading_tx_pool the task is a reader of the
\* pool, also when it fails.
TasksRead ==
    \A t \in Tasks : job[t].pc \in {"dispatch", "wait", "failed"} => reader[t] = "reading"

\* Sub tasks run only while their task waits for them.
SubTasksAwaited ==
    \A t \in Tasks : \A i \in Pool!BucketIdx :
        sub[t][i].pc # "idle" => job[t].pc = "wait"

(* That the buckets stand still needs that the task is counted as a reader    *)
(* while its sub tasks run, and the container's own invariant: writes are     *)
(* applied only when the count is 0, and the count is exact.                  *)
IInv ==
    /\ Container!IInv
    /\ Shaped
    /\ TasksRead
    /\ SubTasksAwaited
    /\ BucketsFrozen

-----------------------------------------------------------------------------
(* The pool.                                                               *)

\* What the container assumes of its constants holds of the pool.
LEMMA PoolAssumption ==
    /\ IsFiniteSet(Tasks)
    /\ BucketCount \in Nat \ {0}
    /\ BucketCapacity \in Nat
    /\ MaxPending \in Nat
  BY MappingAssumption

\* The two instances of the container are the same: the actions of a reader ...
LEMMA SameReaders ==
  ASSUME NEW t \in Tasks
  PROVE  /\ Pool!AcquireRead(t) => Container!AcquireRead(t)
         /\ Pool!WakeUp(t) => Container!WakeUp(t)
         /\ Pool!ReleaseRead(t) => Container!ReleaseRead(t)
         /\ Pool!ApplyAdd(t) => Container!ApplyAdd(t)
         /\ Pool!ApplyRemovals(t) => Container!ApplyRemovals(t)
<1> USE DEF Pool!BucketIdx, Container!BucketIdx, Pool!MutexFree, Container!MutexFree,
            Pool!IsWritePending, Container!IsWritePending
<1>1. Pool!AcquireRead(t) => Container!AcquireRead(t)
  BY DEF Pool!AcquireRead, Container!AcquireRead
<1>2. Pool!WakeUp(t) => Container!WakeUp(t)
  BY DEF Pool!WakeUp, Container!WakeUp
<1>3. Pool!ReleaseRead(t) => Container!ReleaseRead(t)
  BY DEF Pool!ReleaseRead, Container!ReleaseRead
<1>4. Pool!ApplyAdd(t) => Container!ApplyAdd(t)
  BY DEF Pool!ApplyAdd, Container!ApplyAdd, Pool!IsFull, Container!IsFull,
         Pool!InsertBucket, Container!InsertBucket, Pool!InsertToContainer,
         Container!InsertToContainer, Pool!Cardinality, Container!Cardinality
<1>5. Pool!ApplyRemovals(t) => Container!ApplyRemovals(t)
  BY DEF Pool!ApplyRemovals, Container!ApplyRemovals, Pool!NotifyAll, Container!NotifyAll
<1> QED
  BY <1>1, <1>2, <1>3, <1>4, <1>5

\* ... and those of a writer.
LEMMA SameWriters ==
  ASSUME NEW h \in Hashes
  PROVE  /\ Pool!Insert(h) => Container!Insert(h)
         /\ Pool!Erase(h) => Container!Erase(h)
<1> USE DEF Pool!BucketIdx, Container!BucketIdx, Pool!MutexFree, Container!MutexFree,
            Pool!IsReading, Container!IsReading
<1>1. Pool!Insert(h) => Container!Insert(h)
  BY DEF Pool!Insert, Container!Insert, Pool!IsFull, Container!IsFull,
         Pool!InsertBucket, Container!InsertBucket, Pool!InsertToContainer,
         Container!InsertToContainer, Pool!Cardinality, Container!Cardinality
<1>2. Pool!Erase(h) => Container!Erase(h)
  BY DEF Pool!Erase, Container!Erase, Pool!IsFirstHolding, Container!IsFirstHolding,
         Pool!Holding, Container!Holding
<1> QED
  BY <1>1, <1>2

\* The calls of a task and of the main thread on the pool.
ReaderCall(t) ==
    \/ Pool!AcquireRead(t) \/ Pool!WakeUp(t) \/ Pool!ReleaseRead(t)
    \/ Pool!ApplyAdd(t) \/ Pool!ApplyRemovals(t)

WriterCall(h) == Pool!Insert(h) \/ Pool!Erase(h)

PoolStep ==
    \/ UNCHANGED poolVars
    \/ \E t \in Tasks : ReaderCall(t)
    \/ \E h \in Hashes : WriterCall(h)

\* The container's inductive step carries over.
LEMMA PoolStepKeeps ==
  ASSUME Container!IInv, PoolStep
  PROVE  Container!IInv'
<1>1. Container!IInv /\ [Container!Next]_(Container!vars) => Container!IInv'
  BY PoolAssumption, Container!StepKeepsIInv DEF IsFiniteSet, Container!IsFiniteSet
<1>2. CASE UNCHANGED poolVars
  BY <1>1, <1>2 DEF poolVars, Container!vars
<1>3. ASSUME NEW t \in Tasks, ReaderCall(t)
      PROVE  Container!Next
  BY <1>3, SameReaders DEF Container!Next, Container!ReaderStep, ReaderCall
<1>4. ASSUME NEW h \in Hashes, WriterCall(h)
      PROVE  Container!Next
  BY <1>4, SameWriters DEF Container!Next, Container!WriterStep, WriterCall
<1> QED
  BY <1>1, <1>2, <1>3, <1>4 DEF PoolStep

\* A count of 0 means that no task reads.
LEMMA NobodyReads ==
  ASSUME Container!IInv, readerCount = 0, NEW t \in Tasks
  PROVE  reader[t] # "reading"
<1>1. Container!ReaderCountExact
  BY DEF Container!IInv
<1>2. Container!ReaderCountExact => (readerCount = 0 <=> Container!Reading = {})
  BY PoolAssumption, Container!CountIsZero DEF IsFiniteSet, Container!IsFiniteSet
<1> QED
  BY <1>1, <1>2 DEF Container!Reading

\* Whatever the calls on the pool do, a task that reads goes on reading unless it
\* releases, and the buckets change only when no task reads.
LEMMA ReadersUndisturbed ==
  ASSUME Container!IInv, PoolStep, NEW t \in Tasks, reader[t] = "reading"
  PROVE  /\ buckets' = buckets
         /\ reader'[t] = "reading" \/ Pool!ReleaseRead(t)
<1>0. /\ reader = [u \in Tasks |-> reader[u]]
      /\ readerCount \in Nat
  BY DEF Container!IInv, Container!TypeOK
<1>1. readerCount # 0
  BY NobodyReads
<1>2. \A u \in Tasks : reader[u] = "applying" => readerCount = 0
  BY DEF Container!IInv, Container!ApplyingAlone
<1>3. CASE UNCHANGED poolVars
  BY <1>3 DEF poolVars
<1>4. ASSUME NEW u \in Tasks, ReaderCall(u)
      PROVE  /\ buckets' = buckets
             /\ reader'[t] = "reading" \/ Pool!ReleaseRead(t)
  <2>1. CASE Pool!AcquireRead(u)
    BY <1>0, <2>1 DEF Pool!AcquireRead
  <2>2. CASE Pool!WakeUp(u)
    BY <1>0, <2>2 DEF Pool!WakeUp
  <2>3. CASE Pool!ReleaseRead(u)
    BY <1>0, <2>3 DEF Pool!ReleaseRead
  <2>4. CASE Pool!ApplyAdd(u) \/ Pool!ApplyRemovals(u)
    BY <1>1, <1>2, <2>4 DEF Pool!ApplyAdd, Pool!ApplyRemovals
  <2> QED
    BY <1>4, <2>1, <2>2, <2>3, <2>4 DEF ReaderCall
<1>5. ASSUME NEW h \in Hashes, WriterCall(h)
      PROVE  buckets' = buckets /\ reader'[t] = "reading"
  BY <1>0, <1>1, <1>5 DEF WriterCall, Pool!Insert, Pool!Erase, Pool!IsReading
<1> QED
  BY <1>3, <1>4, <1>5 DEF PoolStep

-----------------------------------------------------------------------------
(* What a step keeps.                                                      *)

\* A step after which the sub tasks that run are those that ran, with the buckets
\* they were given, leaves these buckets alone.
LEMMA StillFrozen ==
  ASSUME IInv, PoolStep,
         \A t \in Tasks : \A i \in Pool!BucketIdx :
            sub'[t][i].pc # "idle" =>
                sub[t][i].pc # "idle" /\ sub'[t][i].given = sub[t][i].given
  PROVE  BucketsFrozen'
<1> SUFFICES ASSUME NEW t \in Tasks, NEW i \in Pool!BucketIdx, sub'[t][i].pc # "idle"
             PROVE  buckets'[i] = sub'[t][i].given
  BY DEF BucketsFrozen, Pool!BucketIdx
<1>1. reader[t] = "reading" /\ buckets[i] = sub[t][i].given
  BY DEF IInv, TasksRead, SubTasksAwaited, BucketsFrozen
<1>2. buckets' = buckets
  BY <1>1, ReadersUndisturbed DEF IInv
<1> QED
  BY <1>1, <1>2

\* The calls of the main thread, and a step that changes nothing.
LEMMA ServiceKeeps ==
  ASSUME IInv, UNCHANGED <<job, sub>>,
         UNCHANGED poolVars \/ \E h \in Hashes : WriterCall(h)
  PROVE  IInv'
<1>1. PoolStep
  BY DEF PoolStep
<1>2. Container!IInv'
  BY <1>1, PoolStepKeeps DEF IInv
<1>3. Shaped'
  BY DEF IInv, Shaped, Pool!BucketIdx
<1>4. \A t \in Tasks : reader[t] = "reading" => reader'[t] = "reading"
  BY DEF WriterCall, Pool!Insert, Pool!Erase, poolVars
<1>5. TasksRead' /\ SubTasksAwaited'
  BY <1>4 DEF IInv, TasksRead, SubTasksAwaited, Pool!BucketIdx
<1>6. BucketsFrozen'
  BY <1>1, StillFrozen
<1> QED
  BY <1>2, <1>3, <1>5, <1>6 DEF IInv

\* init: a task that is not at work is given a block.
LEMMA StartKeeps ==
  ASSUME IInv, NEW t \in Tasks, NEW b \in CompactBlocks, Start(t, b)
  PROVE  IInv'
<1>0. PICK j : j = Parsed(b)
  OBVIOUS
<1>1. /\ job' = [job EXCEPT ![t] = j]
      /\ job[t].pc # "wait"
      /\ UNCHANGED <<poolVars, sub>>
      /\ PoolStep
      /\ j.pc = "acquire"
      /\ IsJob(j)
  BY <1>0 DEF Start, PoolStep, Parsed, IsJob
<1>2. Container!IInv'
  BY <1>1, PoolStepKeeps DEF IInv
<1>3. /\ Shaped'
      /\ \A u \in Tasks : u # t => job'[u] = job[u]
      /\ job'[t] = j
  BY <1>1 DEF IInv, Shaped, Pool!BucketIdx
<1>4. TasksRead'
  BY <1>1, <1>3 DEF IInv, TasksRead, poolVars
<1>5. SubTasksAwaited'
  BY <1>1, <1>3 DEF IInv, SubTasksAwaited, Pool!BucketIdx
<1>6. BucketsFrozen'
  BY <1>1, StillFrozen
<1> QED
  BY <1>2, <1>3, <1>4, <1>5, <1>6 DEF IInv

\* A step that changes the task object of t only.
LEMMA JobChanged ==
  ASSUME IInv, NEW t \in Tasks, NEW j, IsJob(j), job' = [job EXCEPT ![t] = j]
  PROVE  /\ job' = [u \in Tasks |-> job'[u]]
         /\ \A u \in Tasks : u # t => job'[u] = job[u]
         /\ \A u \in Tasks : IsJob(job'[u])
         /\ job'[t] = j
  BY DEF IInv, Shaped

\* A new value of its field pc.
LEMMA PcChanged ==
  ASSUME IInv, NEW t \in Tasks, NEW pc, job' = [job EXCEPT ![t].pc = pc]
  PROVE  /\ job' = [u \in Tasks |-> job'[u]]
         /\ \A u \in Tasks : u # t => job'[u] = job[u]
         /\ \A u \in Tasks : IsJob(job'[u])
         /\ job'[t].pc = pc
<1>1. PICK j : j = [job[t] EXCEPT !.pc = pc]
  OBVIOUS
<1>2. IsJob(job[t])
  BY DEF IInv, Shaped
<1>3. IsJob(j) /\ j.pc = pc
  BY <1>1, <1>2 DEF IsJob
<1>4. job' = [job EXCEPT ![t] = j]
  BY <1>1
<1> QED
  BY <1>3, <1>4, JobChanged

\* acquire_tx_pool
LEMMA AcquireKeeps ==
  ASSUME IInv, NEW t \in Tasks, Acquire(t)
  PROVE  IInv'
<1>0. PICK pc : pc = IF reader'[t] = "reading" THEN "dispatch" ELSE job[t].pc
  OBVIOUS
<1>1. /\ job[t].pc = "acquire"
      /\ Pool!AcquireRead(t) \/ Pool!WakeUp(t)
      /\ job' = [job EXCEPT ![t].pc = pc]
      /\ UNCHANGED sub
  BY <1>0 DEF Acquire
<1>2. PoolStep
  BY <1>1 DEF PoolStep, ReaderCall
<1>3. Container!IInv'
  BY <1>2, PoolStepKeeps DEF IInv
<1>4. /\ job' = [u \in Tasks |-> job'[u]]
      /\ \A u \in Tasks : u # t => job'[u] = job[u]
      /\ \A u \in Tasks : IsJob(job'[u])
      /\ job'[t].pc = pc
  BY <1>1, PcChanged
<1>5. Shaped'
  BY <1>1, <1>4 DEF IInv, Shaped, Pool!BucketIdx
<1>6. TasksRead'
  <2>1. reader[t] # "reading" /\ reader = [u \in Tasks |-> reader[u]]
    BY <1>1 DEF Pool!AcquireRead, Pool!WakeUp, IInv, Container!IInv, Container!TypeOK
  <2>2. \A u \in Tasks : u # t => reader'[u] = reader[u]
    BY <1>1, <2>1 DEF Pool!AcquireRead, Pool!WakeUp
  <2> QED
    BY <1>0, <1>1, <1>4, <2>2 DEF IInv, TasksRead
<1>7. SubTasksAwaited'
  BY <1>1, <1>4 DEF IInv, SubTasksAwaited, Pool!BucketIdx
<1>8. BucketsFrozen'
  BY <1>1, <1>2, StillFrozen
<1> QED
  BY <1>3, <1>5, <1>6, <1>7, <1>8 DEF IInv

\* _dispatch: the sub tasks are given the buckets as they are, and the task has
\* the pool.
LEMMA DispatchKeeps ==
  ASSUME IInv, NEW t \in Tasks, Dispatch(t)
  PROVE  IInv'
<1>0. PICK given : given = [i \in Pool!BucketIdx |->
                  IF i \in Dispatched
                  THEN [IdleSub EXCEPT !.pc = "next", !.given = buckets[i],
                                       !.todo = buckets[i]]
                  ELSE IdleSub]
  OBVIOUS
<1>1. /\ job[t].pc = "dispatch"
      /\ job' = [job EXCEPT ![t].pc = "wait"]
      /\ sub' = [sub EXCEPT ![t] = given]
      /\ UNCHANGED poolVars
  BY <1>0 DEF Dispatch
<1>2. PoolStep
  BY <1>1 DEF PoolStep
<1>3. Container!IInv'
  BY <1>2, PoolStepKeeps DEF IInv
<1>4. /\ job' = [u \in Tasks |-> job'[u]]
      /\ \A u \in Tasks : u # t => job'[u] = job[u]
      /\ \A u \in Tasks : IsJob(job'[u])
      /\ job'[t].pc = "wait"
  BY <1>1, PcChanged
<1>5. \A i \in Pool!BucketIdx :
         /\ IsSub(given[i])
         /\ given[i].pc # "idle" => given[i].given = buckets[i]
  BY <1>0 DEF IdleSub, IsSub
<1>6. /\ sub' = [u \in Tasks |-> sub'[u]]
      /\ \A u \in Tasks : u # t => sub'[u] = sub[u]
      /\ sub'[t] = given
  BY <1>1 DEF IInv, Shaped
<1>7. Shaped'
  <2>1. given = [i \in Pool!BucketIdx |-> given[i]]
    BY <1>0
  <2>2. ASSUME NEW u \in Tasks
        PROVE  /\ sub'[u] = [i \in Pool!BucketIdx |-> sub'[u][i]]
               /\ \A i \in Pool!BucketIdx : IsSub(sub'[u][i])
    BY <1>5, <1>6, <2>1 DEF IInv, Shaped
  <2> QED
    BY <1>4, <1>6, <2>2 DEF Shaped, Pool!BucketIdx
<1>8. TasksRead'
  BY <1>1, <1>4 DEF IInv, TasksRead, poolVars
<1>9. SubTasksAwaited'
  BY <1>1, <1>4, <1>6 DEF IInv, SubTasksAwaited, Pool!BucketIdx
<1>10. BucketsFrozen'
  BY <1>1, <1>5, <1>6 DEF IInv, BucketsFrozen, Pool!BucketIdx, poolVars
<1> QED
  BY <1>3, <1>7, <1>8, <1>9, <1>10 DEF IInv

\* The end of _execute: no sub task is left, and the task still has the pool.
LEMMA CountKeeps ==
  ASSUME IInv, NEW t \in Tasks, Count(t)
  PROVE  IInv'
<1>0. PICK m, pc : /\ m = MissingIndices(job[t])
                    /\ pc = IF AddsUp(job[t]) THEN "release" ELSE "failed"
  OBVIOUS
<1>1. /\ job[t].pc = "wait"
      /\ SubTasksDone(t)
      /\ job' = [job EXCEPT ![t].missing = m, ![t].pc = pc]
      /\ UNCHANGED <<poolVars, sub>>
      /\ pc \in {"release", "failed"}
  BY <1>0 DEF Count
<1>2. PoolStep
  BY <1>1 DEF PoolStep
<1>3. Container!IInv'
  BY <1>2, PoolStepKeeps DEF IInv
<1>4. PICK j : j = [job[t] EXCEPT !.missing = m, !.pc = pc]
  OBVIOUS
<1>5. IsJob(j) /\ j.pc = pc
  <2>1. IsJob(job[t])
    BY DEF IInv, Shaped
  <2> QED
    BY <1>4, <2>1 DEF IsJob
<1>6. job' = [job EXCEPT ![t] = j]
  BY <1>1, <1>4 DEF IInv, Shaped
<1>7. /\ job' = [u \in Tasks |-> job'[u]]
      /\ \A u \in Tasks : u # t => job'[u] = job[u]
      /\ \A u \in Tasks : IsJob(job'[u])
      /\ job'[t].pc = pc
  BY <1>5, <1>6, JobChanged
<1>8. Shaped'
  BY <1>1, <1>7 DEF IInv, Shaped, Pool!BucketIdx
<1>9. TasksRead'
  BY <1>1, <1>7 DEF IInv, TasksRead, poolVars
<1>10. SubTasksAwaited'
  BY <1>1, <1>7 DEF IInv, SubTasksAwaited, SubTasksDone, Pool!BucketIdx
<1>11. BucketsFrozen'
  BY <1>1, <1>2, StillFrozen
<1> QED
  BY <1>3, <1>8, <1>9, <1>10, <1>11 DEF IInv

\* on_finished_reading_tx_pool: the other readers stay where they are, or are
\* notified.
LEMMA ReleaseKeeps ==
  ASSUME IInv, NEW t \in Tasks, Release(t)
  PROVE  IInv'
<1>0. PICK pc : pc = IF reader'[t] = "idle" THEN "done" ELSE job[t].pc
  OBVIOUS
<1>1. /\ job[t].pc = "release"
      /\ Pool!ReleaseRead(t) \/ Pool!ApplyAdd(t) \/ Pool!ApplyRemovals(t)
      /\ job' = [job EXCEPT ![t].pc = pc]
      /\ UNCHANGED sub
      /\ pc \in {"release", "done"}
  BY <1>0 DEF Release
<1>2. PoolStep
  BY <1>1 DEF PoolStep, ReaderCall
<1>3. Container!IInv'
  BY <1>2, PoolStepKeeps DEF IInv
<1>4. /\ job' = [u \in Tasks |-> job'[u]]
      /\ \A u \in Tasks : u # t => job'[u] = job[u]
      /\ \A u \in Tasks : IsJob(job'[u])
      /\ job'[t].pc = pc
  BY <1>1, PcChanged
<1>5. Shaped'
  BY <1>1, <1>4 DEF IInv, Shaped, Pool!BucketIdx
<1>6. TasksRead'
  <2>1. reader = [u \in Tasks |-> reader[u]]
    BY DEF IInv, Container!IInv, Container!TypeOK
  <2>2. \A u \in Tasks : u # t /\ reader[u] = "reading" => reader'[u] = "reading"
    BY <1>1, <2>1 DEF Pool!ReleaseRead, Pool!ApplyAdd, Pool!ApplyRemovals, Pool!NotifyAll
  <2> QED
    BY <1>1, <1>4, <2>2 DEF IInv, TasksRead
<1>7. SubTasksAwaited'
  BY <1>1, <1>4 DEF IInv, SubTasksAwaited, Pool!BucketIdx
<1>8. BucketsFrozen'
  BY <1>1, <1>2, StillFrozen
<1> QED
  BY <1>3, <1>5, <1>6, <1>7, <1>8 DEF IInv

\* A step of the sub task of bucket i, which may change what the task shares with
\* it: it runs before the step, and keeps its bucket unless it ends.
LEMMA SubMoved ==
  ASSUME IInv, NEW t \in Tasks, NEW i \in Pool!BucketIdx, NEW j, NEW s,
         IsJob(j), j.pc = job[t].pc, job' = [job EXCEPT ![t] = j],
         IsSub(s), sub' = [sub EXCEPT ![t][i] = s],
         sub[t][i].pc # "idle", s.pc # "idle" => s.given = sub[t][i].given,
         UNCHANGED poolVars
  PROVE  IInv'
<1>1. PoolStep
  BY DEF PoolStep
<1>2. Container!IInv'
  BY <1>1, PoolStepKeeps DEF IInv
<1>3. /\ job' = [u \in Tasks |-> job'[u]]
      /\ \A u \in Tasks : u # t => job'[u] = job[u]
      /\ \A u \in Tasks : IsJob(job'[u])
      /\ job'[t] = j
  BY JobChanged
<1>4. PICK q : q = [sub[t] EXCEPT ![i] = s]
  OBVIOUS
<1>5. /\ q = [k \in Pool!BucketIdx |-> q[k]]
      /\ q[i] = s
      /\ \A k \in Pool!BucketIdx : k # i => q[k] = sub[t][k]
      /\ \A k \in Pool!BucketIdx : IsSub(q[k])
  BY <1>4 DEF IInv, Shaped
<1>6. /\ sub' = [u \in Tasks |-> sub'[u]]
      /\ \A u \in Tasks : u # t => sub'[u] = sub[u]
      /\ sub'[t] = q
  BY <1>4 DEF IInv, Shaped
<1>7. Shaped'
  <2>1. ASSUME NEW u \in Tasks
        PROVE  /\ sub'[u] = [k \in Pool!BucketIdx |-> sub'[u][k]]
               /\ \A k \in Pool!BucketIdx : IsSub(sub'[u][k])
    BY <1>5, <1>6 DEF IInv, Shaped
  <2> QED
    BY <1>3, <1>6, <2>1 DEF Shaped, Pool!BucketIdx
<1>8. \A u \in Tasks : job'[u].pc = job[u].pc
  BY <1>3
<1>9. TasksRead'
  BY <1>8 DEF IInv, TasksRead, poolVars
<1>10. \A u \in Tasks : \A k \in Pool!BucketIdx :
          sub'[u][k].pc # "idle" =>
              sub[u][k].pc # "idle" /\ sub'[u][k].given = sub[u][k].given
  BY <1>5, <1>6
<1>11. SubTasksAwaited'
  BY <1>8, <1>10 DEF IInv, SubTasksAwaited, Pool!BucketIdx
<1>12. BucketsFrozen'
  BY <1>1, <1>10, StillFrozen
<1> QED
  BY <1>2, <1>7, <1>9, <1>11, <1>12 DEF IInv

\* The objects before a step of the sub task.
LEMMA Objects ==
  ASSUME IInv, NEW t \in Tasks, NEW i \in Pool!BucketIdx
  PROVE  /\ IsJob(job[t]) /\ IsSub(sub[t][i])
         /\ job = [job EXCEPT ![t] = job[t]]
  BY DEF IInv, Shaped

\* A step of the sub task that changes its own fields only.
LEMMA SubAlone ==
  ASSUME IInv, NEW t \in Tasks, NEW i \in Pool!BucketIdx, NEW s,
         IsSub(s), sub' = [sub EXCEPT ![t][i] = s],
         sub[t][i].pc # "idle", s.pc # "idle" => s.given = sub[t][i].given,
         UNCHANGED <<poolVars, job>>
  PROVE  IInv'
<1>1. IsJob(job[t]) /\ job' = [job EXCEPT ![t] = job[t]]
  BY Objects
<1> QED
  BY <1>1, SubMoved

\* Taking the next hash, with the claim of its position.
LEMMA SubNextKeeps ==
  ASSUME IInv, NEW t \in Tasks, NEW i \in Pool!BucketIdx, SubNext(t, i)
  PROVE  IInv'
<1>1. PICK r : r = sub[t][i]
  OBVIOUS
<1>2. PICK h \in r.todo :
         LET c == job[t].block.compactOf[h]
             rest == [r EXCEPT !.todo = @ \ {h}]
         IN  \/ sub' = [sub EXCEPT ![t][i] = rest] /\ UNCHANGED job
             \/ sub' = [sub EXCEPT ![t][i] = [rest EXCEPT !.pc = "check"]] /\ UNCHANGED job
             \/ /\ sub' = [sub EXCEPT ![t][i] =
                       [rest EXCEPT !.pc = "look", !.hash = h,
                                    !.pos = PosOf(job[t].block, c),
                                    !.dup = c \in job[t].claimed]]
                /\ job' = [job EXCEPT ![t].claimed = @ \cup {c}]
  BY <1>1, Zenon DEF SubNext
<1>3. r.pc = "next" /\ IsSub(r) /\ IsJob(job[t]) /\ UNCHANGED poolVars
  BY <1>1, Objects DEF SubNext
<1>4. PICK c : c = job[t].block.compactOf[h]
  OBVIOUS
<1>5. PICK rest : rest = [r EXCEPT !.todo = @ \ {h}]
  OBVIOUS
<1>6. IsSub(rest) /\ rest.pc = "next" /\ rest.given = r.given
  BY <1>3, <1>5 DEF IsSub
<1>7. CASE sub' = [sub EXCEPT ![t][i] = rest] /\ UNCHANGED job
  BY <1>1, <1>3, <1>6, <1>7, SubAlone
<1>8. CASE sub' = [sub EXCEPT ![t][i] = [rest EXCEPT !.pc = "check"]] /\ UNCHANGED job
  <2>1. PICK s : s = [rest EXCEPT !.pc = "check"]
    OBVIOUS
  <2>2. IsSub(s) /\ s.given = r.given
    BY <1>6, <2>1 DEF IsSub
  <2> QED
    BY <1>1, <1>3, <1>8, <2>1, <2>2, SubAlone
<1>9. CASE /\ sub' = [sub EXCEPT ![t][i] =
                 [rest EXCEPT !.pc = "look", !.hash = h, !.pos = PosOf(job[t].block, c),
                              !.dup = c \in job[t].claimed]]
           /\ job' = [job EXCEPT ![t].claimed = @ \cup {c}]
  <2>1. PICK pos, dup : pos = PosOf(job[t].block, c) /\ dup = (c \in job[t].claimed)
    OBVIOUS
  <2>2. PICK s : s = [rest EXCEPT !.pc = "look", !.hash = h, !.pos = pos, !.dup = dup]
    OBVIOUS
  <2>3. IsSub(s) /\ s.given = r.given
    BY <1>6, <2>2 DEF IsSub
  <2>4. PICK j : j = [job[t] EXCEPT !.claimed = @ \cup {c}]
    OBVIOUS
  <2>5. IsJob(j) /\ j.pc = job[t].pc
    BY <1>3, <2>4 DEF IsJob
  <2>6. job' = [job EXCEPT ![t] = j] /\ sub' = [sub EXCEPT ![t][i] = s]
    BY <1>9, <2>1, <2>2, <2>4, Zenon
  <2> QED
    BY <1>1, <1>3, <2>3, <2>5, <2>6, SubMoved
<1> QED
  BY <1>2, <1>4, <1>5, <1>7, <1>8, <1>9, Zenon

\* A step that moves the sub task on, changing one field of what is shared.
LEMMA SubWrites ==
  ASSUME IInv, NEW t \in Tasks, NEW i \in Pool!BucketIdx, NEW pc, NEW j,
         IsJob(j), j.pc = job[t].pc, job' = [job EXCEPT ![t] = j],
         sub' = [sub EXCEPT ![t][i].pc = pc], sub[t][i].pc # "idle",
         UNCHANGED poolVars
  PROVE  IInv'
<1>1. PICK r : r = sub[t][i]
  OBVIOUS
<1>2. PICK s : s = [r EXCEPT !.pc = pc]
  OBVIOUS
<1>3. IsSub(s) /\ s.given = sub[t][i].given
  <2>1. IsSub(r)
    BY <1>1, Objects
  <2> QED
    BY <1>1, <1>2, <2>1 DEF IsSub
<1>4. sub' = [sub EXCEPT ![t][i] = s]
  BY <1>1, <1>2
<1> QED
  BY <1>3, <1>4, SubMoved

\* The lookup of the contents and the read of the end of the vector.
LEMMA SubLookKeeps ==
  ASSUME IInv, NEW t \in Tasks, NEW i \in Pool!BucketIdx, SubLook(t, i)
  PROVE  IInv'
<1>1. PICK pc, end : sub' = [sub EXCEPT ![t][i].pc = pc, ![t][i].end = end]
  BY DEF SubLook
<1>2. sub[t][i].pc = "look" /\ UNCHANGED <<poolVars, job>>
  BY DEF SubLook
<1>3. PICK r : r = sub[t][i]
  OBVIOUS
<1>4. PICK s : s = [r EXCEPT !.pc = pc, !.end = end]
  OBVIOUS
<1>5. IsSub(s) /\ s.given = sub[t][i].given
  <2>1. IsSub(r)
    BY <1>3, Objects
  <2> QED
    BY <1>3, <1>4, <2>1 DEF IsSub
<1>6. sub' = [sub EXCEPT ![t][i] = s]
  BY <1>1, <1>3, <1>4 DEF IInv, Shaped
<1> QED
  BY <1>2, <1>5, <1>6, SubAlone

\* All steps of a sub task: each keeps the bucket it was given.
LEMMA SubStepKeeps ==
  ASSUME IInv, NEW t \in Tasks, NEW i \in Pool!BucketIdx, SubStep(t, i)
  PROVE  IInv'
<1>0. IsJob(job[t]) /\ IsSub(sub[t][i]) /\ job = [job EXCEPT ![t] = job[t]]
  BY Objects
<1>1. CASE SubNext(t, i)
  BY <1>1, SubNextKeeps
<1>2. CASE SubLook(t, i)
  BY <1>2, SubLookKeeps
<1>3. CASE SubPush(t, i)
  <2>1. PICK cells, m : /\ cells = Stored(job[t].cells, sub[t][i].end, sub[t][i].pos)
                        /\ m = SubSeq(cells, 1, sub[t][i].end + 1)
    OBVIOUS
  <2>2. PICK j : j = [job[t] EXCEPT !.cells = cells, !.missing = m]
    OBVIOUS
  <2>3. IsJob(j) /\ j.pc = job[t].pc
    BY <1>0, <2>2 DEF IsJob
  <2>4. /\ sub[t][i].pc = "push" /\ sub' = [sub EXCEPT ![t][i].pc = "empty"]
        /\ job' = [job EXCEPT ![t] = j] /\ UNCHANGED poolVars
    <3>1. /\ sub[t][i].pc = "push" /\ sub' = [sub EXCEPT ![t][i].pc = "empty"]
          /\ job' = [job EXCEPT ![t].cells = cells, ![t].missing = m] /\ UNCHANGED poolVars
      BY <1>3, <2>1, Zenon DEF SubPush, Goto
    <3> QED
      BY <2>2, <3>1 DEF IInv, Shaped
  <2> QED
    BY <2>3, <2>4, SubWrites
<1>4. CASE SubSetType(t, i)
  <2>1. PICK pc, v : /\ job' = [job EXCEPT ![t].types[sub[t][i].pos] = v]
                     /\ sub' = [sub EXCEPT ![t][i].pc = pc]
    BY <1>4, Zenon DEF SubSetType, Goto
  <2>2. PICK y : y = [job[t].types EXCEPT ![sub[t][i].pos] = v]
    OBVIOUS
  <2>3. PICK j : j = [job[t] EXCEPT !.types = y]
    OBVIOUS
  <2>4. IsJob(j) /\ j.pc = job[t].pc
    BY <1>0, <2>3 DEF IsJob
  <2>5. sub[t][i].pc # "idle" /\ UNCHANGED poolVars /\ job' = [job EXCEPT ![t] = j]
    BY <1>4, <2>1, <2>2, <2>3 DEF SubSetType
  <2> QED
    BY <2>1, <2>4, <2>5, SubWrites
<1>5. CASE SubSetSid(t, i)
  <2>1. PICK pc, v : /\ job' = [job EXCEPT ![t].sids[sub[t][i].pos] = v]
                     /\ sub' = [sub EXCEPT ![t][i].pc = pc]
    BY <1>5, Zenon DEF SubSetSid, Goto
  <2>2. PICK y : y = [job[t].sids EXCEPT ![sub[t][i].pos] = v]
    OBVIOUS
  <2>3. PICK j : j = [job[t] EXCEPT !.sids = y]
    OBVIOUS
  <2>4. IsJob(j) /\ j.pc = job[t].pc
    BY <1>0, <2>3 DEF IsJob
  <2>5. sub[t][i].pc # "idle" /\ UNCHANGED poolVars /\ job' = [job EXCEPT ![t] = j]
    BY <1>5, <2>1, <2>2, <2>3 DEF SubSetSid
  <2> QED
    BY <2>1, <2>4, <2>5, SubWrites
<1>6. CASE SubCount(t, i)
  <2>1. PICK v : job' = [job EXCEPT ![t].counter = v]
    BY <1>6, Zenon DEF SubCount
  <2>2. PICK j : j = [job[t] EXCEPT !.counter = v]
    OBVIOUS
  <2>3. IsJob(j) /\ j.pc = job[t].pc
    BY <1>0, <2>2 DEF IsJob
  <2>4. /\ sub[t][i].pc # "idle" /\ sub' = [sub EXCEPT ![t][i].pc = "check"]
        /\ UNCHANGED poolVars /\ job' = [job EXCEPT ![t] = j]
    BY <1>6, <2>1, <2>2 DEF SubCount, Goto
  <2> QED
    BY <2>3, <2>4, SubWrites
<1>7. CASE SubCheck(t, i)
  <2>1. PICK pc : sub' = [sub EXCEPT ![t][i].pc = pc]
    BY <1>7, Zenon DEF SubCheck, Goto
  <2>2. sub[t][i].pc = "check" /\ UNCHANGED poolVars /\ job' = [job EXCEPT ![t] = job[t]]
    BY <1>0, <1>7 DEF SubCheck
  <2> QED
    BY <1>0, <2>1, <2>2, SubWrites
<1>8. CASE SubEnd(t, i)
  <2>1. IsSub(IdleSub) /\ IdleSub.pc = "idle"
    BY DEF IsSub, IdleSub
  <2> QED
    BY <1>8, <2>1, SubAlone DEF SubEnd
<1> QED
  BY <1>1, <1>2, <1>3, <1>4, <1>5, <1>6, <1>7, <1>8 DEF SubStep

-----------------------------------------------------------------------------
\* The pool starts without readers and writes to apply.
LEMMA InitIInv == Init => IInv
<1> SUFFICES ASSUME Init PROVE IInv
  OBVIOUS
<1>1. Cardinality(StartKnown) \in Nat /\ (Cardinality(StartKnown) = 0 <=> StartKnown = {})
  BY MappingAssumption, FS_CardinalityType, FS_EmptySet
<1>2. Container!TypeOK
  <2>1. buckets \in [Container!BucketIdx -> SUBSET Hashes]
    BY MappingAssumption DEF Init, Container!BucketIdx
  <2>2. currentBucketIdx \in Container!BucketIdx
    BY <1>1, MappingAssumption DEF Init, Container!BucketIdx
  <2>3. itemsToAdd \in Seq(Hashes) /\ reader \in [Tasks -> Container!ReaderStates]
    BY DEF Init, Container!ReaderStates
  <2> QED
    BY <2>1, <2>2, <2>3 DEF Init, Container!TypeOK
<1>3. Container!ReaderCountExact
  <2>1. Container!Reading = {}
    BY DEF Init, Container!Reading
  <2>2. Container!Cardinality({}) = 0
    BY FS_EmptySet DEF Cardinality, Container!Cardinality
  <2> QED
    BY <2>1, <2>2 DEF Init, Container!ReaderCountExact
<1>4. /\ Container!ApplyingAlone /\ Container!NothingLeftBehind
      /\ Container!DeferredIndexFresh /\ Container!NoLostWakeup
  BY DEF Init, Container!ApplyingAlone, Container!NothingLeftBehind,
         Container!DeferredIndexFresh, Container!NoLostWakeup, Container!IsWritePending
<1>5. PICK j : j = [Parsed(NoBlock) EXCEPT !.pc = "idle"]
  OBVIOUS
<1>6. IsJob(j) /\ j.pc = "idle"
  BY <1>5 DEF IsJob, Parsed
<1>7. /\ job = [t \in Tasks |-> j]
      /\ sub = [t \in Tasks |-> [i \in Pool!BucketIdx |-> IdleSub]]
  BY <1>5 DEF Init
<1>8. IsSub(IdleSub) /\ IdleSub.pc = "idle"
  BY DEF IsSub, IdleSub
<1>9. Shaped
  BY <1>6, <1>7, <1>8 DEF Shaped
<1>10. TasksRead /\ SubTasksAwaited /\ BucketsFrozen
  BY <1>6, <1>7, <1>8 DEF TasksRead, SubTasksAwaited, BucketsFrozen
<1> QED
  BY <1>2, <1>3, <1>4, <1>9, <1>10 DEF IInv, Container!IInv

\* Every step of a task, of a sub task and of the main thread keeps it.
LEMMA StepKeepsIInv == IInv /\ [Next]_vars => IInv'
<1> SUFFICES ASSUME IInv, [Next]_vars PROVE IInv'
  OBVIOUS
<1>1. ASSUME NEW t \in Tasks, TaskStep(t)
      PROVE  IInv'
  BY <1>1, AcquireKeeps, DispatchKeeps, CountKeeps, ReleaseKeeps, SubStepKeeps DEF TaskStep
<1>2. ASSUME NEW t \in Tasks, NEW b \in CompactBlocks, Start(t, b)
      PROVE  IInv'
  BY <1>2, StartKeeps
<1>3. ASSUME NEW h \in Hashes, ServiceStep(h)
      PROVE  IInv'
  <2>1. /\ UNCHANGED <<job, sub>>
        /\ UNCHANGED poolVars \/ WriterCall(h)
    BY <1>3 DEF ServiceStep, AddTransaction, SetContents, RemoveTransaction, TrackSeen,
                EraseFromPool, WriterCall
  <2> QED
    BY <2>1, ServiceKeeps
<1>4. CASE UNCHANGED vars
  BY <1>4, ServiceKeeps DEF vars
<1> QED
  BY <1>1, <1>2, <1>3, <1>4 DEF Next

\* The inductive invariant holds: the pool's own, and that the tasks whose sub
\* tasks run are counted by _reader_count.
THEOREM Invariance == Spec => []IInv
  BY InitIInv, StepKeepsIInv, PTL DEF Spec

\* A sub task of a mapping finds in its bucket, until it ends, exactly the
\* transactions that were there when _dispatch gave it the bucket, for any number
\* of tasks, buckets and transactions and whatever the main thread calls meanwhile.
THEOREM BucketsStandStill == Spec => []BucketsFrozen
<1>1. IInv => BucketsFrozen
  BY DEF IInv
<1> QED
  BY <1>1, Invariance, PTL

\* A mapping that fails its own count still reads the pool: the exception leaves
\* _execute before on_finished_reading_tx_pool, so that no write is applied again.
THEOREM FailedTasksKeepThePool ==
  Spec => [](\A t \in Tasks : job[t].pc = "failed" => reader[t] = "reading")
<1>1. IInv => \A t \in Tasks : job[t].pc = "failed" => reader[t] = "reading"
  BY DEF IInv, TasksRead
<1> QED
  BY <1>1, Invariance, PTL

-----------------------------------------------------------------------------
(* Numbers, sequences and the sort.                                        *)

\* A product that is smaller than a factor is 0.
LEMMA Multiple ==
  ASSUME NEW M \in Nat \ {0}, NEW z \in Int, M * z < M, -M < M * z
  PROVE  z = 0
<1>1. CASE z >= 1
  <2>1. M * z >= M
    BY <1>1
  <2> QED
    BY <2>1
<1>2. CASE z <= -1
  <2>1. M * z <= -M
    BY <1>2
  <2> QED
    BY <2>1
<1> QED
  BY <1>1, <1>2

\* The rest of a number below twice the divisor.
LEMMA Rest ==
  ASSUME NEW M \in Nat \ {0}, NEW x \in 0 .. M - 1
  PROVE  x % M = x /\ (x + M) % M = x
<1>1. ASSUME NEW y \in Int, NEW k \in Int, y = x + M * k
      PROVE  y % M = x
  <2>1. PICK q \in Int, r \in 0 .. M - 1 : r = y % M /\ y = M * q + r
    <3>1. y \div M \in Int /\ y % M \in 0 .. M - 1 /\ y = M * (y \div M) + (y % M)
      OBVIOUS
    <3> QED
      BY <3>1
  <2>2. PICK z \in Int : z = k - q
    OBVIOUS
  <2>3. M * z = M * k - M * q
    BY <2>2
  <2>4. r - x = M * z
    BY <1>1, <2>1, <2>3
  <2>5. M * z \in Int /\ M * z < M /\ -M < M * z
    BY <2>1, <2>4
  <2>6. z = 0
    BY <2>5, Multiple
  <2> QED
    BY <2>1, <2>4, <2>6
<1>2. x = x + M * 0 /\ x + M = x + M * 1
  OBVIOUS
<1> QED
  BY <1>1, <1>2

\* fetch_add on a counter of M values.
LEMMA RestOfSum ==
  ASSUME NEW M \in Nat \ {0}, NEW x \in 0 .. M - 1, NEW y \in 0 .. M - 1
  PROVE  (x + y) % M = IF x + y < M THEN x + y ELSE x + y - M
<1>1. CASE x + y < M
  <2>1. x + y \in 0 .. M - 1
    BY <1>1
  <2> QED
    BY <1>1, <2>1, Rest
<1>2. CASE x + y >= M
  <2>1. PICK z \in 0 .. M - 1 : z = x + y - M
    BY <1>2
  <2>2. x + y = z + M
    BY <2>1
  <2> QED
    BY <1>2, <2>1, <2>2, Rest
<1> QED
  BY <1>1, <1>2

-----------------------------------------------------------------------------
(* The sort.                                                               *)

\* The elements that come before element k of s, or are it.
UpTo(s, k) == {l \in DOMAIN s : s[l] < s[k] \/ (s[l] = s[k] /\ l <= k)}

\* Elements have different ranks, and a smaller one has no larger rank.
LEMMA RankGrows ==
  ASSUME NEW n \in Nat, NEW s \in [1 .. n -> Nat]
  PROVE  /\ \A k \in 1 .. n : Rank(s, k) \in 1 .. n
         /\ \A k, m \in 1 .. n : k # m => Rank(s, k) # Rank(s, m)
         /\ \A k, m \in 1 .. n : Rank(s, k) < Rank(s, m) => s[k] <= s[m]
<1> DEFINE D == 1 .. n
<1>1. \A l \in D : s[l] \in Nat /\ l \in Nat
  OBVIOUS
<1>2. IsFiniteSet(D) /\ Cardinality(D) = n
  <2>1. 1 \in Int /\ n \in Int
    OBVIOUS
  <2> QED
    BY <2>1, FS_Interval
<1>3. \A l \in D : UpTo(s, l) \subseteq D /\ l \in UpTo(s, l)
  BY <1>1 DEF UpTo
<1>4. \A l \in D : /\ IsFiniteSet(UpTo(s, l))
                   /\ Cardinality(UpTo(s, l)) \in 1 .. n
  <2> TAKE l \in D
  <2>1. /\ IsFiniteSet(UpTo(s, l)) /\ Cardinality(UpTo(s, l)) <= n
        /\ UpTo(s, l) # {}
    BY <1>2, <1>3, FS_Subset
  <2>2. Cardinality(UpTo(s, l)) \in Nat /\ Cardinality(UpTo(s, l)) # 0
    BY <2>1, FS_CardinalityType, FS_EmptySet
  <2> QED
    BY <2>1, <2>2
<1>5. \A l \in D : Rank(s, l) = Cardinality(UpTo(s, l))
  BY DEF Rank, UpTo
<1>6. ASSUME NEW a \in D, NEW b \in D, s[a] < s[b] \/ (s[a] = s[b] /\ a < b)
      PROVE  Rank(s, a) < Rank(s, b)
  <2>1. UpTo(s, a) \subseteq UpTo(s, b)
    BY <1>1, <1>6 DEF UpTo
  <2>2. b \notin UpTo(s, a)
    BY <1>1, <1>6 DEF UpTo
  <2>3. b \in UpTo(s, b)
    BY <1>3
  <2>4. /\ Cardinality(UpTo(s, a)) <= Cardinality(UpTo(s, b))
        /\ Cardinality(UpTo(s, a)) # Cardinality(UpTo(s, b))
    BY <1>4, <2>1, <2>2, <2>3, FS_Subset
  <2> QED
    BY <1>4, <1>5, <2>4
<1>7. \A k \in D : Rank(s, k) \in 1 .. n
  BY <1>4, <1>5
<1>8. ASSUME NEW k \in D, NEW m \in D, k # m
      PROVE  Rank(s, k) # Rank(s, m) /\ (Rank(s, k) < Rank(s, m) => s[k] <= s[m])
  <2>1. s[k] < s[m] \/ s[m] < s[k] \/ (s[k] = s[m] /\ (k < m \/ m < k))
    BY <1>1, <1>8
  <2>2. PICK x \in Nat, y \in Nat : x = Rank(s, k) /\ y = Rank(s, m)
    <3>1. Rank(s, k) \in Nat /\ Rank(s, m) \in Nat
      BY <1>7
    <3> QED
      BY <3>1
  <2>3. (s[k] < s[m] \/ (s[k] = s[m] /\ k < m)) => x < y
    BY <1>6, <2>2
  <2>4. (s[m] < s[k] \/ (s[k] = s[m] /\ m < k)) => y < x
    BY <1>6, <2>2
  <2>5. PICK u \in Nat, v \in Nat : u = s[k] /\ v = s[m]
    BY <1>1
  <2>6. x # y /\ (x < y => u <= v)
    BY <2>1, <2>3, <2>4, <2>5
  <2> QED
    BY <2>2, <2>5, <2>6
<1>9. \A k, m \in D : Rank(s, k) < Rank(s, m) => s[k] <= s[m]
  <2> TAKE k, m \in D
  <2>1. CASE k = m
    BY <1>1, <2>1
  <2>2. CASE k # m
    BY <1>8, <2>2
  <2> QED
    BY <2>1, <2>2
<1> QED
  BY <1>7, <1>8, <1>9

\* For each rank there is one element.
LEMMA RanksTaken ==
  ASSUME NEW n \in Nat, NEW s \in [1 .. n -> Nat]
  PROVE  \E g \in [1 .. n -> 1 .. n] :
            /\ \A m \in 1 .. n : Rank(s, g[m]) = m
            /\ \A k \in 1 .. n : g[Rank(s, k)] = k
            /\ Sorted(s) = [m \in 1 .. n |-> s[g[m]]]
<1> DEFINE D == 1 .. n
           f == [k \in D |-> Rank(s, k)]
           g == [m \in D |-> CHOOSE k \in D : Rank(s, k) = m]
<1>1. IsFiniteSet(D)
  <2>1. 1 \in Int /\ n \in Int
    OBVIOUS
  <2> QED
    BY <2>1, FS_Interval
<1>2. /\ \A k \in D : Rank(s, k) \in D
      /\ \A k, m \in D : Rank(s, k) = Rank(s, m) => k = m
  BY RankGrows
<1>3. f \in Injection(D, D)
  BY <1>2 DEF Injection, IsInjective
<1>4. f \in Surjection(D, D)
  BY <1>1, <1>3, FS_Injection
<1>5. \A m \in D : \E k \in D : Rank(s, k) = m
  BY <1>4 DEF Surjection
<1>6. \A m \in D : g[m] \in D /\ Rank(s, g[m]) = m
  BY <1>5
<1>7. DOMAIN s = D
  OBVIOUS
<1>8. Sorted(s) = [m \in D |-> s[g[m]]]
  BY <1>7 DEF Sorted
<1>9. g \in [D -> D]
  BY <1>6
<1> HIDE DEF g, f, D
<1>10. \A k \in D : g[Rank(s, k)] = k
  BY <1>2, <1>6
<1> QED
  BY <1>6, <1>8, <1>9, <1>10 DEF D

\* What std::sort gives: the elements of s, in order.
LEMMA SortSorts ==
  ASSUME NEW n \in Nat, NEW s \in [1 .. n -> Nat]
  PROVE  /\ Sorted(s) \in [1 .. n -> Nat]
         /\ \A k \in 1 .. n : \E m \in 1 .. n : Sorted(s)[m] = s[k]
         /\ \A m \in 1 .. n : \E k \in 1 .. n : Sorted(s)[m] = s[k]
         /\ (\A k, l \in 1 .. n : k # l => s[k] # s[l]) =>
               \A m, l \in 1 .. n : m < l => Sorted(s)[m] < Sorted(s)[l]
<1> DEFINE D == 1 .. n
<1>1. PICK g \in [D -> D] : /\ \A m \in D : Rank(s, g[m]) = m
                            /\ \A k \in D : g[Rank(s, k)] = k
                            /\ Sorted(s) = [m \in D |-> s[g[m]]]
  BY RanksTaken
<1>2. /\ \A k \in D : Rank(s, k) \in D
      /\ \A k, m \in D : Rank(s, k) < Rank(s, m) => s[k] <= s[m]
  BY RankGrows
<1>3. PICK r : r = Sorted(s)
  OBVIOUS
<1>4. r \in [D -> Nat] /\ \A m \in D : r[m] = s[g[m]]
  BY <1>1, <1>3
<1>5. \A k \in D : \E m \in D : r[m] = s[k]
  <2> TAKE k \in D
  <2>1. Rank(s, k) \in D /\ r[Rank(s, k)] = s[k]
    BY <1>1, <1>2, <1>4
  <2> QED
    BY <2>1
<1>6. \A m \in D : \E k \in D : r[m] = s[k]
  BY <1>4
<1>7. ASSUME \A k, l \in D : k # l => s[k] # s[l], NEW m \in D, NEW l \in D, m < l
      PROVE  r[m] < r[l]
  <2>1. g[m] # g[l] /\ g[m] \in D /\ g[l] \in D
    BY <1>1, <1>7
  <2>2. s[g[m]] <= s[g[l]]
    BY <1>1, <1>2, <1>7
  <2>3. PICK x \in Nat, y \in Nat : x = s[g[m]] /\ y = s[g[l]]
    BY <2>1
  <2>4. x # y /\ x <= y
    BY <1>7, <2>1, <2>2, <2>3
  <2>5. x < y
    BY <2>4
  <2> QED
    BY <1>4, <2>3, <2>5
<1> QED
  BY <1>3, <1>4, <1>5, <1>6, <1>7

\* The loop pushes each element of a finite set once.
LEMMA AsSeqLists ==
  ASSUME NEW S \in SUBSET Nat, IsFiniteSet(S)
  PROVE  /\ AsSeq(S) \in Seq(Nat) /\ Len(AsSeq(S)) = Cardinality(S)
         /\ \A n \in 1 .. Cardinality(S) : AsSeq(S)[n] \in S
         /\ \A i \in S : \E n \in 1 .. Cardinality(S) : AsSeq(S)[n] = i
         /\ \A k, l \in 1 .. Cardinality(S) : k # l => AsSeq(S)[k] # AsSeq(S)[l]
<1>1. Cardinality(S) \in Nat /\ ExistsBijection(1 .. Cardinality(S), S)
  BY FS_CardinalityType
<1> PICK n \in Nat : n = Cardinality(S)
  BY <1>1
<1>2. \E s \in [1 .. n -> S] : \A i \in S : \E k \in DOMAIN s : s[k] = i
  BY <1>1 DEF ExistsBijection, Bijection, Surjection, Injection
<1>3. PICK s \in [1 .. n -> S] : s = AsSeq(S) /\ \A i \in S : \E k \in DOMAIN s : s[k] = i
  <2>1. AsSeq(S) = CHOOSE s \in [1 .. n -> S] : \A i \in S : \E k \in DOMAIN s : s[k] = i
    BY DEF AsSeq
  <2> QED
    BY <1>2, <2>1
<1>4. s \in Seq(Nat) /\ Len(s) = n /\ DOMAIN s = 1 .. n
  <2>1. s \in [1 .. n -> Nat]
    OBVIOUS
  <2> QED
    BY <2>1
<1>5. s \in Surjection(1 .. n, S)
  BY <1>3, <1>4 DEF Surjection
<1>6. IsFiniteSet(1 .. n) /\ Cardinality(1 .. n) = n
  <2>1. 1 \in Int /\ n \in Int
    OBVIOUS
  <2> QED
    BY <2>1, FS_Interval
<1>7. s \in Injection(1 .. n, S)
  BY <1>5, <1>6, FS_SurjSameCardinalityImpliesInj
<1> QED
  BY <1>3, <1>4, <1>7 DEF Injection, IsInjective

-----------------------------------------------------------------------------
(* What the sub tasks of a mapping have done so far.                       *)

\* A transaction as it is found in a bucket.
Entries == Pool!BucketIdx \X Hashes

\* How far the sub task of its bucket is with it: claimed first, or the twin of one
\* that was claimed before.
Firsts == {"claimed", "pushed", "filled", "named", "found"}
Twins == {"twin", "twin_pushed", "retracted"}
Pushed == {"pushed", "twin_pushed", "retracted"}
Filled == {"filled", "named", "found"}
Settled == {"none", "pushed", "retracted", "found"}
Statuses == {"none"} \cup Firsts \cup Twins

Having(st, T) == {a \in Entries : st[a] \in T}
Number(st, T) == Cardinality(Having(st, T))

IdOf(b, a) == b.compactOf[a[2]]
PlaceOf(b, a) == PosOf(b, IdOf(b, a))

Twinned(b, st, a) == \E e \in Entries : st[e] \in Twins /\ IdOf(b, e) = IdOf(b, a)

Busy == {"look", "push", "fill", "empty", "emptySid", "fillSid", "found", "retract"}

\* Each compact id that is claimed has exactly one entry that was first.
ClaimsSound(j, st) ==
    /\ \A a \in Entries : st[a] # "none" =>
          IdOf(j.block, a) \in j.claimed /\ IdOf(j.block, a) \in CompactIdsIn(j.block)
    /\ \A c \in j.claimed : \E a \in Entries : st[a] \in Firsts /\ IdOf(j.block, a) = c
    /\ \A a, e \in Entries :
          st[a] \in Firsts /\ st[e] \in Firsts /\ IdOf(j.block, a) = IdOf(j.block, e) => a = e

Fits(r, s) ==
    /\ r.pc \in {"look", "push"} => s = IF r.dup THEN "twin" ELSE "claimed"
    /\ r.pc = "fill" => s = "claimed"
    /\ r.pc \in {"empty", "emptySid"} => s = IF r.dup THEN "twin_pushed" ELSE "pushed"
    /\ r.pc = "retract" => s = "twin_pushed"
    /\ r.pc = "fillSid" => s = "filled"
    /\ r.pc = "found" => s = "named"

\* The sub task of a bucket has to do with one entry at a time.
SubsSound(j, S, st) ==
    \A i \in Pool!BucketIdx :
        /\ \A h \in S[i].todo : h \in Hashes /\ st[<<i, h>>] = "none"
        /\ S[i].pc \in Busy =>
              /\ S[i].hash \in Hashes
              /\ S[i].pos = PlaceOf(j.block, <<i, S[i].hash>>)
              /\ Fits(S[i], st[<<i, S[i].hash>>])
        /\ \A h \in Hashes : st[<<i, h>>] \in Settled \/ (S[i].pc \in Busy /\ S[i].hash = h)

\* The counter is what was found less what was retracted, and may be below zero.
CounterSound(j, st) ==
    LET f == Number(st, {"found"})
        d == Number(st, {"retracted"})
    IN  j.counter = IF f >= d THEN f - d ELSE CounterSize + f - d

\* Pushes get lost, but not unnoticed: the vector is then shorter than their number.
VectorSound(j, S, st) ==
    LET p == Number(st, Pushed)
        m == Len(j.missing)
    IN  /\ j.cells \in Seq(Nat) /\ j.missing \in Seq(Nat)
        /\ m <= Len(j.cells) /\ \A n \in 1 .. m : j.missing[n] = j.cells[n]
        /\ m <= p
        /\ m = p => \A a \in Entries : st[a] \in Pushed =>
                       \E n \in 1 .. m : j.missing[n] = PlaceOf(j.block, a)
        /\ \A i \in Pool!BucketIdx : S[i].pc = "push" =>
              /\ S[i].end \in Nat /\ S[i].end <= Len(j.cells) /\ S[i].end <= p
              /\ S[i].end = p => m = p

\* A placeholder that is filled keeps what it got unless a twin empties it.
PlacesSound(j, st) ==
    /\ j.types \in [Positions(j.block) -> {"missing", "short_id"}]
    /\ j.sids \in [Positions(j.block) -> Hashes \cup {NoHash}]
    /\ \A a \in Entries : st[a] \in Filled /\ ~Twinned(j.block, st, a) =>
          /\ j.types[PlaceOf(j.block, a)] = "short_id"
          /\ st[a] # "filled" => j.sids[PlaceOf(j.block, a)] = a[2]
    /\ \A n \in Positions(j.block) : j.types[n] = "short_id" =>
          \E a \in Entries : st[a] \in Filled /\ PlaceOf(j.block, a) = n

Book(j, S, st) ==
    /\ ClaimsSound(j, st) /\ SubsSound(j, S, st) /\ CounterSound(j, st)
    /\ VectorSound(j, S, st) /\ PlacesSound(j, st)

-----------------------------------------------------------------------------
(* Entries, places and how many there are.                                 *)

\* Of compact ids that differ, PosOf finds the position of each.
LEMMA PositionsFound ==
  ASSUME NEW b, IdsDistinct(b)
  PROVE  /\ \A c \in CompactIdsIn(b) : PosOf(b, c) \in Positions(b) /\ b.ids[PosOf(b, c)] = c
         /\ \A i \in Positions(b) : PosOf(b, b.ids[i]) = i /\ b.ids[i] \in CompactIdsIn(b)
<1>1. ASSUME NEW i \in Positions(b)
      PROVE  b.ids[i] = b.ids[i] /\ \A k \in 1 .. i - 1 : b.ids[k] # b.ids[i]
  <2> SUFFICES ASSUME NEW k \in 1 .. i - 1, b.ids[k] = b.ids[i] PROVE FALSE
    OBVIOUS
  <2>1. k \in Positions(b) /\ k # i
    BY DEF Positions
  <2> QED
    BY <2>1 DEF IdsDistinct
<1>2. ASSUME NEW c \in CompactIdsIn(b)
      PROVE  PosOf(b, c) \in Positions(b) /\ b.ids[PosOf(b, c)] = c
  <2>1. PICK i \in Positions(b) : b.ids[i] = c
    BY DEF CompactIdsIn
  <2>2. b.ids[i] = c /\ \A k \in 1 .. i - 1 : b.ids[k] # c
    BY <1>1, <2>1
  <2> QED
    BY <2>2 DEF PosOf
<1>3. ASSUME NEW i \in Positions(b)
      PROVE  PosOf(b, b.ids[i]) = i /\ b.ids[i] \in CompactIdsIn(b)
  <2>1. b.ids[i] \in CompactIdsIn(b)
    BY DEF CompactIdsIn
  <2>2. PosOf(b, b.ids[i]) \in Positions(b) /\ b.ids[PosOf(b, b.ids[i])] = b.ids[i]
    BY <1>2, <2>1
  <2> QED
    BY <2>1, <2>2 DEF IdsDistinct
<1> QED
  BY <1>2, <1>3

\* Entries that are claimed have a place in the block, the same one only if they
\* have the same compact id.
LEMMA PlacesFound ==
  ASSUME NEW j, NEW st, ClaimsSound(j, st), IdsDistinct(j.block)
  PROVE  /\ \A a \in Entries : st[a] # "none" => PlaceOf(j.block, a) \in Positions(j.block)
         /\ \A a, e \in Entries :
               st[a] # "none" /\ st[e] # "none" /\ PlaceOf(j.block, a) = PlaceOf(j.block, e) =>
                   IdOf(j.block, a) = IdOf(j.block, e)
  BY PositionsFound DEF ClaimsSound, PlaceOf

\* There are as many entries as pairs of a bucket and a transaction.
LEMMA EntriesFinite ==
  IsFiniteSet(Entries) /\ Cardinality(Entries) = BucketCount * Cardinality(Hashes)
<1>1. IsFiniteSet(Pool!BucketIdx) /\ Cardinality(Pool!BucketIdx) = BucketCount
  <2>1. /\ 0 \in Int /\ BucketCount - 1 \in Int /\ ~(0 > BucketCount - 1)
        /\ (BucketCount - 1) - 0 + 1 = BucketCount
    BY MappingAssumption
  <2> QED
    BY <2>1, FS_Interval DEF Pool!BucketIdx
<1> QED
  BY <1>1, MappingAssumption, FS_Product DEF Entries

\* The number of entries with some status is bounded by that.
LEMMA NumberType ==
  ASSUME NEW st, NEW T
  PROVE  /\ IsFiniteSet(Having(st, T)) /\ Number(st, T) \in Nat
         /\ Number(st, T) <= BucketCount * Cardinality(Hashes)
<1>1. Having(st, T) \subseteq Entries
  BY DEF Having
<1> QED
  BY <1>1, EntriesFinite, FS_Subset, FS_CardinalityType DEF Number

\* An entry comes to another status.
Moved(st, st2, a, s) ==
    /\ st2 \in [Entries -> Statuses] /\ st2[a] = s
    /\ \A e \in Entries : e # a => st2[e] = st[e]

\* One entry can always be moved.
LEMMA Move ==
  ASSUME NEW st \in [Entries -> Statuses], NEW a \in Entries, NEW s \in Statuses
  PROVE  \E st2 : Moved(st, st2, a, s)
<1>1. PICK st2 : st2 = [st EXCEPT ![a] = s]
  OBVIOUS
<1>2. Moved(st, st2, a, s)
  BY <1>1 DEF Moved
<1> QED
  BY <1>2

AsMany(st, st2, T) == Number(st2, T) = Number(st, T)
OneMore(st, st2, T) == Number(st2, T) = Number(st, T) + 1

\* A status of the same kind leaves the number of that kind as it is.
LEMMA NumberSame ==
  ASSUME NEW st, NEW st2, NEW a \in Entries, NEW s, NEW T, Moved(st, st2, a, s),
         st[a] \in T => s \in T, s \in T => st[a] \in T
  PROVE  AsMany(st, st2, T)
<1>1. Having(st2, T) = Having(st, T)
  BY DEF Moved, Having
<1> QED
  BY <1>1 DEF Number, AsMany

\* An entry that comes to a kind makes it one more.
LEMMA NumberGrows ==
  ASSUME NEW st, NEW st2, NEW a \in Entries, NEW s, NEW T, Moved(st, st2, a, s),
         st[a] \notin T, s \in T
  PROVE  OneMore(st, st2, T)
<1>1. Having(st2, T) = Having(st, T) \cup {a} /\ a \notin Having(st, T)
  BY DEF Moved, Having
<1> QED
  BY <1>1, NumberType, FS_AddElement DEF Number, OneMore

-----------------------------------------------------------------------------
(* What a step of a sub task leaves as it is.                              *)

\* The other sub tasks stand still; that of bucket i goes on with its entry.
Others(i, S, S2) == \A k \in Pool!BucketIdx : k # i => S2[k] = S[k]

GoesOn(i, S, S2) ==
    /\ Others(i, S, S2)
    /\ S2[i].todo = S[i].todo /\ S2[i].hash = S[i].hash
    /\ S2[i].pos = S[i].pos /\ S2[i].dup = S[i].dup

\* An entry that was first stays first: the claims stay sound.
LEMMA ClaimsKept ==
  ASSUME NEW j, NEW j2, NEW st, NEW st2, NEW a \in Entries, NEW s,
         ClaimsSound(j, st), Moved(st, st2, a, s),
         j2.block = j.block, j2.claimed = j.claimed,
         st[a] # "none", s # "none", st[a] \in Firsts <=> s \in Firsts
  PROVE  ClaimsSound(j2, st2)
<1>1. \A e \in Entries : /\ st2[e] # "none" <=> st[e] # "none"
                         /\ st2[e] \in Firsts <=> st[e] \in Firsts
  BY DEF Moved
<1> QED
  BY <1>1 DEF ClaimsSound

\* The sub task of bucket i goes on with its entry, or has done with it.
LEMMA SubsKept ==
  ASSUME NEW j, NEW j2, NEW S, NEW S2, NEW st, NEW st2, NEW s,
         NEW i \in Pool!BucketIdx, NEW h \in Hashes,
         SubsSound(j, S, st), Moved(st, st2, <<i, h>>, s), j2.block = j.block,
         GoesOn(i, S, S2), S[i].pc \in Busy, S[i].hash = h,
         S2[i].pc \in Busy => Fits(S2[i], s), S2[i].pc \in Busy \/ s \in Settled
  PROVE  SubsSound(j2, S2, st2)
<1>1. /\ st2[<<i, h>>] = s
      /\ \A k \in Pool!BucketIdx : \A g \in Hashes :
            k # i \/ g # h => st2[<<k, g>>] = st[<<k, g>>]
  BY DEF Moved, Entries
<1> SUFFICES ASSUME NEW k \in Pool!BucketIdx
             PROVE  /\ \A g \in S2[k].todo : g \in Hashes /\ st2[<<k, g>>] = "none"
                    /\ S2[k].pc \in Busy =>
                          /\ S2[k].hash \in Hashes
                          /\ S2[k].pos = PlaceOf(j.block, <<k, S2[k].hash>>)
                          /\ Fits(S2[k], st2[<<k, S2[k].hash>>])
                    /\ \A g \in Hashes : \/ st2[<<k, g>>] \in Settled
                                         \/ S2[k].pc \in Busy /\ S2[k].hash = g
  BY DEF SubsSound
<1>2. /\ \A g \in S[k].todo : g \in Hashes /\ st[<<k, g>>] = "none"
      /\ S[k].pc \in Busy =>
            /\ S[k].hash \in Hashes
            /\ S[k].pos = PlaceOf(j.block, <<k, S[k].hash>>)
            /\ Fits(S[k], st[<<k, S[k].hash>>])
      /\ \A g \in Hashes : st[<<k, g>>] \in Settled \/ (S[k].pc \in Busy /\ S[k].hash = g)
  BY DEF SubsSound
<1>3. CASE k # i
  BY <1>1, <1>2, <1>3 DEF GoesOn, Others
<1>4. CASE k = i
  <2>1. st[<<i, h>>] # "none"
    BY <1>2, <1>4 DEF Fits, Busy
  <2>2. \A g \in S2[k].todo : g # h
    BY <1>2, <1>4, <2>1 DEF GoesOn
  <2> QED
    BY <1>1, <1>2, <1>4, <2>2 DEF GoesOn
<1> QED
  BY <1>3, <1>4

\* Neither found nor retracted: the counter stays sound.
LEMMA CounterKept ==
  ASSUME NEW j, NEW j2, NEW st, NEW st2, NEW a \in Entries, NEW s,
         CounterSound(j, st), Moved(st, st2, a, s), j2.counter = j.counter,
         st[a] = "found" <=> s = "found", st[a] = "retracted" <=> s = "retracted"
  PROVE  CounterSound(j2, st2)
<1>1. /\ Number(st2, {"found"}) = Number(st, {"found"})
      /\ Number(st2, {"retracted"}) = Number(st, {"retracted"})
  <2>1. st[a] \in {"found"} <=> s \in {"found"}
    OBVIOUS
  <2>2. st[a] \in {"retracted"} <=> s \in {"retracted"}
    OBVIOUS
  <2> QED
    BY <2>1, <2>2, NumberSame DEF AsMany
<1> QED
  BY <1>1 DEF CounterSound

\* No push: the vector stays sound, also for a sub task that now reads its end.
LEMMA VectorKept ==
  ASSUME NEW j, NEW j2, NEW S, NEW S2, NEW st, NEW st2, NEW a \in Entries, NEW s,
         NEW i \in Pool!BucketIdx,
         VectorSound(j, S, st), Moved(st, st2, a, s), st[a] \in Pushed <=> s \in Pushed,
         j2.block = j.block, j2.cells = j.cells, j2.missing = j.missing,
         Others(i, S, S2), S2[i].pc = "push" => S2[i].end = Len(j.missing)
  PROVE  VectorSound(j2, S2, st2)
<1>1. Number(st2, Pushed) = Number(st, Pushed)
  <2>1. AsMany(st, st2, Pushed)
    BY NumberSame, Zenon
  <2> QED
    BY <2>1 DEF AsMany
<1>2. \A e \in Entries : st2[e] \in Pushed <=> st[e] \in Pushed
  BY DEF Moved
<1>3. PICK p \in Nat : p = Number(st, Pushed)
  BY NumberType
<1>4. PICK m \in Nat : m = Len(j.missing)
  BY DEF VectorSound
<1>5. \A k \in Pool!BucketIdx : S2[k].pc = "push" =>
         /\ S2[k].end \in Nat /\ S2[k].end <= Len(j.cells) /\ S2[k].end <= p
         /\ S2[k].end = p => m = p
  <2> TAKE k \in Pool!BucketIdx
  <2>1. CASE k # i
    BY <1>3, <1>4, <2>1 DEF VectorSound, Others
  <2>2. CASE k = i
    BY <1>3, <1>4, <2>2 DEF VectorSound
  <2> QED
    BY <2>1, <2>2
<1>6. /\ j2.cells \in Seq(Nat) /\ j2.missing \in Seq(Nat)
      /\ m <= Len(j2.cells) /\ \A n \in 1 .. m : j2.missing[n] = j2.cells[n]
      /\ m <= p
  BY <1>3, <1>4 DEF VectorSound
<1>7. m = p => \A e \in Entries : st2[e] \in Pushed =>
                  \E n \in 1 .. m : j2.missing[n] = PlaceOf(j2.block, e)
  BY <1>2, <1>3, <1>4 DEF VectorSound
<1> QED
  BY <1>1, <1>3, <1>4, <1>5, <1>6, <1>7 DEF VectorSound

\* No assignment to a placeholder: they stay sound.
LEMMA PlacesKept ==
  ASSUME NEW j, NEW j2, NEW st, NEW st2, NEW a \in Entries, NEW s,
         PlacesSound(j, st), Moved(st, st2, a, s),
         j2.block = j.block, j2.types = j.types, j2.sids = j.sids,
         st[a] \in Filled <=> s \in Filled, st[a] \in Twins => s \in Twins,
         st[a] = "filled" => s = "filled"
  PROVE  PlacesSound(j2, st2)
<1>1. \A e \in Entries : /\ st2[e] \in Filled <=> st[e] \in Filled
                         /\ st[e] \in Twins => st2[e] \in Twins
                         /\ st[e] = "filled" => st2[e] = "filled"
  BY DEF Moved
<1>2. \A e \in Entries : Twinned(j.block, st, e) => Twinned(j.block, st2, e)
  BY <1>1 DEF Twinned
<1> QED
  BY <1>1, <1>2 DEF PlacesSound

-----------------------------------------------------------------------------
(* What it changes.                                                        *)

\* The cells after a push, and the vector.
PushedTo(cells, end, pos, x, y) ==
    /\ x \in Seq(Nat) /\ y \in Seq(Nat) /\ Len(y) = end + 1
    /\ Len(cells) <= Len(x) /\ end + 1 <= Len(x)
    /\ \A n \in 1 .. end : y[n] = cells[n] 
    /\ y[end + 1] = pos
    /\ \A n \in 1 .. end + 1 : y[n] = x[n]

\* What SubPush computes is what push_back does.
LEMMA PushStores ==
  ASSUME NEW cells \in Seq(Nat), NEW end \in 0 .. Len(cells), NEW pos \in Nat
  PROVE  LET x == Stored(cells, end, pos)
         IN  PushedTo(cells, end, pos, x, SubSeq(x, 1, end + 1))
<1>1. PICK c \in Nat, size \in Nat : c = Len(cells) /\ size = IF end < c THEN c ELSE end + 1
  OBVIOUS
<1>2. /\ c <= size /\ end + 1 <= size /\ end + 1 \in Nat /\ 1 \in Int
      /\ \A n \in 1 .. size : n # end + 1 => n \in 1 .. c
      /\ \A n \in 1 .. end + 1 : n \in 1 .. size
  BY <1>1
<1>3. PICK x : x = Stored(cells, end, pos)
  OBVIOUS
<1>4. x = [n \in 1 .. size |-> IF n = end + 1 THEN pos ELSE cells[n]]
  BY <1>1, <1>3 DEF Stored
<1>5. \A n \in 1 .. size : (IF n = end + 1 THEN pos ELSE cells[n]) \in Nat
  BY <1>1, <1>2
<1>6. x \in [1 .. size -> Nat] /\ x \in Seq(Nat) /\ Len(x) = size
  BY <1>4, <1>5
<1>7. PICK y : y = SubSeq(x, 1, end + 1)
  OBVIOUS
<1>8. y = [n \in 1 .. end + 1 |-> x[n]]
  BY <1>2, <1>6, <1>7
<1>9. y \in [1 .. end + 1 -> Nat] /\ y \in Seq(Nat) /\ Len(y) = end + 1
  BY <1>2, <1>6, <1>8
<1>10. \A n \in 1 .. end + 1 : y[n] = x[n]
  BY <1>8
<1>11. y[end + 1] = pos /\ \A n \in 1 .. end : y[n] = cells[n]
  <2>1. end + 1 \in 1 .. end + 1 /\ \A n \in 1 .. end : n \in 1 .. end + 1 /\ n # end + 1
    OBVIOUS
  <2> QED
    BY <1>2, <1>4, <1>10, <2>1
<1> QED
  BY <1>1, <1>2, <1>3, <1>6, <1>7, <1>9, <1>10, <1>11 DEF PushedTo

\* push_back: if no push was lost until now and none is lost with this one, the
\* vector has them all.
LEMMA VectorPushed ==
  ASSUME NEW j, NEW j2, NEW S, NEW S2, NEW st, NEW st2, NEW a \in Entries, NEW s,
         NEW i \in Pool!BucketIdx, NEW end \in Nat, NEW pos \in Nat,
         VectorSound(j, S, st), Moved(st, st2, a, s), st[a] \notin Pushed, s \in Pushed,
         S[i].pc = "push", S[i].end = end, pos = PlaceOf(j.block, a),
         j2.block = j.block, PushedTo(j.cells, end, pos, j2.cells, j2.missing),
         Others(i, S, S2), S2[i].pc # "push"
  PROVE  VectorSound(j2, S2, st2)
<1>1. PICK p \in Nat : p = Number(st, Pushed)
  BY NumberType
<1>2. Number(st2, Pushed) = p + 1
  <2>1. OneMore(st, st2, Pushed)
    BY NumberGrows, Zenon
  <2> QED
    BY <1>1, <2>1 DEF OneMore
<1>3. PICK cells \in Seq(Nat), missing \in Seq(Nat) : cells = j.cells /\ missing = j.missing
  BY DEF VectorSound
<1>4. PICK c \in Nat, m \in Nat : c = Len(cells) /\ m = Len(missing)
  OBVIOUS
<1>5. /\ m <= c /\ \A n \in 1 .. m : missing[n] = cells[n]
      /\ m <= p
      /\ m = p => \A e \in Entries : st[e] \in Pushed =>
                       \E n \in 1 .. m : missing[n] = PlaceOf(j.block, e)
      /\ end <= c /\ end <= p /\ (end = p => m = p)
  BY <1>1, <1>3, <1>4 DEF VectorSound
<1>6. PICK x \in Seq(Nat), y \in Seq(Nat) : x = j2.cells /\ y = j2.missing
  BY DEF PushedTo
<1>7. PICK size \in Nat : size = Len(x)
  OBVIOUS
<1>8. /\ Len(y) = end + 1 /\ c <= size /\ end + 1 <= size
      /\ y[end + 1] = pos /\ \A n \in 1 .. end : y[n] = cells[n]
      /\ \A n \in 1 .. end + 1 : y[n] = x[n]
  BY <1>3, <1>4, <1>6, <1>7 DEF PushedTo
<1>9. \A k \in Pool!BucketIdx : S2[k].pc = "push" =>
          S2[k].end \in Nat /\ S2[k].end <= size /\ S2[k].end <= p
  <2> SUFFICES ASSUME NEW k \in Pool!BucketIdx, S2[k].pc = "push"
               PROVE  S2[k].end \in Nat /\ S2[k].end <= size /\ S2[k].end <= p
    OBVIOUS
  <2>1. S2[k] = S[k]
    BY DEF Others
  <2>2. S[k].end \in Nat /\ S[k].end <= c /\ S[k].end <= p
    BY <1>1, <1>3, <1>4, <2>1 DEF VectorSound
  <2> QED
    BY <1>8, <2>1, <2>2
<1>10. ASSUME end + 1 = p + 1, NEW e \in Entries, st2[e] \in Pushed
       PROVE  \E n \in 1 .. end + 1 : y[n] = PlaceOf(j.block, e)
  <2>1. CASE e = a
    <3>1. end + 1 \in 1 .. end + 1
      OBVIOUS
    <3> QED
      BY <1>8, <2>1, <3>1
  <2>2. CASE e # a
    <3>1. st[e] \in Pushed
      BY <1>10, <2>2 DEF Moved
    <3>2. end = p /\ m = p
      BY <1>5, <1>10
    <3>3. PICK n \in 1 .. m : missing[n] = PlaceOf(j.block, e)
      BY <1>5, <3>1, <3>2
    <3>4. n \in 1 .. end + 1 /\ n \in 1 .. end
      BY <3>2
    <3>5. y[n] = missing[n]
      BY <1>5, <1>8, <3>4
    <3> QED
      BY <3>3, <3>4, <3>5
  <2> QED
    BY <2>1, <2>2
<1>11. end + 1 = p + 1 => \A e \in Entries : st2[e] \in Pushed =>
                  \E n \in 1 .. end + 1 : j2.missing[n] = PlaceOf(j2.block, e)
  BY <1>6, <1>10
<1>12. end + 1 <= p + 1
  BY <1>5
<1>13. \A k \in Pool!BucketIdx : S2[k].pc = "push" =>
          /\ S2[k].end \in Nat /\ S2[k].end <= size /\ S2[k].end <= p + 1
          /\ S2[k].end # p + 1
  BY <1>9
<1> QED
  BY <1>2, <1>6, <1>7, <1>8, <1>11, <1>12, <1>13 DEF VectorSound

\* fetch_add: the counter stays far from its size, as no entry is counted twice.
LEMMA CounterChanged ==
  ASSUME NEW j, NEW j2, NEW st, NEW st2, NEW a \in Entries, NEW s, NEW b \in CompactBlocks,
         CounterSound(j, st), Moved(st, st2, a, s),
         \/ /\ st[a] # "found" /\ st[a] # "retracted" /\ s = "found"
            /\ j2.counter = (j.counter + 1) % CounterSize
         \/ /\ st[a] # "found" /\ st[a] # "retracted" /\ s = "retracted"
            /\ j2.counter = (j.counter + (CounterSize - 1)) % CounterSize
  PROVE  CounterSound(j2, st2)
<1>1. PICK f \in Nat, d \in Nat : f = Number(st, {"found"}) /\ d = Number(st, {"retracted"})
  BY NumberType
<1>2. PICK f2 \in Nat, d2 \in Nat : f2 = Number(st2, {"found"}) /\ d2 = Number(st2, {"retracted"})
  BY NumberType
<1>3. PICK M \in Nat : M = CounterSize
  BY MappingAssumption
<1>4. f < M /\ d < M /\ f2 < M /\ d2 < M /\ M # 0
  <2>1. PICK e \in Nat : e = BucketCount * Cardinality(Hashes)
    <3>1. Cardinality(Hashes) \in Nat /\ BucketCount \in Nat
      BY MappingAssumption, FS_CardinalityType
    <3> QED
      BY <3>1
  <2>2. e + Len(b.ids) < M /\ Len(b.ids) \in Nat
    BY <1>3, <2>1, MappingAssumption
  <2>3. f <= e /\ d <= e /\ f2 <= e /\ d2 <= e
    BY <1>1, <1>2, <2>1, NumberType
  <2> QED
    BY <2>2, <2>3
<1>5. PICK x : x = j.counter
  OBVIOUS
<1>6. x = (IF f >= d THEN f - d ELSE M + f - d) /\ x \in 0 .. M - 1
  BY <1>1, <1>3, <1>4, <1>5 DEF CounterSound
<1>7. CASE s = "found"
  <2>1. f2 = f + 1
    <3>1. OneMore(st, st2, {"found"})
      BY <1>7, NumberGrows
    <3> QED
      BY <1>1, <1>2, <3>1 DEF OneMore
  <2>2. d2 = d
    <3>1. AsMany(st, st2, {"retracted"})
      <4>1. st[a] \notin {"retracted"} /\ s \notin {"retracted"}
        BY <1>7
      <4> QED
        BY <4>1, NumberSame
    <3> QED
      BY <1>1, <1>2, <3>1 DEF AsMany
  <2>3. j2.counter = (x + 1) % M
    BY <1>3, <1>5, <1>7
  <2>4. (x + 1) % M = IF x + 1 < M THEN x + 1 ELSE x + 1 - M
    <3>1. 1 \in 0 .. M - 1 \/ M = 1
      BY <1>4
    <3>2. M # 1
      BY <1>4, <2>1
    <3> QED
      BY <1>4, <1>6, <3>1, <3>2, RestOfSum
  <2>5. (IF x + 1 < M THEN x + 1 ELSE x + 1 - M) = IF f2 >= d2 THEN f2 - d2 ELSE M + f2 - d2
    BY <1>4, <1>6, <2>1, <2>2
  <2>6. j2.counter = IF f2 >= d2 THEN f2 - d2 ELSE M + f2 - d2
    BY <2>3, <2>4, <2>5, Zenon
  <2> QED
    BY <1>2, <1>3, <2>6 DEF CounterSound
<1>8. CASE s = "retracted"
  <2>1. d2 = d + 1
    <3>1. OneMore(st, st2, {"retracted"})
      BY <1>8, NumberGrows
    <3> QED
      BY <1>1, <1>2, <3>1 DEF OneMore
  <2>2. f2 = f
    <3>1. AsMany(st, st2, {"found"})
      <4>1. st[a] \notin {"found"} /\ s \notin {"found"}
        BY <1>8
      <4> QED
        BY <4>1, NumberSame
    <3> QED
      BY <1>1, <1>2, <3>1 DEF AsMany
  <2>3. j2.counter = (x + (M - 1)) % M
    BY <1>3, <1>5, <1>8
  <2>4. (x + (M - 1)) % M = IF x + (M - 1) < M THEN x + (M - 1) ELSE x + (M - 1) - M
    <3>1. M - 1 \in 0 .. M - 1
      BY <1>4
    <3> QED
      BY <1>4, <1>6, <3>1, RestOfSum
  <2>5. (IF x + (M - 1) < M THEN x + (M - 1) ELSE x + (M - 1) - M)
           = IF f2 >= d2 THEN f2 - d2 ELSE M + f2 - d2
    BY <1>4, <1>6, <2>1, <2>2
  <2>6. j2.counter = IF f2 >= d2 THEN f2 - d2 ELSE M + f2 - d2
    BY <2>3, <2>4, <2>5, Zenon
  <2> QED
    BY <1>2, <1>3, <2>6 DEF CounterSound
<1> QED
  BY <1>7, <1>8

-----------------------------------------------------------------------------
(* The placeholders.                                                       *)

\* The placeholder of an entry is set to its short id, in two assignments.
Fills(j, j2, st, st2, a, v) ==
    \/ /\ Moved(st, st2, a, "filled") /\ st[a] = "claimed"
       /\ j2.types = [j.types EXCEPT ![PlaceOf(j.block, a)] = "short_id"]
       /\ j2.sids = j.sids
    \/ /\ Moved(st, st2, a, "named") /\ st[a] = "filled"
       /\ j2.types = j.types /\ v = a[2]
       /\ j2.sids = [j.sids EXCEPT ![PlaceOf(j.block, a)] = v]

\* No other entry that was first has this position, so that the others stay sound.
LEMMA PlacesFilled ==
  ASSUME NEW j, NEW j2, NEW st, NEW st2, NEW a \in Entries, NEW v, IdsDistinct(j.block),
         PlacesSound(j, st), ClaimsSound(j, st),
         j2.block = j.block,
         Fills(j, j2, st, st2, a, v)
  PROVE  PlacesSound(j2, st2)
<1> USE DEF Fills
<1>1. PICK p \in Positions(j.block) : p = PlaceOf(j.block, a)
  BY PlacesFound
<1>2. PICK types, sids : types = j.types /\ sids = j.sids
  OBVIOUS
<1>3. /\ types \in [Positions(j.block) -> {"missing", "short_id"}]
      /\ sids \in [Positions(j.block) -> Hashes \cup {NoHash}]
  BY <1>2 DEF PlacesSound
<1>4. a[2] \in Hashes
  BY DEF Entries
<1>5. /\ j2.types \in [Positions(j.block) -> {"missing", "short_id"}]
      /\ j2.sids \in [Positions(j.block) -> Hashes \cup {NoHash}]
  BY <1>1, <1>2, <1>3, <1>4
<1>6. \A e \in Entries : st2[e] \in Filled /\ e # a => st[e] \in Filled /\ st2[e] = st[e]
  BY DEF Moved
<1>7. \A e \in Entries : ~Twinned(j.block, st2, e) => ~Twinned(j.block, st, e)
  BY DEF Moved, Twinned, Twins
<1>8. \A e \in Entries : e # a /\ st[e] \in Filled => PlaceOf(j.block, e) # p
  <2> SUFFICES ASSUME NEW e \in Entries, e # a, st[e] \in Filled, PlaceOf(j.block, e) = p
               PROVE  FALSE
    OBVIOUS
  <2>1. st[e] \in Firsts /\ st[a] \in Firsts /\ st[e] # "none" /\ st[a] # "none"
    BY DEF Filled, Firsts
  <2>2. IdOf(j.block, e) = IdOf(j.block, a)
    BY <1>1, <2>1, PlacesFound
  <2> QED
    BY <2>1, <2>2 DEF ClaimsSound
<1>9. \A n \in Positions(j.block) : n # p => j2.types[n] = types[n] /\ j2.sids[n] = sids[n]
  BY <1>1, <1>2, <1>3
<1>10. ASSUME NEW e \in Entries, st2[e] \in Filled, ~Twinned(j.block, st2, e), e # a
       PROVE  /\ j2.types[PlaceOf(j.block, e)] = "short_id"
              /\ st2[e] # "filled" => j2.sids[PlaceOf(j.block, e)] = e[2]
  <2>1. PICK n : n = PlaceOf(j.block, e)
    OBVIOUS
  <2>2. st[e] \in Filled /\ st[e] = st2[e] /\ ~Twinned(j.block, st, e)
    BY <1>6, <1>7, <1>10
  <2>3. n # p /\ n \in Positions(j.block)
    BY <1>8, <1>10, <2>1, <2>2, PlacesFound DEF Filled
  <2>4. types[n] = "short_id" /\ (st[e] # "filled" => sids[n] = e[2])
    BY <1>2, <2>1, <2>2 DEF PlacesSound
  <2> QED
    BY <1>9, <2>1, <2>2, <2>3, <2>4
<1>11. ASSUME ~Twinned(j.block, st2, a)
       PROVE  /\ j2.types[p] = "short_id"
              /\ st2[a] # "filled" => j2.sids[p] = a[2]
  <2>1. CASE /\ Moved(st, st2, a, "filled")
             /\ j2.types = [j.types EXCEPT ![PlaceOf(j.block, a)] = "short_id"]
    BY <1>1, <1>2, <1>3, <2>1 DEF Moved
  <2>2. CASE /\ st[a] = "filled" /\ j2.types = j.types /\ v = a[2]
             /\ j2.sids = [j.sids EXCEPT ![PlaceOf(j.block, a)] = v]
    <3>1. types[p] = "short_id"
      BY <1>1, <1>2, <1>7, <1>11, <2>2 DEF PlacesSound, Filled
    <3> QED
      BY <1>1, <1>2, <1>3, <2>2, <3>1
  <2> QED
    BY <2>1, <2>2
<1>12. st2[a] \in Filled
  BY DEF Moved, Filled
<1>13. ASSUME NEW n \in Positions(j.block), j2.types[n] = "short_id"
       PROVE  \E e \in Entries : st2[e] \in Filled /\ PlaceOf(j.block, e) = n
  <2>1. CASE n = p
    BY <1>1, <1>12, <2>1
  <2>2. CASE n # p
    <3>1. types[n] = "short_id"
      BY <1>9, <1>13, <2>2
    <3>2. PICK e \in Entries : st[e] \in Filled /\ PlaceOf(j.block, e) = n
      BY <1>2, <3>1 DEF PlacesSound
    <3>3. e # a
      BY <1>1, <2>2, <3>2
    <3>4. st2[e] \in Filled
      BY <3>2, <3>3 DEF Moved
    <3> QED
      BY <3>2, <3>4
  <2> QED
    BY <2>1, <2>2
<1> QED
  BY <1>1, <1>5, <1>10, <1>11, <1>13 DEF PlacesSound

\* A placeholder is emptied for an entry without contents or for a twin: one that is
\* filled for good is not touched.
LEMMA PlacesEmptied ==
  ASSUME NEW j, NEW j2, NEW st, NEW a \in Entries, IdsDistinct(j.block),
         PlacesSound(j, st), ClaimsSound(j, st),
         j2.block = j.block, st[a] = "pushed" \/ st[a] = "twin_pushed",
         \/ /\ j2.types = [j.types EXCEPT ![PlaceOf(j.block, a)] = "missing"]
            /\ j2.sids = j.sids
         \/ /\ j2.types = j.types
            /\ j2.sids = [j.sids EXCEPT ![PlaceOf(j.block, a)] = NoHash]
  PROVE  PlacesSound(j2, st)
<1>1. PICK p \in Positions(j.block) : p = PlaceOf(j.block, a)
  BY PlacesFound
<1>2. PICK types, sids : types = j.types /\ sids = j.sids
  OBVIOUS
<1>3. /\ types \in [Positions(j.block) -> {"missing", "short_id"}]
      /\ sids \in [Positions(j.block) -> Hashes \cup {NoHash}]
  BY <1>2 DEF PlacesSound
<1>4. /\ j2.types \in [Positions(j.block) -> {"missing", "short_id"}]
      /\ j2.sids \in [Positions(j.block) -> Hashes \cup {NoHash}]
  BY <1>1, <1>2, <1>3
<1>5. /\ \A n \in Positions(j.block) : n # p => j2.types[n] = types[n] /\ j2.sids[n] = sids[n]
      /\ \A n \in Positions(j.block) : j2.types[n] = "short_id" => types[n] = "short_id"
  BY <1>1, <1>2, <1>3
<1>6. ASSUME NEW e \in Entries, st[e] \in Filled, ~Twinned(j.block, st, e)
      PROVE  PlaceOf(j.block, e) # p /\ PlaceOf(j.block, e) \in Positions(j.block)
  <2>1. st[e] \in Firsts /\ st[e] # "none" /\ st[a] # "none" /\ e # a
    BY <1>6 DEF Filled, Firsts
  <2>2. PlaceOf(j.block, e) \in Positions(j.block)
    BY <2>1, PlacesFound
  <2>3. ASSUME PlaceOf(j.block, e) = p PROVE FALSE
    <3>1. IdOf(j.block, a) = IdOf(j.block, e)
      BY <1>1, <2>1, <2>3, PlacesFound
    <3>2. CASE st[a] = "pushed"
      BY <2>1, <3>1, <3>2 DEF ClaimsSound, Firsts
    <3>3. CASE st[a] = "twin_pushed"
      BY <1>6, <3>1, <3>3 DEF Twinned, Twins
    <3> QED
      BY <3>2, <3>3
  <2> QED
    BY <2>2, <2>3
<1>7. \A e \in Entries : st[e] \in Filled /\ ~Twinned(j.block, st, e) =>
         /\ j2.types[PlaceOf(j.block, e)] = "short_id"
         /\ st[e] # "filled" => j2.sids[PlaceOf(j.block, e)] = e[2]
  BY <1>2, <1>5, <1>6 DEF PlacesSound
<1>8. \A n \in Positions(j.block) : j2.types[n] = "short_id" =>
         \E e \in Entries : st[e] \in Filled /\ PlaceOf(j.block, e) = n
  BY <1>2, <1>5 DEF PlacesSound
<1> QED
  BY <1>4, <1>7, <1>8 DEF PlacesSound

-----------------------------------------------------------------------------
(* The steps of a sub task.                                                *)

InBuckets(st, bs) == \A a \in Entries : st[a] # "none" => a[2] \in bs[a[1]]

\* There is an account of the sub tasks' work that explains the state of the task.
Tallied(j, S, bs) ==
    \E st \in [Entries -> Statuses] : Book(j, S, st) /\ InBuckets(st, bs)

\* The loop goes on or ends, with no entry in its hands.
LEMMA TalliedIdle ==
  ASSUME NEW j, NEW S, NEW S2, NEW bs, NEW i \in Pool!BucketIdx,
         Tallied(j, S, bs), Others(i, S, S2),
         S[i].pc \notin Busy, S2[i].pc \notin Busy, S2[i].todo \subseteq S[i].todo
  PROVE  Tallied(j, S2, bs)
<1>1. PICK st \in [Entries -> Statuses] : Book(j, S, st) /\ InBuckets(st, bs)
  BY DEF Tallied
<1>2. SubsSound(j, S2, st)
  <2>1. SubsSound(j, S, st)
    BY <1>1 DEF Book
  <2> SUFFICES ASSUME NEW k \in Pool!BucketIdx
               PROVE  /\ \A g \in S2[k].todo : g \in Hashes /\ st[<<k, g>>] = "none"
                      /\ S2[k].pc \in Busy =>
                            /\ S2[k].hash \in Hashes
                            /\ S2[k].pos = PlaceOf(j.block, <<k, S2[k].hash>>)
                            /\ Fits(S2[k], st[<<k, S2[k].hash>>])
                      /\ \A g \in Hashes : \/ st[<<k, g>>] \in Settled
                                           \/ S2[k].pc \in Busy /\ S2[k].hash = g
    BY DEF SubsSound
  <2>2. CASE k = i
    BY <2>1, <2>2 DEF SubsSound
  <2>3. CASE k # i
    BY <2>1, <2>3 DEF SubsSound, Others
  <2> QED
    BY <2>2, <2>3
<1>3. VectorSound(j, S2, st)
  <2>1. VectorSound(j, S, st)
    BY <1>1 DEF Book
  <2>2. \A k \in Pool!BucketIdx : S2[k].pc = "push" => S2[k] = S[k]
    BY DEF Others, Busy
  <2> QED
    BY <2>1, <2>2 DEF VectorSound
<1> QED
  BY <1>1, <1>2, <1>3 DEF Book, Tallied

\* The claim of a position.
LEMMA TalliedClaim ==
  ASSUME NEW j, NEW j2, NEW S, NEW S2, NEW bs, NEW i \in Pool!BucketIdx, NEW h, NEW c,
         Tallied(j, S, bs), Others(i, S, S2), h \in S[i].todo, h \in bs[i],
         c = j.block.compactOf[h], c \in CompactIdsIn(j.block),
         S[i].pc = "next", S2[i].pc = "look", S2[i].todo = S[i].todo \ {h}, S2[i].hash = h,
         S2[i].pos = PosOf(j.block, c), S2[i].dup = (c \in j.claimed),
         j2.block = j.block, j2.claimed = j.claimed \cup {c}, j2.counter = j.counter,
         j2.types = j.types, j2.sids = j.sids, j2.cells = j.cells, j2.missing = j.missing
  PROVE  Tallied(j2, S2, bs)
<1>1. PICK st \in [Entries -> Statuses] : Book(j, S, st) /\ InBuckets(st, bs)
  BY DEF Tallied
<1>2. SubsSound(j, S, st) /\ ClaimsSound(j, st)
  BY <1>1 DEF Book
<1>3. h \in Hashes /\ st[<<i, h>>] = "none" /\ <<i, h>> \in Entries
  BY <1>2 DEF SubsSound, Entries
<1>4. PICK a \in Entries : a = <<i, h>>
  BY <1>3
<1>5. IdOf(j.block, a) = c /\ PlaceOf(j.block, a) = PosOf(j.block, c) /\ a[2] \in bs[a[1]]
  BY <1>4 DEF IdOf, PlaceOf
<1>6. PICK s \in Statuses : s = IF c \in j.claimed THEN "twin" ELSE "claimed"
  BY DEF Statuses, Firsts, Twins
<1>7. PICK st2 : Moved(st, st2, a, s)
  BY Move
<1>8. st[a] = "none" /\ st2[a] = s /\ \A e \in Entries : e # a => st2[e] = st[e]
  BY <1>3, <1>4, <1>7 DEF Moved
<1>9. s \in {"twin", "claimed"}
  BY <1>6
<1>10. ClaimsSound(j2, st2)
  <2>1. \A e \in Entries : st2[e] # "none" =>
           IdOf(j.block, e) \in j2.claimed /\ IdOf(j.block, e) \in CompactIdsIn(j.block)
    BY <1>2, <1>5, <1>8 DEF ClaimsSound
  <2>2. ASSUME NEW x \in j2.claimed
        PROVE  \E e \in Entries : st2[e] \in Firsts /\ IdOf(j.block, e) = x
    <3>1. CASE x \in j.claimed
      <4>1. PICK e \in Entries : st[e] \in Firsts /\ IdOf(j.block, e) = x
        BY <1>2, <3>1 DEF ClaimsSound
      <4>2. e # a
        BY <1>8, <4>1 DEF Firsts
      <4> QED
        BY <1>8, <4>1, <4>2
    <3>2. CASE x \notin j.claimed
      <4>1. x = c /\ s = "claimed"
        BY <1>6, <2>2, <3>2
      <4> QED
        BY <1>5, <1>8, <4>1 DEF Firsts
    <3> QED
      BY <3>1, <3>2
  <2>3. ASSUME NEW e \in Entries, NEW d \in Entries, st2[e] \in Firsts, st2[d] \in Firsts,
               IdOf(j.block, e) = IdOf(j.block, d)
        PROVE  e = d
    <3>1. CASE e # a /\ d # a
      BY <1>2, <1>8, <2>3, <3>1 DEF ClaimsSound
    <3>2. ASSUME NEW x \in Entries, x # a, st[x] \in Firsts, IdOf(j.block, x) = c,
                 s \in Firsts
          PROVE  FALSE
      <4>1. c \in j.claimed
        BY <1>2, <3>2 DEF ClaimsSound, Firsts
      <4> QED
        BY <1>6, <3>2, <4>1 DEF Firsts
    <3>3. CASE e = a /\ d # a
      BY <1>5, <1>8, <2>3, <3>2, <3>3
    <3>4. CASE d = a /\ e # a
      BY <1>5, <1>8, <2>3, <3>2, <3>4
    <3> QED
      BY <3>1, <3>3, <3>4
  <2> QED
    BY <2>1, <2>2, <2>3 DEF ClaimsSound
<1>11. SubsSound(j2, S2, st2)
  <2>1. /\ st2[<<i, h>>] = s
        /\ \A k \in Pool!BucketIdx : \A g \in Hashes :
              k # i \/ g # h => st2[<<k, g>>] = st[<<k, g>>]
    BY <1>3, <1>4, <1>8 DEF Entries
  <2> SUFFICES ASSUME NEW k \in Pool!BucketIdx
               PROVE  /\ \A g \in S2[k].todo : g \in Hashes /\ st2[<<k, g>>] = "none"
                      /\ S2[k].pc \in Busy =>
                            /\ S2[k].hash \in Hashes
                            /\ S2[k].pos = PlaceOf(j.block, <<k, S2[k].hash>>)
                            /\ Fits(S2[k], st2[<<k, S2[k].hash>>])
                      /\ \A g \in Hashes : \/ st2[<<k, g>>] \in Settled
                                           \/ S2[k].pc \in Busy /\ S2[k].hash = g
    BY DEF SubsSound
  <2>2. /\ \A g \in S[k].todo : g \in Hashes /\ st[<<k, g>>] = "none"
        /\ S[k].pc \in Busy =>
              /\ S[k].hash \in Hashes
              /\ S[k].pos = PlaceOf(j.block, <<k, S[k].hash>>)
              /\ Fits(S[k], st[<<k, S[k].hash>>])
        /\ \A g \in Hashes : st[<<k, g>>] \in Settled \/ (S[k].pc \in Busy /\ S[k].hash = g)
    BY <1>2 DEF SubsSound
  <2>3. CASE k # i
    <3>1. S2[k] = S[k]
      BY <2>3 DEF Others
    <3> QED
      BY <2>1, <2>2, <2>3, <3>1
  <2>4. CASE k = i
    <3>1. \A g \in S2[k].todo : g \in S[k].todo /\ g # h
      BY <2>4
    <3>2. Fits(S2[i], s)
      BY <1>6 DEF Fits
    <3>3. "look" \in Busy /\ "next" \notin Busy
      BY DEF Busy
    <3>4. S2[i].pos = PlaceOf(j.block, <<i, h>>)
      BY <1>4, <1>5
    <3> QED
      BY <1>3, <2>1, <2>2, <2>4, <3>1, <3>2, <3>3, <3>4
  <2> QED
    BY <2>3, <2>4
<1>12. CounterSound(j2, st2)
  BY <1>1, <1>7, <1>8, <1>9, CounterKept DEF Book
<1>13. VectorSound(j2, S2, st2)
  <2>1. st[a] \notin Pushed /\ s \notin Pushed
    BY <1>8, <1>9 DEF Pushed
  <2>2. VectorSound(j, S, st)
    BY <1>1 DEF Book
  <2> QED
    BY <1>7, <2>1, <2>2, VectorKept
<1>14. PlacesSound(j2, st2)
  <2>1. st[a] \notin Filled /\ s \notin Filled /\ st[a] \notin Twins /\ st[a] # "filled"
    BY <1>8, <1>9 DEF Filled, Twins
  <2>2. PlacesSound(j, st)
    BY <1>1 DEF Book
  <2> QED
    BY <1>7, <2>1, <2>2, PlacesKept
<1>15. InBuckets(st2, bs)
  BY <1>1, <1>5, <1>8 DEF InBuckets
<1>16. st2 \in [Entries -> Statuses] /\ Book(j2, S2, st2)
  BY <1>7, <1>10, <1>11, <1>12, <1>13, <1>14 DEF Moved, Book
<1> QED
  BY <1>15, <1>16 DEF Tallied

\* The entry a sub task has in its hands.
InHand(j, S, st, i, h) ==
    /\ S[i].hash = h /\ <<i, h>> \in Entries
    /\ S[i].pos = PlaceOf(j.block, <<i, h>>) /\ Fits(S[i], st[<<i, h>>])
    /\ st[<<i, h>>] # "none"

\* A sub task that is busy has one.
LEMMA HasInHand ==
  ASSUME NEW j, NEW S, NEW st, NEW i \in Pool!BucketIdx, Book(j, S, st),
         S[i].pc \in Busy
  PROVE  \E h \in Hashes : InHand(j, S, st, i, h)
<1>1. PICK h \in Hashes : S[i].hash = h
  BY DEF Book, SubsSound
<1>2. S[i].pos = PlaceOf(j.block, <<i, h>>) /\ Fits(S[i], st[<<i, h>>])
  BY <1>1 DEF Book, SubsSound
<1>3. st[<<i, h>>] # "none"
  BY <1>2 DEF Fits, Busy
<1>4. InHand(j, S, st, i, h)
  BY <1>1, <1>2, <1>3 DEF InHand, Entries
<1> QED
  BY <1>4

\* The account after a step.
LEMMA Accounted ==
  ASSUME NEW j2, NEW S2, NEW bs, NEW st, NEW st2, NEW a \in Entries, NEW s,
         InBuckets(st, bs), Moved(st, st2, a, s), st[a] # "none", Book(j2, S2, st2)
  PROVE  Tallied(j2, S2, bs)
<1>1. InBuckets(st2, bs) /\ st2 \in [Entries -> Statuses]
  BY DEF InBuckets, Moved
<1> QED
  BY <1>1 DEF Tallied

\* An entry may also stay as it is.
LEMMA NotMoved ==
  ASSUME NEW st \in [Entries -> Statuses], NEW a \in Entries
  PROVE  Moved(st, st, a, st[a])
  BY DEF Moved

\* The lookup of the contents.
LEMMA TalliedLook ==
  ASSUME NEW j, NEW S, NEW S2, NEW bs, NEW i \in Pool!BucketIdx,
         Tallied(j, S, bs), GoesOn(i, S, S2), S[i].pc = "look",
         S2[i].pc = "push" \/ (S2[i].pc = "fill" /\ ~S[i].dup), S2[i].end = Len(j.missing)
  PROVE  Tallied(j, S2, bs)
<1>1. PICK st \in [Entries -> Statuses] : Book(j, S, st) /\ InBuckets(st, bs)
  BY DEF Tallied
<1>2. "look" \in Busy /\ S2[i].pc \in Busy
  BY DEF Busy
<1>3. PICK h \in Hashes : InHand(j, S, st, i, h)
  BY <1>1, <1>2, HasInHand
<1>4. /\ S[i].hash = h /\ <<i, h>> \in Entries
      /\ Fits(S[i], st[<<i, h>>]) /\ st[<<i, h>>] # "none"
  BY <1>3 DEF InHand
<1>5. PICK s : s = st[<<i, h>>]
  OBVIOUS
<1>6. Moved(st, st, <<i, h>>, s)
  BY <1>4, <1>5, NotMoved
<1>7. Fits(S2[i], s)
  BY <1>4, <1>5 DEF Fits, GoesOn
<1>8. SubsSound(j, S2, st)
  <2>1. SubsSound(j, S, st)
    BY <1>1 DEF Book
  <2> QED
    BY <1>2, <1>4, <1>6, <1>7, <2>1, SubsKept
<1>9. VectorSound(j, S2, st)
  <2>1. VectorSound(j, S, st)
    BY <1>1 DEF Book
  <2> QED
    BY <1>4, <1>5, <1>6, <2>1, VectorKept DEF GoesOn
<1> QED
  BY <1>1, <1>8, <1>9 DEF Book, Tallied

\* push_back
LEMMA TalliedPush ==
  ASSUME NEW j, NEW j2, NEW S, NEW S2, NEW bs, NEW i \in Pool!BucketIdx,
         Tallied(j, S, bs), IdsDistinct(j.block), GoesOn(i, S, S2),
         S[i].pc = "push", S2[i].pc = "empty",
         j2.block = j.block, j2.claimed = j.claimed, j2.counter = j.counter,
         j2.types = j.types, j2.sids = j.sids,
         j2.cells = Stored(j.cells, S[i].end, S[i].pos),
         j2.missing = SubSeq(Stored(j.cells, S[i].end, S[i].pos), 1, S[i].end + 1)
  PROVE  Tallied(j2, S2, bs)
<1>1. PICK st \in [Entries -> Statuses] : Book(j, S, st) /\ InBuckets(st, bs)
  BY DEF Tallied
<1>2. "push" \in Busy /\ "empty" \in Busy
  BY DEF Busy
<1>3. PICK h \in Hashes : InHand(j, S, st, i, h)
  BY <1>1, <1>2, HasInHand
<1>4. /\ S[i].hash = h /\ <<i, h>> \in Entries
      /\ S[i].pos = PlaceOf(j.block, <<i, h>>)
      /\ Fits(S[i], st[<<i, h>>]) /\ st[<<i, h>>] # "none"
  BY <1>3 DEF InHand
<1>5. PICK a \in Entries : a = <<i, h>>
  BY <1>4
<1>6. PICK s \in Statuses : s = IF S[i].dup THEN "twin_pushed" ELSE "pushed"
  BY DEF Statuses, Firsts, Twins
<1>7. PICK st2 : Moved(st, st2, a, s)
  BY Move
<1>8. /\ st[a] = IF S[i].dup THEN "twin" ELSE "claimed"
      /\ Fits(S2[i], s)
  BY <1>4, <1>5, <1>6 DEF Fits, GoesOn
<1>9. ClaimsSound(j2, st2)
  <2>1. st[a] # "none" /\ s # "none" /\ (st[a] \in Firsts <=> s \in Firsts)
    BY <1>6, <1>8 DEF Firsts
  <2>2. ClaimsSound(j, st)
    BY <1>1 DEF Book
  <2> QED
    BY <1>7, <2>1, <2>2, ClaimsKept
<1>10. SubsSound(j2, S2, st2)
  <2>1. SubsSound(j, S, st)
    BY <1>1 DEF Book
  <2>2. /\ Moved(st, st2, <<i, h>>, s) /\ S[i].pc \in Busy /\ S[i].hash = h
        /\ S2[i].pc \in Busy => Fits(S2[i], s)
        /\ S2[i].pc \in Busy \/ s \in Settled
    BY <1>2, <1>4, <1>5, <1>7, <1>8, Zenon
  <2> QED
    BY <2>1, <2>2, SubsKept, Zenon
<1>11. CounterSound(j2, st2)
  <2>1. st[a] \notin {"found", "retracted"} /\ s \notin {"found", "retracted"}
    BY <1>6, <1>8
  <2>2. CounterSound(j, st)
    BY <1>1 DEF Book
  <2> QED
    BY <1>7, <2>1, <2>2, CounterKept
<1>12. PlacesSound(j2, st2)
  <2>1. /\ st[a] \notin Filled /\ s \notin Filled /\ (st[a] \in Twins => s \in Twins)
        /\ st[a] # "filled"
    BY <1>6, <1>8 DEF Filled, Twins
  <2>2. PlacesSound(j, st)
    BY <1>1 DEF Book
  <2> QED
    BY <1>7, <2>1, <2>2, PlacesKept
<1>13. VectorSound(j2, S2, st2)
  <2>1. VectorSound(j, S, st)
    BY <1>1 DEF Book
  <2>2. PICK end \in Nat : end = S[i].end /\ end \in 0 .. Len(j.cells) /\ j.cells \in Seq(Nat)
    BY <2>1 DEF VectorSound
  <2>3. ClaimsSound(j, st)
    BY <1>1 DEF Book
  <2>4. PICK pos \in Nat : pos = S[i].pos /\ pos = PlaceOf(j.block, a)
    BY <1>4, <1>5, <2>3, PlacesFound DEF Positions
  <2>5. PushedTo(j.cells, end, pos, j2.cells, j2.missing)
    BY <2>2, <2>4, PushStores
  <2>6. st[a] \notin Pushed /\ s \in Pushed
    BY <1>6, <1>8 DEF Pushed
  <2> HIDE DEF Stored
  <2> QED
    BY <1>7, <2>1, <2>2, <2>4, <2>5, <2>6, VectorPushed DEF GoesOn
<1>14. Book(j2, S2, st2)
  BY <1>9, <1>10, <1>11, <1>12, <1>13 DEF Book
<1> QED
  BY <1>1, <1>4, <1>5, <1>7, <1>14, Accounted

\* The data of a task that a step on its placeholders or its counter leaves alone.
SameVector(j, j2) ==
    /\ j2.block = j.block /\ j2.claimed = j.claimed
    /\ j2.cells = j.cells /\ j2.missing = j.missing

\* An entry that comes to a status of the same kind.
Alike(r, s) ==
    /\ r \in Statuses /\ s \in Statuses /\ r # "none" /\ s # "none"
    /\ r \in Firsts <=> s \in Firsts
    /\ r \in Pushed <=> s \in Pushed

\* A step on the placeholder or the counter leaves the rest of the account sound.
LEMMA BookKept ==
  ASSUME NEW j, NEW j2, NEW S, NEW S2, NEW st, NEW st2, NEW s,
         NEW i \in Pool!BucketIdx, NEW h \in Hashes,
         Book(j, S, st), InHand(j, S, st, i, h), Moved(st, st2, <<i, h>>, s),
         Alike(st[<<i, h>>], s), SameVector(j, j2), GoesOn(i, S, S2), S[i].pc \in Busy,
         S2[i].pc # "push", S2[i].pc \in Busy => Fits(S2[i], s),
         S2[i].pc \in Busy \/ s \in Settled,
         CounterSound(j2, st2), PlacesSound(j2, st2)
  PROVE  Book(j2, S2, st2)
<1>1. PICK a \in Entries : a = <<i, h>>
  BY DEF InHand
<1>2. /\ st[a] # "none" /\ s # "none" /\ (st[a] \in Firsts <=> s \in Firsts)
      /\ st[a] \in Pushed <=> s \in Pushed
  BY <1>1 DEF Alike
<1>3. ClaimsSound(j2, st2)
  <2>1. ClaimsSound(j, st)
    BY DEF Book
  <2>2. Moved(st, st2, a, s) /\ j2.block = j.block /\ j2.claimed = j.claimed
    BY <1>1 DEF SameVector
  <2> QED
    BY <1>2, <2>1, <2>2, ClaimsKept
<1>4. SubsSound(j2, S2, st2)
  <2>1. SubsSound(j, S, st)
    BY DEF Book
  <2>2. S[i].hash = h /\ j2.block = j.block
    BY DEF InHand, SameVector
  <2> QED
    BY <2>1, <2>2, SubsKept
<1>5. VectorSound(j2, S2, st2)
  <2>1. VectorSound(j, S, st)
    BY DEF Book
  <2>2. /\ Moved(st, st2, a, s) /\ j2.block = j.block
        /\ j2.cells = j.cells /\ j2.missing = j.missing /\ Others(i, S, S2)
    BY <1>1 DEF SameVector, GoesOn
  <2> QED
    BY <1>2, <2>1, <2>2, VectorKept
<1> QED
  BY <1>3, <1>4, <1>5 DEF Book

\* The placeholder is filled: first its type, then its short id.
LEMMA TalliedFill ==
  ASSUME NEW j, NEW j2, NEW S, NEW S2, NEW bs, NEW i \in Pool!BucketIdx,
         Tallied(j, S, bs), IdsDistinct(j.block), GoesOn(i, S, S2), SameVector(j, j2),
         j2.counter = j.counter,
         \/ /\ S[i].pc = "fill" /\ S2[i].pc = "fillSid"
            /\ j2.types = [j.types EXCEPT ![S[i].pos] = "short_id"] /\ j2.sids = j.sids
         \/ /\ S[i].pc = "fillSid" /\ S2[i].pc = "found"
            /\ j2.types = j.types /\ j2.sids = [j.sids EXCEPT ![S[i].pos] = S[i].hash]
  PROVE  Tallied(j2, S2, bs)
<1>1. PICK st \in [Entries -> Statuses] : Book(j, S, st) /\ InBuckets(st, bs)
  BY DEF Tallied
<1>2. S[i].pc \in Busy /\ S2[i].pc \in Busy /\ S2[i].pc # "push"
  BY DEF Busy
<1>3. PICK h \in Hashes : InHand(j, S, st, i, h)
  BY <1>1, <1>2, HasInHand
<1>4. /\ S[i].hash = h /\ <<i, h>> \in Entries
      /\ S[i].pos = PlaceOf(j.block, <<i, h>>)
      /\ Fits(S[i], st[<<i, h>>]) /\ st[<<i, h>>] # "none"
  BY <1>3 DEF InHand
<1>5. PICK a \in Entries : a = <<i, h>> /\ a[2] = h
  BY <1>4
<1>6. PICK s \in Statuses : s = IF S[i].pc = "fill" THEN "filled" ELSE "named"
  BY DEF Statuses, Firsts, Twins
<1>7. PICK st2 : Moved(st, st2, a, s)
  BY Move
<1>8. /\ st[a] = (IF S[i].pc = "fill" THEN "claimed" ELSE "filled")
      /\ Fits(S2[i], s)
  BY <1>4, <1>5, <1>6 DEF Fits
<1>9. Alike(st[a], s)
  BY <1>6, <1>8 DEF Alike, Statuses, Firsts, Twins, Pushed
<1>10. CounterSound(j2, st2)
  <2>1. st[a] \notin {"found", "retracted"} /\ s \notin {"found", "retracted"}
    BY <1>6, <1>8
  <2>2. CounterSound(j, st)
    BY <1>1 DEF Book
  <2> QED
    BY <1>7, <2>1, <2>2, CounterKept
<1>11. PlacesSound(j2, st2)
  <2>1. PlacesSound(j, st) /\ ClaimsSound(j, st) /\ j2.block = j.block
    BY <1>1 DEF Book, SameVector
  <2>2. Fills(j, j2, st, st2, a, h)
    BY <1>4, <1>5, <1>6, <1>7, <1>8 DEF Fills
  <2> QED
    BY <2>1, <2>2, PlacesFilled
<1>12. Book(j2, S2, st2)
  BY <1>1, <1>2, <1>3, <1>5, <1>7, <1>8, <1>9, <1>10, <1>11, BookKept
<1> QED
  BY <1>1, <1>4, <1>5, <1>7, <1>12, Accounted

\* The placeholder is emptied: first its type, then its short id.
LEMMA TalliedEmpty ==
  ASSUME NEW j, NEW j2, NEW S, NEW S2, NEW bs, NEW i \in Pool!BucketIdx,
         Tallied(j, S, bs), IdsDistinct(j.block), GoesOn(i, S, S2), SameVector(j, j2),
         j2.counter = j.counter,
         \/ /\ S[i].pc = "empty" /\ S2[i].pc = "emptySid"
            /\ j2.types = [j.types EXCEPT ![S[i].pos] = "missing"] /\ j2.sids = j.sids
         \/ /\ S[i].pc = "emptySid" /\ S2[i].pc = IF S[i].dup THEN "retract" ELSE "check"
            /\ j2.types = j.types /\ j2.sids = [j.sids EXCEPT ![S[i].pos] = NoHash]
  PROVE  Tallied(j2, S2, bs)
<1>1. PICK st \in [Entries -> Statuses] : Book(j, S, st) /\ InBuckets(st, bs)
  BY DEF Tallied
<1>2. /\ S[i].pc \in Busy /\ S2[i].pc # "push"
      /\ S2[i].pc \in Busy \/ (S2[i].pc = "check" /\ ~S[i].dup)
      /\ "check" \notin Busy
  BY DEF Busy
<1>3. PICK h \in Hashes : InHand(j, S, st, i, h)
  BY <1>1, <1>2, HasInHand
<1>4. /\ S[i].hash = h /\ <<i, h>> \in Entries
      /\ S[i].pos = PlaceOf(j.block, <<i, h>>)
      /\ Fits(S[i], st[<<i, h>>]) /\ st[<<i, h>>] # "none"
  BY <1>3 DEF InHand
<1>5. PICK a \in Entries : a = <<i, h>> /\ a[2] = h
  BY <1>4
<1>6. PICK s \in Statuses : s = st[a]
  OBVIOUS
<1>7. Moved(st, st, a, s)
  BY <1>6, NotMoved
<1>8. s = (IF S[i].dup THEN "twin_pushed" ELSE "pushed")
  BY <1>4, <1>5, <1>6 DEF Fits
<1>9. (S2[i].pc \in Busy => Fits(S2[i], s)) /\ (S2[i].pc \in Busy \/ s \in Settled)
  BY <1>2, <1>8 DEF Fits, GoesOn, Settled
<1>10. Alike(st[a], s)
  BY <1>4, <1>5, <1>6 DEF Alike
<1>11. CounterSound(j2, st)
  BY <1>1 DEF Book, CounterSound
<1>12. PlacesSound(j2, st)
  <2>1. PlacesSound(j, st) /\ ClaimsSound(j, st) /\ j2.block = j.block
    BY <1>1 DEF Book, SameVector
  <2>2. /\ st[a] = "pushed" \/ st[a] = "twin_pushed"
        /\ \/ /\ j2.types = [j.types EXCEPT ![PlaceOf(j.block, a)] = "missing"]
              /\ j2.sids = j.sids
           \/ /\ j2.types = j.types
              /\ j2.sids = [j.sids EXCEPT ![PlaceOf(j.block, a)] = NoHash]
    BY <1>4, <1>5, <1>6, <1>8
  <2> QED
    BY <2>1, <2>2, PlacesEmptied
<1>13. Book(j2, S2, st)
  BY <1>1, <1>2, <1>3, <1>5, <1>7, <1>9, <1>10, <1>11, <1>12, BookKept
<1> QED
  BY <1>1, <1>13 DEF Tallied

\* fetch_add
LEMMA TalliedCount ==
  ASSUME NEW j, NEW j2, NEW S, NEW S2, NEW bs, NEW i \in Pool!BucketIdx,
         NEW b \in CompactBlocks,
         Tallied(j, S, bs), GoesOn(i, S, S2), SameVector(j, j2),
         j2.types = j.types, j2.sids = j.sids, S2[i].pc = "check",
         \/ /\ S[i].pc = "found" /\ j2.counter = (j.counter + 1) % CounterSize
         \/ /\ S[i].pc = "retract"
            /\ j2.counter = (j.counter + (CounterSize - 1)) % CounterSize
  PROVE  Tallied(j2, S2, bs)
<1>1. PICK st \in [Entries -> Statuses] : Book(j, S, st) /\ InBuckets(st, bs)
  BY DEF Tallied
<1>2. S[i].pc \in Busy /\ S2[i].pc \notin Busy /\ S2[i].pc # "push"
  BY DEF Busy
<1>3. PICK h \in Hashes : InHand(j, S, st, i, h)
  BY <1>1, <1>2, HasInHand
<1>4. /\ S[i].hash = h /\ <<i, h>> \in Entries
      /\ Fits(S[i], st[<<i, h>>]) /\ st[<<i, h>>] # "none"
  BY <1>3 DEF InHand
<1>5. PICK a \in Entries : a = <<i, h>>
  BY <1>4
<1>6. PICK s \in Statuses : s = IF S[i].pc = "found" THEN "found" ELSE "retracted"
  BY DEF Statuses, Firsts, Twins
<1>7. PICK st2 : Moved(st, st2, a, s)
  BY Move
<1>8. st[a] = (IF S[i].pc = "found" THEN "named" ELSE "twin_pushed") /\ s \in Settled
  BY <1>4, <1>5, <1>6 DEF Fits, Settled
<1>9. Alike(st[a], s)
  BY <1>6, <1>8 DEF Alike, Statuses, Firsts, Twins, Pushed
<1>10. CounterSound(j2, st2)
  <2>1. st[a] # "found" /\ st[a] # "retracted"
    BY <1>8
  <2>2. CounterSound(j, st)
    BY <1>1 DEF Book
  <2>3. \/ /\ st[a] # "found" /\ st[a] # "retracted" /\ s = "found"
           /\ j2.counter = (j.counter + 1) % CounterSize
        \/ /\ st[a] # "found" /\ st[a] # "retracted" /\ s = "retracted"
           /\ j2.counter = (j.counter + (CounterSize - 1)) % CounterSize
    BY <1>6, <2>1
  <2> QED
    BY <1>7, <2>2, <2>3, CounterChanged
<1>11. PlacesSound(j2, st2)
  <2>1. PlacesSound(j, st) /\ j2.block = j.block
    BY <1>1 DEF Book, SameVector
  <2>2. /\ st[a] \in Filled <=> s \in Filled
        /\ st[a] \in Twins => s \in Twins
        /\ st[a] # "filled"
    BY <1>6, <1>8 DEF Filled, Twins
  <2> QED
    BY <1>7, <2>1, <2>2, PlacesKept
<1>12. Book(j2, S2, st2)
  BY <1>1, <1>2, <1>3, <1>5, <1>7, <1>8, <1>9, <1>10, <1>11, BookKept
<1> QED
  BY <1>1, <1>4, <1>5, <1>7, <1>12, Accounted

-----------------------------------------------------------------------------
(* The account when all sub tasks have ended.                              *)

AtRest(S) == \A i \in Pool!BucketIdx : S[i].pc \notin Busy

\* Then every entry is settled: not claimed, pushed, retracted or found.
LEMMA AllSettled ==
  ASSUME NEW j, NEW S, NEW st, SubsSound(j, S, st), AtRest(S)
  PROVE  \A a \in Entries : st[a] \in Settled
<1> SUFFICES ASSUME NEW i \in Pool!BucketIdx, NEW h \in Hashes
             PROVE  st[<<i, h>>] \in Settled
  BY DEF Entries
<1> QED
  BY DEF SubsSound, AtRest

\* The positions of entries.
Places(b, st, T) == {PlaceOf(b, a) : a \in Having(st, T)}

\* A block has as many positions as compact ids.
LEMMA PositionsCounted ==
  ASSUME NEW b, Len(b.ids) \in Nat
  PROVE  IsFiniteSet(Positions(b)) /\ Cardinality(Positions(b)) = Len(b.ids)
<1>1. 1 \in Int /\ Len(b.ids) \in Int
  OBVIOUS
<1> QED
  BY <1>1, FS_Interval DEF Positions

\* Of the entries that were first, no two have the same position.
LEMMA FirstsPlaced ==
  ASSUME NEW j, NEW st, NEW T \in SUBSET Firsts, ClaimsSound(j, st), IdsDistinct(j.block),
         Len(j.block.ids) \in Nat
  PROVE  /\ Places(j.block, st, T) \subseteq Positions(j.block)
         /\ Cardinality(Places(j.block, st, T)) = Number(st, T)
         /\ Number(st, T) <= Len(j.block.ids)
         /\ Number(st, T) = Len(j.block.ids) => Places(j.block, st, T) = Positions(j.block)
<1> DEFINE H == Having(st, T)
           P == Places(j.block, st, T)
           f == [a \in H |-> PlaceOf(j.block, a)]
<1>1. \A a \in H : a \in Entries /\ st[a] \in Firsts /\ st[a] # "none"
  BY DEF Having, Firsts
<1>2. P \in SUBSET Positions(j.block)
  BY <1>1, PlacesFound DEF Places
<1>3. ExistsBijection(H, P)
  <2>1. f \in Surjection(H, P)
    BY DEF Surjection, Places
  <2>2. ASSUME NEW a \in H, NEW e \in H, f[a] = f[e] PROVE a = e
    <3>1. PlaceOf(j.block, a) = PlaceOf(j.block, e)
      BY <2>2
    <3>2. IdOf(j.block, a) = IdOf(j.block, e)
      BY <1>1, <3>1, PlacesFound
    <3> QED
      BY <1>1, <3>2 DEF ClaimsSound
  <2>3. f \in Injection(H, P)
    BY <2>2 DEF Injection, IsInjective, Places
  <2>4. f \in Bijection(H, P)
    BY <2>1, <2>3 DEF Bijection
  <2> QED
    BY <2>4 DEF ExistsBijection
<1>4. IsFiniteSet(H)
  BY NumberType
<1>5. Cardinality(P) = Number(st, T)
  BY <1>3, <1>4, FS_Bijection DEF Number
<1>6. IsFiniteSet(Positions(j.block)) /\ Cardinality(Positions(j.block)) = Len(j.block.ids)
  BY PositionsCounted
<1>7. /\ Cardinality(P) <= Len(j.block.ids)
      /\ Len(j.block.ids) = Cardinality(P) => Positions(j.block) = P
  BY <1>2, <1>6, FS_Subset
<1> QED
  BY <1>2, <1>5, <1>7

\* Two kinds of entries together.
LEMMA NumbersAdd ==
  ASSUME NEW st, NEW T, NEW U, T \cap U = {}
  PROVE  Number(st, T \cup U) = Number(st, T) + Number(st, U)
<1>1. /\ Having(st, T \cup U) = Having(st, T) \cup Having(st, U)
      /\ Having(st, T) \cap Having(st, U) = {}
  BY DEF Having
<1>2. IsFiniteSet(Having(st, T)) /\ IsFiniteSet(Having(st, U))
  BY NumberType
<1>3. Cardinality({}) = 0 /\ Number(st, T) \in Nat /\ Number(st, U) \in Nat
  BY FS_EmptySet, NumberType
<1>4. Cardinality(Having(st, T) \cup Having(st, U))
         = Cardinality(Having(st, T)) + Cardinality(Having(st, U)) - 0
  BY <1>1, <1>2, <1>3, FS_Union
<1> QED
  BY <1>1, <1>3, <1>4 DEF Number

\* The counts of a task whose sub tasks have ended.
Totals(j, st, f, d, q, m, n, M) ==
    /\ f \in Nat /\ d \in Nat /\ q \in Nat /\ m \in Nat /\ n \in Nat /\ M \in Nat
    /\ f = Number(st, {"found"}) /\ d = Number(st, {"retracted"})
    /\ q = Number(st, {"pushed"}) /\ Number(st, Pushed) = q + d
    /\ m = Len(j.missing) /\ n = Len(j.block.ids) /\ M = CounterSize
    /\ m <= q + d /\ f + q <= n /\ q + d + n < M /\ d + n < M
    /\ j.counter = IF f >= d THEN f - d ELSE M + f - d

\* They exist, and bound each other: pushes by the vector, firsts by the positions.
LEMMA TotalsFound ==
  ASSUME NEW j, NEW S, NEW st, Book(j, S, st), AtRest(S),
         j.block \in CompactBlocks, IdsDistinct(j.block)
  PROVE  \E f, d, q, m, n, M \in Nat : Totals(j, st, f, d, q, m, n, M)
<1>1. PICK f \in Nat : f = Number(st, {"found"})
  BY NumberType
<1>2. PICK d \in Nat : d = Number(st, {"retracted"})
  BY NumberType
<1>3. PICK q \in Nat : q = Number(st, {"pushed"})
  BY NumberType
<1>4. PICK m \in Nat : m = Len(j.missing)
  BY DEF Book, VectorSound
<1>5. PICK n \in Nat : n = Len(j.block.ids)
  BY MappingAssumption
<1>6. PICK M \in Nat : M = CounterSize
  BY MappingAssumption
<1>7. Number(st, Pushed) = q + d
  <2>1. \A a \in Entries : st[a] \in Settled
    BY AllSettled DEF Book
  <2>2. Having(st, Pushed) = Having(st, {"pushed"} \cup {"retracted"})
    BY <2>1 DEF Having, Pushed, Settled
  <2>3. Number(st, {"pushed"} \cup {"retracted"}) = q + d
    BY <1>2, <1>3, NumbersAdd
  <2> QED
    BY <2>2, <2>3 DEF Number
<1>8. f + q <= n
  <2>1. ClaimsSound(j, st)
    BY DEF Book
  <2>2. {"found"} \cup {"pushed"} \in SUBSET Firsts /\ Len(j.block.ids) \in Nat
    BY <1>5 DEF Firsts
  <2>3. Number(st, {"found"} \cup {"pushed"}) <= n
    BY <1>5, <2>1, <2>2, FirstsPlaced
  <2>4. Number(st, {"found"} \cup {"pushed"}) = f + q
    BY <1>1, <1>3, NumbersAdd
  <2> QED
    BY <2>3, <2>4
<1>9. m <= q + d
  BY <1>4, <1>7 DEF Book, VectorSound
<1>10. PICK e \in Nat : e = BucketCount * Cardinality(Hashes)
  <2>1. Cardinality(Hashes) \in Nat /\ BucketCount \in Nat
    BY MappingAssumption, FS_CardinalityType
  <2> QED
    BY <2>1
<1>11. e + n < M
  BY <1>5, <1>6, <1>10, MappingAssumption
<1>12. d <= e /\ q + d <= e
  BY <1>2, <1>7, <1>10, NumberType
<1>13. j.counter = IF f >= d THEN f - d ELSE M + f - d
  BY <1>1, <1>2, <1>6 DEF Book, CounterSound
<1>14. q + d + n < M /\ d + n < M
  BY <1>11, <1>12
<1>15. Totals(j, st, f, d, q, m, n, M)
  BY <1>1, <1>2, <1>3, <1>4, <1>5, <1>6, <1>7, <1>8, <1>9, <1>13, <1>14 DEF Totals
<1> QED
  BY <1>15

\* The loop over the compact map comes to every position.
LEMMA ScanFinds ==
  ASSUME NEW j, IdsDistinct(j.block), Len(j.block.ids) \in Nat
  PROVE  /\ Scanned(j) = {i \in Positions(j.block) : j.types[i] = "missing"}
         /\ Scanned(j) \in SUBSET Nat /\ IsFiniteSet(Scanned(j))
<1>1. {PosOf(j.block, c) : c \in CompactIdsIn(j.block)} = Positions(j.block)
  BY PositionsFound
<1>2. Scanned(j) = {i \in Positions(j.block) : j.types[i] = "missing"}
  BY <1>1 DEF Scanned
<1>3. Scanned(j) \in SUBSET Positions(j.block) /\ Positions(j.block) \subseteq Nat
  BY <1>2 DEF Positions
<1>4. IsFiniteSet(Positions(j.block))
  BY PositionsCounted
<1> QED
  BY <1>2, <1>3, <1>4, FS_Subset

\* The vector with what the loop pushes, sorted: nothing is lost or made up, and
\* without pushes before the loop it is strictly ascending.
ScanGives(s, W, v) ==
    /\ v \in Seq(Nat) /\ Len(v) = Len(s) + Cardinality(W)
    /\ \A i \in W : \E k \in 1 .. Len(v) : v[k] = i
    /\ Len(s) = 0 =>
          /\ \A k \in 1 .. Len(v) : v[k] \in W
          /\ \A k, l \in 1 .. Len(v) : k < l => v[k] < v[l]

\* This is what the loop and std::sort give.
LEMMA ScanSorted ==
  ASSUME NEW s \in Seq(Nat), NEW W \in SUBSET Nat, IsFiniteSet(W)
  PROVE  ScanGives(s, W, Sorted(s \o AsSeq(W)))
<1>1. PICK m \in Nat, c \in Nat : m = Len(s) /\ c = Cardinality(W)
  BY FS_CardinalityType
<1>2. PICK w \in Seq(Nat) : w = AsSeq(W) /\ Len(w) = c
  BY <1>1, AsSeqLists
<1>3. /\ \A n \in 1 .. c : w[n] \in W
      /\ \A i \in W : \E n \in 1 .. c : w[n] = i
      /\ \A k, l \in 1 .. c : k # l => w[k] # w[l]
  BY <1>1, <1>2, AsSeqLists
<1>4. PICK x : x = s \o w
  OBVIOUS
<1>5. /\ x \in [1 .. m + c -> Nat]
      /\ \A n \in 1 .. c : x[m + n] = w[n] /\ m + n \in 1 .. m + c
  <2>1. x \in Seq(Nat) /\ Len(x) = m + c
    BY <1>1, <1>2, <1>4, ConcatProperties
  <2>2. x \in [1 .. m + c -> Nat]
    BY <2>1, LenProperties
  <2>3. ASSUME NEW n \in 1 .. c PROVE x[m + n] = w[n] /\ m + n \in 1 .. m + c
    <3>1. m + n \in 1 .. m + c /\ ~(m + n <= m) /\ m + n - m = n
      BY <1>1
    <3>2. x[m + n] = w[m + n - m]
      BY <1>1, <1>2, <1>4, <3>1, ConcatProperties
    <3> QED
      BY <3>1, <3>2
  <2> QED
    BY <2>2, <2>3
<1>6. PICK v : v = Sorted(x)
  OBVIOUS
<1>7. m + c \in Nat
  OBVIOUS
<1>8. /\ v \in [1 .. m + c -> Nat]
      /\ \A k \in 1 .. m + c : \E l \in 1 .. m + c : v[l] = x[k]
      /\ \A l \in 1 .. m + c : \E k \in 1 .. m + c : v[l] = x[k]
      /\ (\A k, l \in 1 .. m + c : k # l => x[k] # x[l]) =>
            \A k, l \in 1 .. m + c : k < l => v[k] < v[l]
  BY <1>5, <1>6, <1>7, SortSorts
<1>9. v \in Seq(Nat) /\ Len(v) = m + c
  <2>1. PICK L \in Nat : L = m + c
    OBVIOUS
  <2>2. v \in [1 .. L -> Nat]
    BY <1>8, <2>1
  <2>3. v \in Seq(Nat)
    BY <2>2, SeqDef
  <2>4. Len(v) \in Nat /\ DOMAIN v = 1 .. Len(v) /\ DOMAIN v = 1 .. L
    BY <2>2, <2>3, LenProperties
  <2>5. Len(v) = L
    <3>1. PICK k \in Nat : k = Len(v)
      BY <2>4
    <3>2. 1 .. k = 1 .. L
      BY <2>4, <3>1
    <3>3. (k = 0 \/ k \in 1 .. k) /\ (L = 0 \/ L \in 1 .. L)
      OBVIOUS
    <3>4. (k = 0 \/ k \in 1 .. L) /\ (L = 0 \/ L \in 1 .. k)
      BY <3>2, <3>3, Zenon
    <3>5. k = L
      BY <3>4
    <3> QED
      BY <3>1, <3>5
  <2> QED
    BY <2>1, <2>3, <2>5
<1>10. ASSUME NEW i \in W PROVE \E k \in 1 .. m + c : v[k] = i
  <2>1. PICK n \in 1 .. c : w[n] = i
    BY <1>3
  <2>2. x[m + n] = i /\ m + n \in 1 .. m + c
    BY <1>5, <2>1
  <2> QED
    BY <1>8, <2>2
<1>11. ASSUME m = 0
       PROVE  /\ \A k \in 1 .. m + c : v[k] \in W
              /\ \A k, l \in 1 .. m + c : k < l => v[k] < v[l]
  <2>1. m + c = c /\ \A n \in 1 .. c : m + n = n
    BY <1>11
  <2>2. \A n \in 1 .. c : x[n] = w[n]
    BY <1>5, <2>1
  <2>3. \A k, l \in 1 .. c : k # l => x[k] # x[l]
    BY <1>3, <2>2
  <2>4. \A k \in 1 .. c : v[k] \in W
    <3> TAKE k \in 1 .. c
    <3>1. PICK l \in 1 .. c : v[k] = x[l]
      BY <1>8, <2>1
    <3> QED
      BY <1>3, <2>2, <3>1
  <2>5. \A k, l \in 1 .. c : k < l => v[k] < v[l]
    BY <1>8, <2>1, <2>3
  <2> QED
    BY <2>1, <2>4, <2>5
<1> QED
  BY <1>1, <1>2, <1>4, <1>6, <1>9, <1>10, <1>11 DEF ScanGives

-----------------------------------------------------------------------------
(* What a mapping that succeeds has found.                                 *)

Complete(j) ==
    \A i \in Positions(j.block) :
        \/ j.types[i] = "short_id"
        \/ \E n \in DOMAIN j.missing : j.missing[n] = i

\* The counter reached the size of the block and the totals agree: then no push was
\* lost, and every position was claimed.
LEMMA NoPushLost ==
  ASSUME NEW j, NEW st, NEW f, NEW d, NEW q, NEW m, NEW n, NEW M,
         Totals(j, st, f, d, q, m, n, M), AddsUp(j), ~(j.counter < n)
  PROVE  m = q + d /\ f + q = n
<1>1. /\ f \in Nat /\ d \in Nat /\ q \in Nat /\ m \in Nat /\ n \in Nat /\ M \in Nat
      /\ m <= q + d /\ f + q <= n /\ q + d + n < M
  BY DEF Totals
<1>2. PICK x : x = j.counter
  OBVIOUS
<1>3. x = IF f >= d THEN f - d ELSE M + f - d
  BY <1>2 DEF Totals
<1>4. x \in 0 .. M - 1 /\ m \in 0 .. M - 1 /\ M \in Nat \ {0} /\ x >= n
  BY <1>1, <1>2, <1>3
<1>5. (m + x) % M = n
  <2>1. MissingIndices(j) = j.missing
    BY DEF MissingIndices, Totals
  <2> QED
    BY <1>2, <2>1 DEF AddsUp, Totals
<1>6. (m + x) % M = IF m + x < M THEN m + x ELSE m + x - M
  BY <1>4, RestOfSum
<1>7. n = IF m + x < M THEN m + x ELSE m + x - M
  BY <1>5, <1>6
<1> QED
  BY <1>1, <1>3, <1>4, <1>7

\* Every position of the block is filled or among the missing indices.
LEMMA Completed ==
  ASSUME NEW j, NEW j2, NEW S, NEW st, Book(j, S, st), AtRest(S),
         j.block \in CompactBlocks, IdsDistinct(j.block), AddsUp(j),
         j2.block = j.block, j2.types = j.types, j2.missing = MissingIndices(j)
  PROVE  Complete(j2)
<1>1. PICK f, d, q, m, n, M \in Nat : Totals(j, st, f, d, q, m, n, M)
  BY TotalsFound
<1>2. n = Len(j.block.ids) /\ Len(j.block.ids) \in Nat /\ m = Len(j.missing)
  BY <1>1 DEF Totals
<1>3. ClaimsSound(j, st) /\ PlacesSound(j, st) /\ VectorSound(j, S, st)
  BY DEF Book
<1> SUFFICES ASSUME NEW i \in Positions(j.block), j.types[i] # "short_id"
             PROVE  \E k \in DOMAIN j2.missing : j2.missing[k] = i
  BY DEF Complete
<1>4. j.types[i] = "missing"
  BY <1>3 DEF PlacesSound
<1>5. CASE j.counter < n
  <2>1. j2.missing = Sorted(j.missing \o AsSeq(Scanned(j)))
    BY <1>2, <1>5 DEF MissingIndices
  <2>2. i \in Scanned(j) /\ Scanned(j) \in SUBSET Nat /\ IsFiniteSet(Scanned(j))
    BY <1>2, <1>4, ScanFinds
  <2>3. j.missing \in Seq(Nat)
    BY <1>3 DEF VectorSound
  <2>4. j2.missing \in Seq(Nat) /\ \E k \in 1 .. Len(j2.missing) : j2.missing[k] = i
    <3>1. ScanGives(j.missing, Scanned(j), j2.missing)
      BY <2>1, <2>2, <2>3, ScanSorted
    <3> QED
      BY <2>2, <3>1 DEF ScanGives
  <2> QED
    BY <2>4, LenProperties
<1>6. CASE ~(j.counter < n)
  <2>1. m = q + d /\ f + q = n
    BY <1>1, <1>6, NoPushLost
  <2>2. j2.missing = j.missing /\ j.missing \in Seq(Nat)
    BY <1>2, <1>3, <1>6 DEF MissingIndices, VectorSound
  <2>3. \A a \in Entries : st[a] \in Pushed =>
           \E k \in 1 .. m : j.missing[k] = PlaceOf(j.block, a)
    BY <1>1, <1>2, <1>3, <2>1 DEF VectorSound, Totals
  <2>4. PICK a \in Entries : st[a] \in {"found", "pushed"} /\ PlaceOf(j.block, a) = i
    <3>1. Number(st, {"found"} \cup {"pushed"}) = Len(j.block.ids)
      <4>1. f = Number(st, {"found"}) /\ q = Number(st, {"pushed"})
        BY <1>1 DEF Totals
      <4>2. {"found"} \cap {"pushed"} = {}
        OBVIOUS
      <4>3. Number(st, {"found"} \cup {"pushed"}) = f + q
        BY <4>1, <4>2, NumbersAdd
      <4> QED
        BY <1>2, <2>1, <4>3
    <3>2. {"found"} \cup {"pushed"} \in SUBSET Firsts
      BY DEF Firsts
    <3>3. Places(j.block, st, {"found"} \cup {"pushed"}) = Positions(j.block)
      BY <1>2, <1>3, <3>1, <3>2, FirstsPlaced
    <3> QED
      BY <3>3 DEF Places, Having
  <2>5. PICK e \in Entries : st[e] \in Pushed /\ PlaceOf(j.block, e) = i
    <3>1. CASE st[a] = "pushed"
      BY <2>4, <3>1 DEF Pushed
    <3>2. CASE st[a] = "found"
      <4>1. Twinned(j.block, st, a)
        BY <1>3, <1>4, <2>4, <3>2 DEF PlacesSound, Filled
      <4>2. PICK e \in Entries : st[e] \in Twins /\ IdOf(j.block, e) = IdOf(j.block, a)
        BY <4>1 DEF Twinned
      <4>3. st[e] \in Settled
        BY AllSettled DEF Book
      <4>4. st[e] \in Pushed /\ PlaceOf(j.block, e) = i
        BY <2>4, <4>2, <4>3 DEF Twins, Settled, Pushed, PlaceOf
      <4> QED
        BY <4>4
    <3> QED
      BY <2>4, <3>1, <3>2
  <2>6. \E k \in 1 .. m : j.missing[k] = i
    BY <2>3, <2>5
  <2> QED
    BY <1>2, <2>2, <2>6, LenProperties
<1> QED
  BY <1>5, <1>6

-----------------------------------------------------------------------------
(* Without collisions.                                                     *)

Apart(b, bs) ==
    /\ IdsDistinct(b)
    /\ \A g, h \in Hashes : b.compactOf[g] = b.compactOf[h] => g = h
    /\ \A i, k \in Pool!BucketIdx : i # k => bs[i] \cap bs[k] = {}

Exact(j) ==
    /\ \A m, n \in DOMAIN j.missing : m < n => j.missing[m] < j.missing[n]
    /\ {j.missing[n] : n \in DOMAIN j.missing}
          = {i \in Positions(j.block) : j.types[i] = "missing"}
    /\ \A i \in Positions(j.block) :
          j.types[i] = "short_id" =>
              j.sids[i] # NoHash /\ j.block.compactOf[j.sids[i]] = j.block.ids[i]

\* Without collisions no compact id is claimed twice.
LEMMA NoTwins ==
  ASSUME NEW j, NEW st, NEW bs, ClaimsSound(j, st), InBuckets(st, bs), Apart(j.block, bs)
  PROVE  \A e \in Entries : st[e] \notin Twins
<1> SUFFICES ASSUME NEW e \in Entries, st[e] \in Twins PROVE FALSE
  OBVIOUS
<1>1. st[e] # "none" /\ st[e] \notin Firsts
  BY DEF Twins, Firsts
<1>2. PICK a \in Entries : st[a] \in Firsts /\ IdOf(j.block, a) = IdOf(j.block, e)
  BY <1>1 DEF ClaimsSound
<1>3. st[a] # "none" /\ a # e
  BY <1>1, <1>2 DEF Firsts
<1>4. PICK i \in Pool!BucketIdx, g \in Hashes : a = <<i, g>>
  BY DEF Entries
<1>5. PICK k \in Pool!BucketIdx, h \in Hashes : e = <<k, h>>
  BY DEF Entries
<1>6. g = h
  BY <1>2, <1>4, <1>5 DEF Apart, IdOf
<1>7. g \in bs[i] /\ h \in bs[k]
  BY <1>1, <1>3, <1>4, <1>5 DEF InBuckets
<1>8. i # k
  BY <1>3, <1>4, <1>5, <1>6
<1> QED
  BY <1>6, <1>7, <1>8 DEF Apart

\* The filled positions are those of the transactions that were found.
LEMMA FilledFound ==
  ASSUME NEW j, NEW S, NEW st, Book(j, S, st), AtRest(S), j.block \in CompactBlocks,
         IdsDistinct(j.block), \A e \in Entries : st[e] \notin Twins
  PROVE  /\ {i \in Positions(j.block) : j.types[i] = "short_id"}
               = Places(j.block, st, {"found"})
         /\ \A a \in Having(st, {"found"}) : j.sids[PlaceOf(j.block, a)] = a[2]
<1>1. ClaimsSound(j, st) /\ PlacesSound(j, st)
  BY DEF Book
<1>2. \A a \in Entries : st[a] \in Settled /\ ~Twinned(j.block, st, a)
  BY AllSettled DEF Book, Twinned
<1>3. \A a \in Entries : st[a] \in Filled <=> st[a] = "found"
  BY <1>2 DEF Settled, Filled
<1>4. \A a \in Having(st, {"found"}) : a \in Entries /\ st[a] = "found"
  BY DEF Having
<1>5. ASSUME NEW a \in Having(st, {"found"})
      PROVE  /\ PlaceOf(j.block, a) \in Positions(j.block)
             /\ j.types[PlaceOf(j.block, a)] = "short_id"
             /\ j.sids[PlaceOf(j.block, a)] = a[2]
  <2>1. a \in Entries /\ st[a] = "found" /\ st[a] \in Filled /\ ~Twinned(j.block, st, a)
    BY <1>2, <1>3, <1>4
  <2> QED
    BY <1>1, <2>1, PlacesFound DEF PlacesSound
<1>6. ASSUME NEW i \in Positions(j.block), j.types[i] = "short_id"
      PROVE  i \in Places(j.block, st, {"found"})
  <2>1. PICK a \in Entries : st[a] \in Filled /\ PlaceOf(j.block, a) = i
    BY <1>1, <1>6 DEF PlacesSound
  <2> QED
    BY <1>3, <2>1 DEF Places, Having
<1> QED
  BY <1>5, <1>6 DEF Places

\* The missing indices are then exactly the positions that are not filled, ascending.
LEMMA Exacted ==
  ASSUME NEW j, NEW j2, NEW S, NEW st, NEW bs, Book(j, S, st), AtRest(S),
         j.block \in CompactBlocks, InBuckets(st, bs), Apart(j.block, bs), AddsUp(j),
         j2.block = j.block, j2.types = j.types, j2.sids = j.sids,
         j2.missing = MissingIndices(j)
  PROVE  Exact(j2)
<1>1. IdsDistinct(j.block)
  BY DEF Apart
<1>2. PICK f, d, q, m, n, M \in Nat : Totals(j, st, f, d, q, m, n, M)
  BY <1>1, TotalsFound
<1>3. n = Len(j.block.ids) /\ Len(j.block.ids) \in Nat /\ m = Len(j.missing)
  BY <1>2 DEF Totals
<1>4. ClaimsSound(j, st) /\ PlacesSound(j, st) /\ VectorSound(j, S, st)
  BY DEF Book
<1>5. \A e \in Entries : st[e] \notin Twins
  BY <1>4, NoTwins
<1>6. /\ {i \in Positions(j.block) : j.types[i] = "short_id"} = Places(j.block, st, {"found"})
      /\ \A a \in Having(st, {"found"}) : j.sids[PlaceOf(j.block, a)] = a[2]
  BY <1>1, <1>5, FilledFound
<1>7. d = 0 /\ j.counter = f
  <2>1. Having(st, {"retracted"}) = {}
    BY <1>5 DEF Having, Twins
  <2>2. d = 0
    BY <1>2, <2>1, FS_EmptySet DEF Totals, Number
  <2> QED
    BY <1>2, <2>2 DEF Totals
<1>8. PICK W : W = {i \in Positions(j.block) : j.types[i] = "missing"}
  OBVIOUS
<1>9. Scanned(j) = W /\ W \in SUBSET Nat /\ IsFiniteSet(W)
  BY <1>1, <1>3, <1>8, ScanFinds
<1>10. Cardinality(W) = n - f
  <2>1. W = Positions(j.block) \ Places(j.block, st, {"found"})
    BY <1>4, <1>6, <1>8 DEF PlacesSound
  <2>2. {"found"} \in SUBSET Firsts
    BY DEF Firsts
  <2>3. /\ Places(j.block, st, {"found"}) \subseteq Positions(j.block)
        /\ Cardinality(Places(j.block, st, {"found"})) = f
    <3>1. f = Number(st, {"found"})
      BY <1>2 DEF Totals
    <3>2. Cardinality(Places(j.block, st, {"found"})) = Number(st, {"found"})
      BY <1>1, <1>3, <1>4, <2>2, FirstsPlaced
    <3>3. Places(j.block, st, {"found"}) \subseteq Positions(j.block)
      BY <1>1, <1>3, <1>4, <2>2, FirstsPlaced
    <3> QED
      BY <3>1, <3>2, <3>3
  <2>4. IsFiniteSet(Positions(j.block)) /\ Cardinality(Positions(j.block)) = n
    BY <1>3, PositionsCounted
  <2>5. Positions(j.block) \cap Places(j.block, st, {"found"}) = Places(j.block, st, {"found"})
    BY <2>3
  <2>6. Cardinality(Positions(j.block) \ Places(j.block, st, {"found"}))
           = Cardinality(Positions(j.block))
                - Cardinality(Positions(j.block) \cap Places(j.block, st, {"found"}))
    BY <2>4, FS_Difference
  <2> QED
    BY <2>1, <2>3, <2>4, <2>5, <2>6
<1>11. /\ j2.missing \in Seq(Nat)
       /\ \A k \in 1 .. Len(j2.missing) : j2.missing[k] \in W
       /\ \A i \in W : \E k \in 1 .. Len(j2.missing) : j2.missing[k] = i
       /\ \A k, l \in 1 .. Len(j2.missing) : k < l => j2.missing[k] < j2.missing[l]
  <2>1. CASE j.counter < n
    <3>1. j.missing \in Seq(Nat)
      BY <1>4 DEF VectorSound
    <3>2. j2.missing = Sorted(j.missing \o AsSeq(W))
      BY <1>3, <1>9, <2>1 DEF MissingIndices
    <3>3. ScanGives(j.missing, W, j2.missing)
      BY <1>9, <3>1, <3>2, ScanSorted
    <3>4. Len(j2.missing) = m + (n - f)
      BY <1>3, <1>10, <3>3 DEF ScanGives
    <3>5. (m + (n - f) + f) % M = n
      BY <1>2, <1>7, <3>4 DEF AddsUp, Totals
    <3>6. m + n \in 0 .. M - 1 /\ M \in Nat \ {0} /\ m + (n - f) + f = m + n
      <4>1. m <= q + d /\ q + d + n < M
        BY <1>2 DEF Totals
      <4> QED
        BY <4>1
    <3>7. m + n = n
      BY <3>5, <3>6, Rest
    <3>8. Len(j.missing) = 0
      <4>1. m = 0
        BY <3>7
      <4> QED
        BY <1>3, <4>1
    <3> QED
      BY <3>3, <3>8 DEF ScanGives
  <2>2. CASE ~(j.counter < n)
    <3>1. f = n /\ m = 0
      BY <1>2, <1>7, <2>2 DEF Totals
    <3>2. Cardinality(W) = 0
      BY <1>10, <3>1
    <3>3. W = {}
      BY <1>9, <3>2, FS_EmptySet
    <3>4. j2.missing = j.missing /\ j.missing \in Seq(Nat)
      BY <1>3, <1>4, <2>2 DEF MissingIndices, VectorSound
    <3>5. Len(j2.missing) = 0 /\ 1 .. 0 = {}
      <4>1. 1 .. 0 = {}
        OBVIOUS
      <4> QED
        BY <1>3, <3>1, <3>4, <4>1, Zenon
    <3> QED
      BY <3>3, <3>4, <3>5
  <2> QED
    BY <2>1, <2>2
<1>12. DOMAIN j2.missing = 1 .. Len(j2.missing)
  BY <1>11, LenProperties
<1>13. {j2.missing[k] : k \in DOMAIN j2.missing} = W
  BY <1>11, <1>12
<1>14. ASSUME NEW i \in Positions(j.block), j.types[i] = "short_id"
       PROVE  j.sids[i] # NoHash /\ j.block.compactOf[j.sids[i]] = j.block.ids[i]
  <2>1. PICK a \in Having(st, {"found"}) : PlaceOf(j.block, a) = i
    BY <1>6, <1>14 DEF Places
  <2>2. a \in Entries /\ st[a] # "none" /\ j.sids[i] = a[2]
    BY <1>6, <2>1 DEF Having
  <2>3. a[2] \in Hashes
    BY <2>2 DEF Entries
  <2>4. j.block.compactOf[a[2]] = j.block.ids[i]
    BY <1>1, <1>4, <2>1, <2>2, PositionsFound DEF ClaimsSound, PlaceOf, IdOf
  <2> QED
    BY <2>2, <2>3, <2>4, MappingAssumption
<1> QED
  BY <1>8, <1>11, <1>12, <1>13, <1>14 DEF Exact

-----------------------------------------------------------------------------
(* The invariant of a mapping.                                             *)

Fresh(j) ==
    /\ j.claimed = {} /\ j.counter = 0 /\ j.missing = <<>> /\ j.cells = <<>>
    /\ j.types = [i \in Positions(j.block) |-> "missing"]
    /\ j.sids = [i \in Positions(j.block) |-> NoHash]

\* A task object with its sub tasks, the buckets of the pool and the task's state as
\* a reader of it.
Sound(j, S, bs, r) ==
    /\ j.pc # "idle" => j.block \in CompactBlocks
    /\ j.pc \in {"acquire", "dispatch"} => Fresh(j)
    /\ \A i \in Pool!BucketIdx : S[i].todo \subseteq S[i].given
    /\ j.pc = "wait" /\ IdsDistinct(j.block) => Tallied(j, S, bs)
    /\ j.pc \in {"release", "done"} /\ IdsDistinct(j.block) => Complete(j)
    /\ j.pc \in {"release", "done"} /\ r = "reading" /\ Apart(j.block, bs) => Exact(j)

Recorded == \A t \in Tasks : Sound(job[t], sub[t], buckets, reader[t])

\* A task that takes no step itself.
LEMMA OthersSound ==
  ASSUME IInv, Recorded, PoolStep, NEW u \in Tasks, job'[u] = job[u], sub'[u] = sub[u],
         reader'[u] = "reading" => reader[u] = "reading"
  PROVE  Sound(job'[u], sub'[u], buckets', reader'[u])
<1>1. Sound(job[u], sub[u], buckets, reader[u])
  BY DEF Recorded
<1>2. reader[u] = "reading" => buckets' = buckets
  BY ReadersUndisturbed DEF IInv
<1>3. job[u].pc = "wait" => reader[u] = "reading"
  BY DEF IInv, TasksRead
<1> QED
  BY <1>1, <1>2, <1>3 DEF Sound

\* Whoever calls, only the caller begins to read.
LEMMA OthersDontStart ==
  ASSUME IInv, NEW t \in Tasks, ReaderCall(t), NEW u \in Tasks, u # t,
         reader'[u] = "reading"
  PROVE  reader[u] = "reading"
<1>1. reader = [v \in Tasks |-> reader[v]]
  BY DEF IInv, Container!IInv, Container!TypeOK
<1>2. CASE Pool!AcquireRead(t)
  BY <1>1, <1>2 DEF Pool!AcquireRead
<1>3. CASE Pool!WakeUp(t)
  BY <1>1, <1>3 DEF Pool!WakeUp
<1>4. CASE Pool!ReleaseRead(t)
  BY <1>1, <1>4 DEF Pool!ReleaseRead
<1>5. CASE Pool!ApplyAdd(t)
  BY <1>5 DEF Pool!ApplyAdd
<1>6. CASE Pool!ApplyRemovals(t)
  BY <1>1, <1>6 DEF Pool!ApplyRemovals, Pool!NotifyAll
<1> QED
  BY <1>2, <1>3, <1>4, <1>5, <1>6 DEF ReaderCall

\* A step of task t: what remains to be shown.
LEMMA OneMoves ==
  ASSUME IInv, Recorded, NEW t \in Tasks, UNCHANGED poolVars \/ ReaderCall(t),
         \A u \in Tasks : u # t => job'[u] = job[u] /\ sub'[u] = sub[u],
         Sound(job'[t], sub'[t], buckets', reader'[t])
  PROVE  Recorded'
<1>1. PoolStep
  BY DEF PoolStep
<1>2. ASSUME NEW u \in Tasks, u # t, reader'[u] = "reading"
      PROVE  reader[u] = "reading"
  <2>1. CASE UNCHANGED poolVars
    BY <1>2, <2>1 DEF poolVars
  <2>2. CASE ReaderCall(t)
    BY <1>2, <2>2, OthersDontStart
  <2> QED
    BY <2>1, <2>2
<1>3. \A u \in Tasks : u # t => Sound(job'[u], sub'[u], buckets', reader'[u])
  BY <1>1, <1>2, OthersSound
<1>4. \A u \in Tasks : Sound(job'[u], sub'[u], buckets', reader'[u])
  BY <1>3
<1> QED
  BY <1>4 DEF Recorded

\* The calls of the main thread, and a step that changes nothing.
LEMMA ServiceRecords ==
  ASSUME IInv, Recorded, UNCHANGED <<job, sub>>,
         UNCHANGED poolVars \/ \E h \in Hashes : WriterCall(h)
  PROVE  Recorded'
<1>1. PoolStep
  BY DEF PoolStep
<1>2. reader' = reader
  BY DEF WriterCall, Pool!Insert, Pool!Erase, poolVars
<1>3. \A u \in Tasks : Sound(job'[u], sub'[u], buckets', reader'[u])
  BY <1>1, <1>2, OthersSound
<1> QED
  BY <1>3 DEF Recorded

\* init: the data of the task is new.
LEMMA StartRecords ==
  ASSUME IInv, Recorded, NEW t \in Tasks, NEW b \in CompactBlocks, Start(t, b)
  PROVE  Recorded'
<1>1. PICK j : j = Parsed(b)
  OBVIOUS
<1>2. /\ j.pc = "acquire" /\ j.block = b /\ Fresh(j) /\ IsJob(j)
  BY <1>1 DEF Parsed, Fresh, IsJob
<1>3. job' = [job EXCEPT ![t] = j] /\ UNCHANGED <<poolVars, sub>>
  BY <1>1 DEF Start
<1>4. /\ \A u \in Tasks : u # t => job'[u] = job[u]
      /\ job'[t] = j
  BY <1>2, <1>3, JobChanged
<1>5. Sound(j, sub[t], buckets', reader'[t])
  <2>1. Sound(job[t], sub[t], buckets, reader[t])
    BY DEF Recorded
  <2> QED
    BY <1>2, <2>1 DEF Sound
<1> QED
  BY <1>3, <1>4, <1>5, OneMoves

\* A step that changes nothing but the field pc.
OnlyPc(j, j2) ==
    /\ j2.block = j.block /\ j2.claimed = j.claimed /\ j2.types = j.types
    /\ j2.sids = j.sids /\ j2.missing = j.missing /\ j2.cells = j.cells
    /\ j2.counter = j.counter

\* It keeps the rest of the task object.
LEMMA PcOnly ==
  ASSUME IInv, NEW t \in Tasks, NEW pc, job' = [job EXCEPT ![t].pc = pc]
  PROVE  /\ \A u \in Tasks : u # t => job'[u] = job[u]
         /\ job'[t].pc = pc /\ OnlyPc(job[t], job'[t])
<1>1. PICK j : j = [job[t] EXCEPT !.pc = pc]
  OBVIOUS
<1>2. IsJob(job[t])
  BY DEF IInv, Shaped
<1>3. IsJob(j) /\ j.pc = pc /\ OnlyPc(job[t], j)
  BY <1>1, <1>2 DEF IsJob, OnlyPc
<1>4. job' = [job EXCEPT ![t] = j]
  BY <1>1
<1> QED
  BY <1>3, <1>4, JobChanged

\* acquire_tx_pool
LEMMA AcquireRecords ==
  ASSUME IInv, Recorded, NEW t \in Tasks, Acquire(t)
  PROVE  Recorded'
<1>1. PICK pc : pc = IF reader'[t] = "reading" THEN "dispatch" ELSE job[t].pc
  OBVIOUS
<1>2. /\ job[t].pc = "acquire" /\ pc \in {"acquire", "dispatch"}
      /\ job' = [job EXCEPT ![t].pc = pc] /\ UNCHANGED sub /\ ReaderCall(t)
  BY <1>1 DEF Acquire, ReaderCall
<1>3. /\ \A u \in Tasks : u # t => job'[u] = job[u]
      /\ job'[t].pc = pc /\ OnlyPc(job[t], job'[t])
  BY <1>2, PcOnly
<1>4. Sound(job[t], sub[t], buckets, reader[t])
  BY DEF Recorded
<1>5. Fresh(job'[t]) /\ job'[t].block \in CompactBlocks
  BY <1>2, <1>3, <1>4 DEF Sound, Fresh, OnlyPc
<1>6. Sound(job'[t], sub'[t], buckets', reader'[t])
  BY <1>2, <1>3, <1>4, <1>5 DEF Sound
<1> QED
  BY <1>2, <1>3, <1>6, OneMoves

\* on_finished_reading_tx_pool: what was found stays.
LEMMA ReleaseRecords ==
  ASSUME IInv, Recorded, NEW t \in Tasks, Release(t)
  PROVE  Recorded'
<1>1. PICK pc : pc = IF reader'[t] = "idle" THEN "done" ELSE job[t].pc
  OBVIOUS
<1>2. /\ job[t].pc = "release" /\ pc \in {"release", "done"}
      /\ job' = [job EXCEPT ![t].pc = pc] /\ UNCHANGED sub /\ ReaderCall(t)
      /\ Pool!ReleaseRead(t) \/ Pool!ApplyAdd(t) \/ Pool!ApplyRemovals(t)
  BY <1>1 DEF Release, ReaderCall
<1>3. /\ \A u \in Tasks : u # t => job'[u] = job[u]
      /\ job'[t].pc = pc /\ OnlyPc(job[t], job'[t])
  BY <1>2, PcOnly
<1>4. Sound(job[t], sub[t], buckets, reader[t])
  BY DEF Recorded
<1>5. reader'[t] # "reading"
  <2>1. reader = [v \in Tasks |-> reader[v]]
    BY DEF IInv, Container!IInv, Container!TypeOK
  <2> QED
    BY <1>2, <2>1 DEF Pool!ReleaseRead, Pool!ApplyAdd, Pool!ApplyRemovals, Pool!NotifyAll
<1>6. IdsDistinct(job'[t].block) => Complete(job'[t])
  BY <1>2, <1>3, <1>4 DEF Sound, OnlyPc, Complete
<1>7. Sound(job'[t], sub'[t], buckets', reader'[t])
  BY <1>2, <1>3, <1>4, <1>5, <1>6 DEF Sound, OnlyPc
<1> QED
  BY <1>2, <1>3, <1>7, OneMoves

\* Before the sub tasks run, no entry is accounted for.
LEMMA TalliedStart ==
  ASSUME NEW j, NEW S, NEW bs, Fresh(j), AtRest(S),
         \A i \in Pool!BucketIdx : S[i].todo \subseteq Hashes
  PROVE  Tallied(j, S, bs)
<1>1. PICK st : st = [a \in Entries |-> "none"]
  OBVIOUS
<1>2. st \in [Entries -> Statuses] /\ \A a \in Entries : st[a] = "none"
  BY <1>1 DEF Statuses
<1>3. ASSUME NEW T, "none" \notin T PROVE Number(st, T) = 0
  <2>1. Having(st, T) = {}
    BY <1>2, <1>3 DEF Having
  <2> QED
    BY <2>1, FS_EmptySet DEF Number
<1>4. Number(st, {"found"}) = 0 /\ Number(st, {"retracted"}) = 0
  BY <1>3
<1>5. Number(st, Pushed) = 0
  BY <1>3 DEF Pushed
<1>6. ClaimsSound(j, st)
  BY <1>2 DEF ClaimsSound, Fresh, Firsts
<1>7. SubsSound(j, S, st)
  BY <1>2 DEF SubsSound, AtRest, Entries, Settled
<1>8. CounterSound(j, st)
  BY <1>4 DEF CounterSound, Fresh
<1>9. VectorSound(j, S, st)
  <2>1. /\ j.missing = <<>> /\ j.cells = <<>> /\ <<>> \in Seq(Nat) /\ Len(<<>>) = 0
        /\ \A i \in Pool!BucketIdx : S[i].pc # "push"
    BY DEF Fresh, AtRest, Busy
  <2>2. \A a \in Entries : st[a] \notin Pushed
    BY <1>2 DEF Pushed
  <2> QED
    BY <1>5, <2>1, <2>2 DEF VectorSound
<1>10. PlacesSound(j, st)
  BY <1>2 DEF PlacesSound, Fresh, Filled
<1>11. InBuckets(st, bs)
  BY <1>2 DEF InBuckets
<1> QED
  BY <1>2, <1>6, <1>7, <1>8, <1>9, <1>10, <1>11 DEF Book, Tallied

\* _dispatch: the account begins.
LEMMA DispatchRecords ==
  ASSUME IInv, Recorded, NEW t \in Tasks, Dispatch(t)
  PROVE  Recorded'
<1>1. PICK S : S = [i \in Pool!BucketIdx |->
                  IF i \in Dispatched
                  THEN [IdleSub EXCEPT !.pc = "next", !.given = buckets[i],
                                       !.todo = buckets[i]]
                  ELSE IdleSub]
  OBVIOUS
<1>2. /\ job[t].pc = "dispatch" /\ job' = [job EXCEPT ![t].pc = "wait"]
      /\ sub' = [sub EXCEPT ![t] = S] /\ UNCHANGED poolVars
  BY <1>1 DEF Dispatch
<1>3. /\ \A u \in Tasks : u # t => job'[u] = job[u]
      /\ job'[t].pc = "wait" /\ OnlyPc(job[t], job'[t])
  BY <1>2, PcOnly
<1>4. /\ \A u \in Tasks : u # t => sub'[u] = sub[u]
      /\ sub'[t] = S
  BY <1>2 DEF IInv, Shaped
<1>5. /\ AtRest(S) /\ \A i \in Pool!BucketIdx : S[i].todo \subseteq S[i].given
      /\ \A i \in Pool!BucketIdx : S[i].todo \subseteq Hashes
  <2>1. \A i \in Pool!BucketIdx : buckets[i] \subseteq Hashes
    BY DEF IInv, Container!IInv, Container!TypeOK, Pool!BucketIdx, Container!BucketIdx
  <2> QED
    BY <1>1, <2>1 DEF AtRest, IdleSub, Busy
<1>6. Sound(job[t], sub[t], buckets, reader[t])
  BY DEF Recorded
<1>7. Fresh(job'[t]) /\ job'[t].block \in CompactBlocks
  BY <1>2, <1>3, <1>6 DEF Sound, Fresh, OnlyPc
<1>8. Tallied(job'[t], S, buckets')
  BY <1>5, <1>7, TalliedStart
<1>9. Sound(job'[t], sub'[t], buckets', reader'[t])
  BY <1>3, <1>4, <1>5, <1>7, <1>8 DEF Sound
<1> QED
  BY <1>2, <1>3, <1>4, <1>9, OneMoves

\* The end of _execute: the account is closed.
LEMMA CountRecords ==
  ASSUME IInv, Recorded, NEW t \in Tasks, Count(t)
  PROVE  Recorded'
<1>1. PICK m, pc : /\ m = MissingIndices(job[t])
                    /\ pc = IF AddsUp(job[t]) THEN "release" ELSE "failed"
  OBVIOUS
<1>2. /\ job[t].pc = "wait" /\ SubTasksDone(t)
      /\ job' = [job EXCEPT ![t].missing = m, ![t].pc = pc]
      /\ UNCHANGED <<poolVars, sub>> /\ pc \in {"release", "failed"}
  BY <1>1 DEF Count
<1>3. PICK j : j = job[t]
  OBVIOUS
<1>4. PICK j2 : j2 = [j EXCEPT !.missing = m, !.pc = pc]
  OBVIOUS
<1>5. /\ IsJob(j2) /\ j2.pc = pc /\ j2.missing = m
      /\ j2.block = j.block /\ j2.types = j.types /\ j2.sids = j.sids
  <2>1. IsJob(j)
    BY <1>3 DEF IInv, Shaped
  <2> QED
    BY <1>4, <2>1 DEF IsJob
<1>6. job' = [job EXCEPT ![t] = j2]
  BY <1>2, <1>3, <1>4 DEF IInv, Shaped
<1>7. (\A u \in Tasks : u # t => job'[u] = job[u]) /\ job'[t] = j2
  BY <1>5, <1>6, JobChanged
<1>8. Sound(j, sub[t], buckets, reader[t])
  BY <1>3 DEF Recorded
<1>9. j.block \in CompactBlocks /\ j2.block \in CompactBlocks
  BY <1>2, <1>3, <1>5, <1>8 DEF Sound
<1>10. ASSUME pc = "release", IdsDistinct(j.block)
       PROVE  Complete(j2) /\ (Apart(j.block, buckets) => Exact(j2))
  <2>1. Tallied(j, sub[t], buckets)
    BY <1>2, <1>3, <1>8, <1>10 DEF Sound
  <2>2. PICK st \in [Entries -> Statuses] : Book(j, sub[t], st) /\ InBuckets(st, buckets)
    BY <2>1 DEF Tallied
  <2>3. AtRest(sub[t])
    BY <1>2 DEF SubTasksDone, AtRest, Busy
  <2>4. AddsUp(j) /\ j2.missing = MissingIndices(j)
    BY <1>1, <1>3, <1>5, <1>10
  <2>5. Complete(j2)
    BY <1>5, <1>9, <1>10, <2>2, <2>3, <2>4, Completed
  <2>6. ASSUME Apart(j.block, buckets) PROVE Exact(j2)
    BY <1>5, <1>9, <2>2, <2>3, <2>4, <2>6, Exacted
  <2> QED
    BY <2>5, <2>6
<1>11. Sound(j2, sub'[t], buckets', reader'[t])
  <2>1. sub'[t] = sub[t] /\ buckets' = buckets
    BY <1>2 DEF poolVars
  <2>2. Apart(j.block, buckets) => IdsDistinct(j.block)
    BY DEF Apart
  <2> QED
    BY <1>2, <1>5, <1>8, <1>9, <1>10, <2>1, <2>2 DEF Sound
<1> QED
  BY <1>2, <1>7, <1>11, OneMoves

\* The task before a step of the sub task of bucket i.
LEMMA SubBefore ==
  ASSUME IInv, Recorded, NEW t \in Tasks, NEW i \in Pool!BucketIdx, sub[t][i].pc # "idle"
  PROVE  /\ job[t].pc = "wait" /\ job[t].block \in CompactBlocks
         /\ IsJob(job[t]) /\ IsSub(sub[t][i])
         /\ sub[t][i].todo \subseteq sub[t][i].given /\ sub[t][i].given = buckets[i]
<1>1. job[t].pc = "wait" /\ sub[t][i].given = buckets[i]
  BY DEF IInv, SubTasksAwaited, BucketsFrozen
<1>2. IsJob(job[t]) /\ IsSub(sub[t][i])
  BY Objects
<1>3. Sound(job[t], sub[t], buckets, reader[t])
  BY DEF Recorded
<1> QED
  BY <1>1, <1>2, <1>3 DEF Sound

\* It changes the task object, and its own.
SubMoves(t, i, j, s) ==
    /\ job' = [job EXCEPT ![t] = j] /\ sub' = [sub EXCEPT ![t][i] = s]
    /\ UNCHANGED poolVars

\* A step is recorded if the account can follow it.
LEMMA SubRecords ==
  ASSUME IInv, Recorded, NEW t \in Tasks, NEW i \in Pool!BucketIdx, NEW j, NEW s,
         SubMoves(t, i, j, s), sub[t][i].pc # "idle",
         IsJob(j), j.pc = job[t].pc, j.block = job[t].block, s.todo \subseteq s.given,
         \A S2 : Others(i, sub[t], S2) /\ S2[i] = s /\ IdsDistinct(job[t].block)
                    /\ Tallied(job[t], sub[t], buckets) => Tallied(j, S2, buckets)
  PROVE  Recorded'
<1>1. job[t].pc = "wait" /\ job[t].block \in CompactBlocks
  BY SubBefore
<1>2. PICK S2 : S2 = [sub[t] EXCEPT ![i] = s]
  OBVIOUS
<1>3. Others(i, sub[t], S2) /\ S2[i] = s
  BY <1>2 DEF IInv, Shaped, Others
<1>4. /\ \A u \in Tasks : u # t => sub'[u] = sub[u]
      /\ sub'[t] = S2
  BY <1>2 DEF SubMoves, IInv, Shaped
<1>5. (\A u \in Tasks : u # t => job'[u] = job[u]) /\ job'[t] = j
  BY JobChanged DEF SubMoves
<1>6. Sound(job[t], sub[t], buckets, reader[t])
  BY DEF Recorded
<1>7. IdsDistinct(j.block) => Tallied(j, S2, buckets)
  BY <1>1, <1>3, <1>6 DEF Sound
<1>8. \A k \in Pool!BucketIdx : S2[k].todo \subseteq S2[k].given
  BY <1>3, <1>6 DEF Sound, Others
<1>9. Sound(j, S2, buckets', reader'[t])
  BY <1>1, <1>7, <1>8 DEF Sound, SubMoves, poolVars
<1> QED
  BY <1>4, <1>5, <1>9, OneMoves DEF SubMoves

\* The next hash is taken.
LEMMA SubNextRecords ==
  ASSUME IInv, Recorded, NEW t \in Tasks, NEW i \in Pool!BucketIdx, SubNext(t, i)
  PROVE  Recorded'
<1>1. PICK r, j : r = sub[t][i] /\ j = job[t]
  OBVIOUS
<1>2. PICK h \in r.todo :
         LET c == j.block.compactOf[h]
             rest == [r EXCEPT !.todo = @ \ {h}]
         IN  \/ sub' = [sub EXCEPT ![t][i] = rest] /\ UNCHANGED job
             \/ sub' = [sub EXCEPT ![t][i] = [rest EXCEPT !.pc = "check"]] /\ UNCHANGED job
             \/ /\ c \in CompactIdsIn(j.block)
                /\ sub' = [sub EXCEPT ![t][i] =
                       [rest EXCEPT !.pc = "look", !.hash = h,
                                    !.pos = PosOf(j.block, c),
                                    !.dup = c \in j.claimed]]
                /\ job' = [job EXCEPT ![t].claimed = @ \cup {c}]
  BY <1>1, Zenon DEF SubNext
<1>3. r.pc = "next" /\ sub[t][i].pc # "idle" /\ UNCHANGED poolVars
  BY <1>1 DEF SubNext
<1>4. /\ IsSub(r) /\ IsJob(j) /\ r.todo \subseteq r.given /\ h \in buckets[i]
      /\ job = [job EXCEPT ![t] = j]
  BY <1>1, <1>3, SubBefore, Objects
<1>5. PICK c : c = j.block.compactOf[h]
  OBVIOUS
<1>6. PICK rest : rest = [r EXCEPT !.todo = @ \ {h}]
  OBVIOUS
<1>7. /\ IsSub(rest) /\ rest.pc = "next" /\ rest.given = r.given
      /\ rest.todo = r.todo \ {h}
  BY <1>3, <1>4, <1>6 DEF IsSub
<1>8. ASSUME NEW s, SubMoves(t, i, j, s), s.pc \in {"next", "check"},
             s.todo = r.todo \ {h}, s.given = r.given
      PROVE  Recorded'
  <2>1. s.todo \subseteq s.given /\ s.todo \subseteq r.todo
    BY <1>4, <1>8
  <2>2. r.pc \notin Busy /\ s.pc \notin Busy
    BY <1>3, <1>8 DEF Busy
  <2>3. ASSUME NEW S2, Others(i, sub[t], S2), S2[i] = s, Tallied(j, sub[t], buckets)
        PROVE  Tallied(j, S2, buckets)
    BY <1>1, <2>1, <2>2, <2>3, TalliedIdle
  <2> QED
    BY <1>1, <1>3, <1>4, <1>8, <2>1, <2>3, SubRecords
<1>9. CASE sub' = [sub EXCEPT ![t][i] = rest] /\ UNCHANGED job
  <2>1. SubMoves(t, i, j, rest)
    BY <1>3, <1>4, <1>9 DEF SubMoves
  <2> QED
    BY <1>7, <1>8, <2>1
<1>10. CASE sub' = [sub EXCEPT ![t][i] = [rest EXCEPT !.pc = "check"]] /\ UNCHANGED job
  <2>1. PICK s : s = [rest EXCEPT !.pc = "check"]
    OBVIOUS
  <2>2. s.pc = "check" /\ s.todo = rest.todo /\ s.given = rest.given
    BY <1>7, <2>1 DEF IsSub
  <2>3. SubMoves(t, i, j, s)
    BY <1>3, <1>4, <1>10, <2>1 DEF SubMoves
  <2> QED
    BY <1>7, <1>8, <2>2, <2>3
<1>11. CASE /\ c \in CompactIdsIn(j.block)
            /\ sub' = [sub EXCEPT ![t][i] =
                 [rest EXCEPT !.pc = "look", !.hash = h, !.pos = PosOf(j.block, c),
                              !.dup = c \in j.claimed]]
            /\ job' = [job EXCEPT ![t].claimed = @ \cup {c}]
  <2>1. PICK pos, dup : pos = PosOf(j.block, c) /\ dup = (c \in j.claimed)
    OBVIOUS
  <2>2. PICK s : s = [rest EXCEPT !.pc = "look", !.hash = h, !.pos = pos, !.dup = dup]
    OBVIOUS
  <2>3. /\ s.pc = "look" /\ s.hash = h /\ s.pos = pos /\ s.dup = dup
        /\ s.todo = r.todo \ {h} /\ s.todo \subseteq s.given
    BY <1>4, <1>7, <2>2 DEF IsSub
  <2>4. PICK j2 : j2 = [j EXCEPT !.claimed = @ \cup {c}]
    OBVIOUS
  <2>5. /\ IsJob(j2) /\ j2.pc = j.pc /\ j2.block = j.block
        /\ j2.claimed = j.claimed \cup {c} /\ j2.counter = j.counter
        /\ j2.types = j.types /\ j2.sids = j.sids /\ j2.cells = j.cells
        /\ j2.missing = j.missing
    BY <1>4, <2>4 DEF IsJob
  <2>6. SubMoves(t, i, j2, s)
    BY <1>1, <1>3, <1>11, <2>1, <2>2, <2>4, Zenon DEF SubMoves
  <2>7. ASSUME NEW S2, Others(i, sub[t], S2), S2[i] = s, Tallied(j, sub[t], buckets)
        PROVE  Tallied(j2, S2, buckets)
    <3>1. /\ sub[t][i].pc = "next" /\ S2[i].pc = "look" /\ S2[i].todo = sub[t][i].todo \ {h}
          /\ S2[i].hash = h /\ S2[i].pos = PosOf(j.block, c) /\ S2[i].dup = (c \in j.claimed)
          /\ h \in sub[t][i].todo
      BY <1>1, <1>3, <2>1, <2>3, <2>7
    <3> QED
      BY <1>4, <1>5, <1>11, <2>5, <2>7, <3>1, TalliedClaim
  <2> QED
    BY <1>1, <1>3, <2>3, <2>5, <2>6, <2>7, SubRecords
<1> QED
  BY <1>2, <1>5, <1>6, <1>9, <1>10, <1>11, Zenon

\* The contents are looked up.
LEMMA SubLookRecords ==
  ASSUME IInv, Recorded, NEW t \in Tasks, NEW i \in Pool!BucketIdx, SubLook(t, i)
  PROVE  Recorded'
<1>1. PICK r, j : r = sub[t][i] /\ j = job[t]
  OBVIOUS
<1>2. PICK pc, end : /\ pc = IF r.dup \/ r.hash \notin withContents THEN "push" ELSE "fill"
                     /\ end = Len(j.missing)
  OBVIOUS
<1>3. /\ r.pc = "look" /\ sub[t][i].pc # "idle" /\ UNCHANGED poolVars /\ UNCHANGED job
      /\ sub' = [sub EXCEPT ![t][i].pc = pc, ![t][i].end = end]
  BY <1>1, <1>2 DEF SubLook
<1>4. IsSub(r) /\ IsJob(j) /\ r.todo \subseteq r.given /\ job = [job EXCEPT ![t] = j]
  BY <1>1, <1>3, SubBefore, Objects
<1>5. PICK s : s = [r EXCEPT !.pc = pc, !.end = end]
  OBVIOUS
<1>6. /\ s.pc = pc /\ s.end = end /\ s.todo = r.todo /\ s.given = r.given
      /\ s.hash = r.hash /\ s.pos = r.pos /\ s.dup = r.dup
  BY <1>4, <1>5 DEF IsSub
<1>7. SubMoves(t, i, j, s)
  <2>1. sub' = [sub EXCEPT ![t][i] = s]
    BY <1>1, <1>3, <1>5 DEF IInv, Shaped
  <2> QED
    BY <1>3, <1>4, <2>1 DEF SubMoves
<1>8. ASSUME NEW S2, Others(i, sub[t], S2), S2[i] = s, Tallied(j, sub[t], buckets)
      PROVE  Tallied(j, S2, buckets)
  <2>1. GoesOn(i, sub[t], S2)
    BY <1>1, <1>6, <1>8 DEF GoesOn
  <2>2. /\ sub[t][i].pc = "look" /\ S2[i].end = Len(j.missing)
        /\ S2[i].pc = "push" \/ (S2[i].pc = "fill" /\ ~sub[t][i].dup)
    BY <1>1, <1>2, <1>3, <1>6, <1>8
  <2> QED
    BY <1>8, <2>1, <2>2, TalliedLook
<1> QED
  BY <1>1, <1>3, <1>4, <1>6, <1>7, <1>8, SubRecords

\* A step to pc with a change of the data that is shared.
LEMMA SubWriteRecords ==
  ASSUME IInv, Recorded, NEW t \in Tasks, NEW i \in Pool!BucketIdx, NEW pc, NEW j,
         IsJob(j), j.pc = job[t].pc, j.block = job[t].block,
         job' = [job EXCEPT ![t] = j], sub' = [sub EXCEPT ![t][i].pc = pc],
         sub[t][i].pc # "idle", UNCHANGED poolVars,
         \A S2 : GoesOn(i, sub[t], S2) /\ S2[i].pc = pc /\ IdsDistinct(job[t].block)
                    /\ Tallied(job[t], sub[t], buckets) => Tallied(j, S2, buckets)
  PROVE  Recorded'
<1>1. PICK r : r = sub[t][i]
  OBVIOUS
<1>2. IsSub(r) /\ r.todo \subseteq r.given
  BY <1>1, SubBefore
<1>3. PICK s : s = [r EXCEPT !.pc = pc]
  OBVIOUS
<1>4. /\ s.pc = pc /\ s.todo = r.todo /\ s.given = r.given
      /\ s.hash = r.hash /\ s.pos = r.pos /\ s.dup = r.dup
  BY <1>2, <1>3 DEF IsSub
<1>5. SubMoves(t, i, j, s)
  <2>1. sub' = [sub EXCEPT ![t][i] = s]
    BY <1>1, <1>3
  <2> QED
    BY <2>1 DEF SubMoves
<1>6. ASSUME NEW S2, Others(i, sub[t], S2), S2[i] = s
      PROVE  GoesOn(i, sub[t], S2) /\ S2[i].pc = pc
  BY <1>1, <1>4, <1>6 DEF GoesOn
<1> QED
  BY <1>2, <1>4, <1>5, <1>6, SubRecords

\* push_back
LEMMA SubPushRecords ==
  ASSUME IInv, Recorded, NEW t \in Tasks, NEW i \in Pool!BucketIdx, SubPush(t, i)
  PROVE  Recorded'
<1>1. PICK r, j : r = sub[t][i] /\ j = job[t]
  OBVIOUS
<1>2. PICK cells, m : /\ cells = Stored(j.cells, r.end, r.pos)
                      /\ m = SubSeq(cells, 1, r.end + 1)
  OBVIOUS
<1>3. /\ r.pc = "push" /\ sub[t][i].pc # "idle" /\ UNCHANGED poolVars
      /\ sub' = [sub EXCEPT ![t][i].pc = "empty"]
      /\ job' = [job EXCEPT ![t].cells = cells, ![t].missing = m]
  BY <1>1, <1>2, Zenon DEF SubPush, Goto
<1>4. IsJob(j)
  BY <1>1, <1>3, SubBefore
<1>5. PICK j2 : j2 = [j EXCEPT !.cells = cells, !.missing = m]
  OBVIOUS
<1>6. /\ IsJob(j2) /\ j2.pc = j.pc /\ j2.block = j.block /\ j2.claimed = j.claimed
      /\ j2.counter = j.counter /\ j2.types = j.types /\ j2.sids = j.sids
      /\ j2.cells = cells /\ j2.missing = m
  BY <1>4, <1>5 DEF IsJob
<1>7. job' = [job EXCEPT ![t] = j2]
  BY <1>1, <1>3, <1>5 DEF IInv, Shaped
<1>8. ASSUME NEW S2, GoesOn(i, sub[t], S2), S2[i].pc = "empty", IdsDistinct(j.block),
             Tallied(j, sub[t], buckets)
      PROVE  Tallied(j2, S2, buckets)
  <2>1. /\ sub[t][i].pc = "push"
        /\ j2.cells = Stored(j.cells, sub[t][i].end, sub[t][i].pos)
        /\ j2.missing = SubSeq(Stored(j.cells, sub[t][i].end, sub[t][i].pos), 1, sub[t][i].end + 1)
    BY <1>1, <1>2, <1>3, <1>6, Zenon
  <2> QED
    BY <1>6, <1>8, <2>1, TalliedPush
<1> QED
  BY <1>1, <1>3, <1>6, <1>7, <1>8, SubWriteRecords

\* The type of the placeholder.
LEMMA SubSetTypeRecords ==
  ASSUME IInv, Recorded, NEW t \in Tasks, NEW i \in Pool!BucketIdx, SubSetType(t, i)
  PROVE  Recorded'
<1>1. PICK r, j : r = sub[t][i] /\ j = job[t]
  OBVIOUS
<1>2. PICK v, pc : /\ v = IF r.pc = "fill" THEN "short_id" ELSE "missing"
                   /\ pc = IF r.pc = "fill" THEN "fillSid" ELSE "emptySid"
  OBVIOUS
<1>3. /\ r.pc \in {"empty", "fill"} /\ UNCHANGED poolVars
      /\ sub' = [sub EXCEPT ![t][i].pc = pc]
      /\ job' = [job EXCEPT ![t].types[r.pos] = v]
  BY <1>1, <1>2, Zenon DEF SubSetType, Goto
<1>4. IsJob(j) /\ sub[t][i].pc # "idle"
  BY <1>1, <1>3, SubBefore
<1>5. PICK y : y = [j.types EXCEPT ![r.pos] = v]
  OBVIOUS
<1>6. PICK j2 : j2 = [j EXCEPT !.types = y]
  OBVIOUS
<1>7. /\ IsJob(j2) /\ j2.pc = j.pc /\ j2.block = j.block /\ SameVector(j, j2)
      /\ j2.counter = j.counter /\ j2.types = y /\ j2.sids = j.sids
  BY <1>4, <1>6 DEF IsJob, SameVector
<1>8. job' = [job EXCEPT ![t] = j2]
  BY <1>1, <1>3, <1>5, <1>6
<1>9. ASSUME NEW S2, GoesOn(i, sub[t], S2), S2[i].pc = pc, IdsDistinct(j.block),
             Tallied(j, sub[t], buckets)
      PROVE  Tallied(j2, S2, buckets)
  <2>1. CASE r.pc = "fill"
    <3>1. /\ sub[t][i].pc = "fill" /\ S2[i].pc = "fillSid" /\ j2.sids = j.sids
          /\ j2.types = [j.types EXCEPT ![sub[t][i].pos] = "short_id"]
      BY <1>1, <1>2, <1>5, <1>7, <1>9, <2>1
    <3> QED
      BY <1>7, <1>9, <3>1, TalliedFill
  <2>2. CASE r.pc = "empty"
    <3>1. /\ sub[t][i].pc = "empty" /\ S2[i].pc = "emptySid" /\ j2.sids = j.sids
          /\ j2.types = [j.types EXCEPT ![sub[t][i].pos] = "missing"]
      BY <1>1, <1>2, <1>5, <1>7, <1>9, <2>2
    <3> QED
      BY <1>7, <1>9, <3>1, TalliedEmpty
  <2> QED
    BY <1>3, <2>1, <2>2
<1> QED
  BY <1>1, <1>3, <1>4, <1>7, <1>8, <1>9, SubWriteRecords

\* Its short id.
LEMMA SubSetSidRecords ==
  ASSUME IInv, Recorded, NEW t \in Tasks, NEW i \in Pool!BucketIdx, SubSetSid(t, i)
  PROVE  Recorded'
<1>1. PICK r, j : r = sub[t][i] /\ j = job[t]
  OBVIOUS
<1>2. PICK v, pc : /\ v = IF r.pc = "fillSid" THEN r.hash ELSE NoHash
                   /\ pc = IF r.pc = "fillSid" THEN "found"
                           ELSE IF r.dup THEN "retract" ELSE "check"
  OBVIOUS
<1>3. /\ r.pc \in {"emptySid", "fillSid"} /\ UNCHANGED poolVars
      /\ sub' = [sub EXCEPT ![t][i].pc = pc]
      /\ job' = [job EXCEPT ![t].sids[r.pos] = v]
  BY <1>1, <1>2, Zenon DEF SubSetSid, Goto
<1>4. IsJob(j) /\ sub[t][i].pc # "idle"
  BY <1>1, <1>3, SubBefore
<1>5. PICK y : y = [j.sids EXCEPT ![r.pos] = v]
  OBVIOUS
<1>6. PICK j2 : j2 = [j EXCEPT !.sids = y]
  OBVIOUS
<1>7. /\ IsJob(j2) /\ j2.pc = j.pc /\ j2.block = j.block /\ SameVector(j, j2)
      /\ j2.counter = j.counter /\ j2.types = j.types /\ j2.sids = y
  BY <1>4, <1>6 DEF IsJob, SameVector
<1>8. job' = [job EXCEPT ![t] = j2]
  BY <1>1, <1>3, <1>5, <1>6
<1>9. ASSUME NEW S2, GoesOn(i, sub[t], S2), S2[i].pc = pc, IdsDistinct(j.block),
             Tallied(j, sub[t], buckets)
      PROVE  Tallied(j2, S2, buckets)
  <2>1. CASE r.pc = "fillSid"
    <3>1. /\ sub[t][i].pc = "fillSid" /\ S2[i].pc = "found" /\ j2.types = j.types
          /\ j2.sids = [j.sids EXCEPT ![sub[t][i].pos] = sub[t][i].hash]
      BY <1>1, <1>2, <1>5, <1>7, <1>9, <2>1
    <3> QED
      BY <1>7, <1>9, <3>1, TalliedFill
  <2>2. CASE r.pc = "emptySid"
    <3>1. /\ sub[t][i].pc = "emptySid" /\ j2.types = j.types
          /\ S2[i].pc = IF sub[t][i].dup THEN "retract" ELSE "check"
          /\ j2.sids = [j.sids EXCEPT ![sub[t][i].pos] = NoHash]
      BY <1>1, <1>2, <1>5, <1>7, <1>9, <2>2
    <3> QED
      BY <1>7, <1>9, <3>1, TalliedEmpty
  <2> QED
    BY <1>3, <2>1, <2>2
<1> QED
  BY <1>1, <1>3, <1>4, <1>7, <1>8, <1>9, SubWriteRecords

\* fetch_add
LEMMA SubCountRecords ==
  ASSUME IInv, Recorded, NEW t \in Tasks, NEW i \in Pool!BucketIdx, SubCount(t, i)
  PROVE  Recorded'
<1>1. PICK r, j : r = sub[t][i] /\ j = job[t]
  OBVIOUS
<1>2. PICK v : v = (j.counter + (IF r.pc = "found" THEN 1 ELSE CounterSize - 1)) % CounterSize
  OBVIOUS
<1>3. /\ r.pc \in {"found", "retract"} /\ UNCHANGED poolVars
      /\ sub' = [sub EXCEPT ![t][i].pc = "check"]
      /\ job' = [job EXCEPT ![t].counter = v]
  BY <1>1, <1>2, Zenon DEF SubCount, Goto
<1>4. IsJob(j) /\ sub[t][i].pc # "idle" /\ j.block \in CompactBlocks
  BY <1>1, <1>3, SubBefore
<1>5. PICK j2 : j2 = [j EXCEPT !.counter = v]
  OBVIOUS
<1>6. /\ IsJob(j2) /\ j2.pc = j.pc /\ j2.block = j.block /\ SameVector(j, j2)
      /\ j2.counter = v /\ j2.types = j.types /\ j2.sids = j.sids
  BY <1>4, <1>5 DEF IsJob, SameVector
<1>7. job' = [job EXCEPT ![t] = j2]
  BY <1>1, <1>3, <1>5
<1>8. ASSUME NEW S2, GoesOn(i, sub[t], S2), S2[i].pc = "check", Tallied(j, sub[t], buckets)
      PROVE  Tallied(j2, S2, buckets)
  <2>1. \/ sub[t][i].pc = "found" /\ j2.counter = (j.counter + 1) % CounterSize
        \/ /\ sub[t][i].pc = "retract"
           /\ j2.counter = (j.counter + (CounterSize - 1)) % CounterSize
    BY <1>1, <1>2, <1>3, <1>6
  <2> QED
    BY <1>4, <1>6, <1>8, <2>1, TalliedCount
<1> QED
  BY <1>1, <1>3, <1>4, <1>6, <1>7, <1>8, SubWriteRecords

\* The loop goes on or is left.
LEMMA SubCheckRecords ==
  ASSUME IInv, Recorded, NEW t \in Tasks, NEW i \in Pool!BucketIdx, SubCheck(t, i)
  PROVE  Recorded'
<1>1. PICK pc : /\ sub' = [sub EXCEPT ![t][i].pc = pc] /\ pc \in {"end", "next"}
  BY DEF SubCheck, Goto
<1>2. sub[t][i].pc = "check" /\ UNCHANGED poolVars /\ UNCHANGED job
  BY DEF SubCheck
<1>3. IsJob(job[t]) /\ job' = [job EXCEPT ![t] = job[t]]
  BY <1>2, Objects
<1>4. "check" \notin Busy /\ pc \notin Busy
  BY <1>1 DEF Busy
<1>5. ASSUME NEW S2, GoesOn(i, sub[t], S2), S2[i].pc = pc, Tallied(job[t], sub[t], buckets)
      PROVE  Tallied(job[t], S2, buckets)
  <2>1. Others(i, sub[t], S2) /\ S2[i].todo \subseteq sub[t][i].todo
    BY <1>5 DEF GoesOn
  <2> QED
    BY <1>2, <1>4, <1>5, <2>1, TalliedIdle
<1> QED
  BY <1>1, <1>2, <1>3, <1>5, SubWriteRecords

\* The sub task ends.
LEMMA SubEndRecords ==
  ASSUME IInv, Recorded, NEW t \in Tasks, NEW i \in Pool!BucketIdx, SubEnd(t, i)
  PROVE  Recorded'
<1>1. /\ sub[t][i].pc \in {"end", "next"} /\ UNCHANGED <<poolVars, job>>
      /\ sub' = [sub EXCEPT ![t][i] = IdleSub]
  BY DEF SubEnd
<1>2. IsJob(job[t]) /\ job' = [job EXCEPT ![t] = job[t]]
  BY <1>1, Objects
<1>3. /\ sub[t][i].pc \notin Busy /\ IdleSub.pc \notin Busy
      /\ IdleSub.todo = {} /\ IdleSub.todo \subseteq IdleSub.given
  BY <1>1 DEF Busy, IdleSub
<1>4. SubMoves(t, i, job[t], IdleSub)
  BY <1>1, <1>2 DEF SubMoves
<1>5. ASSUME NEW S2, Others(i, sub[t], S2), S2[i] = IdleSub, Tallied(job[t], sub[t], buckets)
      PROVE  Tallied(job[t], S2, buckets)
  <2>1. S2[i].pc \notin Busy /\ S2[i].todo \subseteq sub[t][i].todo
    BY <1>3, <1>5
  <2> QED
    BY <1>3, <1>5, <2>1, TalliedIdle
<1> QED
  BY <1>1, <1>2, <1>3, <1>4, <1>5, SubRecords

\* All steps of a sub task.
LEMMA SubStepRecords ==
  ASSUME IInv, Recorded, NEW t \in Tasks, NEW i \in Pool!BucketIdx, SubStep(t, i)
  PROVE  Recorded'
  BY SubNextRecords, SubLookRecords, SubPushRecords, SubSetTypeRecords, SubSetSidRecords,
     SubCountRecords, SubCheckRecords, SubEndRecords DEF SubStep

-----------------------------------------------------------------------------
\* At first no task has a block.
LEMMA InitRecorded == Init => Recorded
<1> SUFFICES ASSUME Init, NEW t \in Tasks PROVE Sound(job[t], sub[t], buckets, reader[t])
  BY DEF Recorded
<1>1. job[t].pc = "idle"
  BY DEF Init, Parsed
<1>2. \A i \in Pool!BucketIdx : sub[t][i].todo \subseteq sub[t][i].given
  BY DEF Init, IdleSub
<1> QED
  BY <1>1, <1>2 DEF Sound

\* Every step keeps the account.
LEMMA StepRecords == IInv /\ Recorded /\ [Next]_vars => Recorded'
<1> SUFFICES ASSUME IInv, Recorded, [Next]_vars PROVE Recorded'
  OBVIOUS
<1>1. ASSUME NEW t \in Tasks, TaskStep(t)
      PROVE  Recorded'
  BY <1>1, AcquireRecords, DispatchRecords, CountRecords, ReleaseRecords, SubStepRecords
     DEF TaskStep
<1>2. ASSUME NEW t \in Tasks, NEW b \in CompactBlocks, Start(t, b)
      PROVE  Recorded'
  BY <1>2, StartRecords
<1>3. ASSUME NEW h \in Hashes, ServiceStep(h)
      PROVE  Recorded'
  <2>1. /\ UNCHANGED <<job, sub>>
        /\ UNCHANGED poolVars \/ WriterCall(h)
    BY <1>3 DEF ServiceStep, AddTransaction, SetContents, RemoveTransaction, TrackSeen,
                EraseFromPool, WriterCall
  <2> QED
    BY <2>1, ServiceRecords
<1>4. CASE UNCHANGED vars
  BY <1>4, ServiceRecords DEF vars
<1> QED
  BY <1>1, <1>2, <1>3, <1>4 DEF Next

\* For every mapping, at every moment, there is an account of what its sub tasks did
\* with each transaction that explains the counter, the vector, the placeholders and
\* the claims; from its end on, the mapping is complete.
THEOREM MappingsRecorded == Spec => []Recorded
  BY Invariance, InitRecorded, StepRecords, PTL DEF Spec

\* A mapping that succeeds (the totals that _execute compares agree) forgets no
\* position of a block whose compact ids differ, for any number of sub tasks: neither
\* a push_back that overwrites another, nor a counter below zero, nor a twin that
\* empties a placeholder gets past the comparison unless the position is in the vector
\* or found by the loop over the compact map.
THEOREM NoPositionForgotten == Spec => []NoneForgotten
<1>1. Recorded => NoneForgotten
  BY DEF Recorded, Sound, NoneForgotten, Mapped, Complete
<1> QED
  BY <1>1, MappingsRecorded, PTL

\* Without collisions, a mapping that succeeds returns exactly the positions it did
\* not fill, in strictly ascending order, and each filled position has a transaction
\* with its compact id.
THEOREM MappingIsExact == Spec => []MappingExact
<1>1. ASSUME Recorded, NEW t \in Tasks, Mapped(t), reader[t] = "reading",
             WithoutCollision(job[t].block)
      PROVE  Exact(job[t])
  <2>1. Apart(job[t].block, buckets)
    BY <1>1 DEF WithoutCollision, Apart
  <2> QED
    BY <1>1, <2>1 DEF Recorded, Sound, Mapped
<1>2. Recorded => MappingExact
  BY <1>1 DEF MappingExact, Exact
<1> QED
  BY <1>2, MappingsRecorded, PTL
=============================================================================
