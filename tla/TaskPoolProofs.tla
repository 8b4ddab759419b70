--------------------------- MODULE TaskPoolProofs ---------------------------
(***************************************************************************)
(* For any number of tasks and threads: a task object is in one place at a *)
(* time, a completed one is in none, and a main task that succeeds has     *)
(* consumed the results of all its parts.                                  *)
(***************************************************************************)
EXTENDS TaskPool, TLAPS

(* A pool is its queues and what its threads run.                          *)

MainJobs == [m \in PoolIdx |-> main[m].job]
SubJobs == [s \in PoolIdx |-> sub[s].job]

InQueue(queue, t) == \E i \in PoolIdx : \E k \in 1 .. Len(queue[i]) : queue[i][k] = t

\* The tasks that are in a pool, queued or run by a thread.
InPool(queue, job) == {t \in Tasks : InQueue(queue, t) \/ \E i \in PoolIdx : job[i] = t}

PoolQueues == [PoolIdx -> Seq(Tasks)]
PoolJobs == [PoolIdx -> Tasks \cup {NoTask}]

Pushed(queue, i, t) == [queue EXCEPT ![i] = Append(@, t)]
Left(job, i) == [job EXCEPT ![i] = NoTask]

\* No task is in two places of a pool.
Once(queue, job) ==
    /\ \A i, j \in PoolIdx : \A k \in 1 .. Len(queue[i]), l \in 1 .. Len(queue[j]) :
          queue[i][k] = queue[j][l] => i = j /\ k = l
    /\ \A i, j \in PoolIdx : job[i] = job[j] /\ job[i] \in Tasks => i = j
    /\ \A i \in PoolIdx : job[i] \in Tasks => ~InQueue(queue, job[i])

(* The inductive invariant.                                                *)

\* before_execution has accepted the task and after_execution is still to come.
Pending(t) == task[t].initialized /\ ~task[t].completed

\* Each pool has a task at most once.
PoolsOnce == Once(mainQueue, MainJobs) /\ Once(subQueue, SubJobs)

\* A task in a pool is pending: before_execution refuses it.
PoolsPending ==
    \A t \in InPool(mainQueue, MainJobs) \cup InPool(subQueue, SubJobs) : Pending(t)

\* A thread has a task exactly while it executes it.
ThreadsBusy ==
    /\ \A m \in PoolIdx :
          IF main[m].pc \in {"dispatch", "enqueue", "wait", "asleep"}
          THEN main[m].job \in MainTasks
          ELSE main[m].job = NoTask
    /\ \A s \in PoolIdx :
          IF sub[s].pc \in {"lock", "run"} THEN sub[s].job \in SubTasks ELSE sub[s].job = NoTask

\* A sub task between before_execution and the push to a queue is pending, and not
\* yet in the sub pool.
OnTheWay ==
    \A m \in PoolIdx : main[m].pc = "enqueue" =>
        Pending(Current(m)) /\ Current(m) \notin InPool(subQueue, SubJobs)

\* The sub tasks that a main task has waited for stay completed while it waits
\* for the others.
WaitedFor ==
    \A m \in PoolIdx : main[m].pc \in {"wait", "asleep"} =>
        \A k \in PoolIdx : k < main[m].idx =>
            task[<<main[m].job, k>>].completed /\ ~task[<<main[m].job, k>>].error

IInv == TypeOK /\ PoolsOnce /\ PoolsPending /\ ThreadsBusy /\ OnTheWay /\ WaitedFor

-----------------------------------------------------------------------------
(* Pools.                                                                  *)

\* enqueue: a task that is not in the pool is pushed to one of its queues.
LEMMA PushOnce ==
  ASSUME NEW queue \in PoolQueues, NEW job \in PoolJobs,
         NEW i \in PoolIdx, NEW t \in Tasks, t \notin InPool(queue, job), Once(queue, job),
         NEW pushed, pushed = Pushed(queue, i, t)
  PROVE  /\ Once(pushed, job)
         /\ \A u : u \in InPool(pushed, job) <=> u \in InPool(queue, job) \/ u = t
<1>1. \A j \in PoolIdx : j # i => pushed[j] = queue[j]
  BY DEF Pushed, PoolQueues
<1>2. /\ pushed[i] = Append(queue[i], t)
      /\ queue[i] \in Seq(Tasks)
  BY DEF Pushed, PoolQueues
<1>3. /\ Len(pushed[i]) = Len(queue[i]) + 1
      /\ Len(queue[i]) \in Nat
      /\ \A k \in 1 .. Len(queue[i]) : pushed[i][k] = queue[i][k]
      /\ pushed[i][Len(queue[i]) + 1] = t
  BY <1>2
<1>4. \A u : InQueue(pushed, u) <=> InQueue(queue, u) \/ u = t
  <2> TAKE u
  <2>1. ASSUME InQueue(pushed, u) PROVE InQueue(queue, u) \/ u = t
    BY <2>1, <1>1, <1>3 DEF InQueue
  <2>2. ASSUME InQueue(queue, u) PROVE InQueue(pushed, u)
    BY <2>2, <1>1, <1>3 DEF InQueue
  <2>3. ASSUME u = t PROVE InQueue(pushed, u)
    BY <2>3, <1>3 DEF InQueue
  <2> QED
    BY <2>1, <2>2, <2>3
<1>5. ~InQueue(queue, t) /\ \A j \in PoolIdx : job[j] # t
  BY DEF InPool
<1>6. Once(pushed, job)
  <2>1. ASSUME NEW j \in PoolIdx, NEW n \in PoolIdx, NEW k \in 1 .. Len(pushed[j]),
               NEW l \in 1 .. Len(pushed[n]), pushed[j][k] = pushed[n][l]
        PROVE  j = n /\ k = l
    <3> DEFINE New(a, b) == a = i /\ b = Len(queue[i]) + 1
    <3>1. ~New(j, k) => k \in 1 .. Len(queue[j]) /\ pushed[j][k] = queue[j][k]
      BY <1>1, <1>3
    <3>2. ~New(n, l) => l \in 1 .. Len(queue[n]) /\ pushed[n][l] = queue[n][l]
      BY <1>1, <1>3
    <3>3. /\ New(j, k) => pushed[j][k] = t
          /\ New(n, l) => pushed[n][l] = t
      BY <1>3
    <3>4. CASE New(j, k)
      BY <3>2, <3>3, <3>4, <2>1, <1>5 DEF InQueue
    <3>5. CASE ~New(j, k)
      BY <3>1, <3>2, <3>3, <3>5, <2>1, <1>5 DEF InQueue, Once
    <3> QED
      BY <3>4, <3>5
  <2> QED
    BY <2>1, <1>4, <1>5 DEF Once
<1>7. \A u : u \in InPool(pushed, job) <=> u \in InPool(queue, job) \/ u = t
  BY <1>4 DEF InPool
<1> QED
  BY <1>6, <1>7

\* dequeue: an idle thread takes the first task of its queue.
LEMMA TakeOnce ==
  ASSUME NEW queue \in PoolQueues, NEW job \in PoolJobs,
         NEW i \in PoolIdx, queue[i] # <<>>, job[i] = NoTask, Once(queue, job)
  PROVE  LET taken == [queue EXCEPT ![i] = Tail(@)]
             busy == [job EXCEPT ![i] = Head(queue[i])]
         IN  /\ Once(taken, busy)
             /\ InPool(taken, busy) = InPool(queue, job)
<1> DEFINE taken == [queue EXCEPT ![i] = Tail(@)]
           busy == [job EXCEPT ![i] = Head(queue[i])]
           t == queue[i][1]
<1>1. /\ \A j \in PoolIdx : j # i => taken[j] = queue[j]
      /\ \A j \in PoolIdx : j # i => busy[j] = job[j]
      /\ busy[i] = t
  BY DEF PoolQueues, PoolJobs
<1>2. /\ taken[i] = Tail(queue[i])
      /\ queue[i] \in Seq(Tasks)
  BY DEF PoolQueues, PoolJobs
<1>3. /\ Len(taken[i]) = Len(queue[i]) - 1
      /\ Len(queue[i]) \in Nat \ {0}
      /\ \A k \in 1 .. Len(taken[i]) : taken[i][k] = queue[i][k + 1]
      /\ t \in Tasks
  BY <1>2 DEF PoolQueues
<1>4. NoTask \notin Tasks
  BY DistinctObjects
<1> HIDE DEF taken, busy, t
<1>5. queue[i][1] = t
  BY DEF t
<1>6. ASSUME NEW u, InQueue(taken, u)
      PROVE  InQueue(queue, u) /\ u # t
  <2> PICK j \in PoolIdx : \E k \in 1 .. Len(taken[j]) : taken[j][k] = u
    BY <1>6 DEF InQueue
  <2> PICK k \in 1 .. Len(taken[j]) : taken[j][k] = u
    OBVIOUS
  <2>1. CASE j # i
    BY <2>1, <1>1, <1>3, <1>5 DEF InQueue, Once
  <2>2. CASE j = i
    <3>1. k + 1 \in 1 .. Len(queue[i]) /\ 1 \in 1 .. Len(queue[i]) /\ queue[i][k + 1] = u
      BY <2>2, <1>3
    <3>2. InQueue(queue, u)
      BY <3>1 DEF InQueue
    <3>3. u # t
      BY <3>1, <1>5 DEF Once
    <3> QED
      BY <3>2, <3>3
  <2> QED
    BY <2>1, <2>2
<1>7. ASSUME NEW u, InQueue(queue, u), u # t
      PROVE  InQueue(taken, u)
  <2> PICK j \in PoolIdx : \E k \in 1 .. Len(queue[j]) : queue[j][k] = u
    BY <1>7 DEF InQueue
  <2> PICK k \in 1 .. Len(queue[j]) : queue[j][k] = u
    OBVIOUS
  <2>1. CASE j # i
    BY <2>1, <1>1 DEF InQueue
  <2>2. CASE j = i
    <3>1. k - 1 \in 1 .. Len(taken[i]) /\ taken[i][k - 1] = u
      BY <2>2, <1>3, <1>5, <1>7
    <3> QED
      BY <3>1 DEF InQueue
  <2> QED
    BY <2>1, <2>2
<1>8. InQueue(queue, t)
  BY <1>3, <1>5 DEF InQueue
<1>9. Once(taken, busy)
  <2>1. ASSUME NEW j \in PoolIdx, NEW n \in PoolIdx, NEW k \in 1 .. Len(taken[j]),
               NEW l \in 1 .. Len(taken[n]), taken[j][k] = taken[n][l]
        PROVE  j = n /\ k = l
    <3> DEFINE kk == IF j = i THEN k + 1 ELSE k
               ll == IF n = i THEN l + 1 ELSE l
    <3>1. kk \in 1 .. Len(queue[j]) /\ queue[j][kk] = taken[j][k]
      <4>1. CASE j = i  BY <4>1, <1>3
      <4>2. CASE j # i  BY <4>2, <1>1
      <4> QED  BY <4>1, <4>2
    <3>2. ll \in 1 .. Len(queue[n]) /\ queue[n][ll] = taken[n][l]
      <4>1. CASE n = i  BY <4>1, <1>3
      <4>2. CASE n # i  BY <4>2, <1>1
      <4> QED  BY <4>1, <4>2
    <3>3. j = n /\ kk = ll
      BY <3>1, <3>2, <2>1 DEF Once
    <3> QED
      BY <3>3
  <2>2. ASSUME NEW j \in PoolIdx, NEW n \in PoolIdx, busy[j] = busy[n], busy[j] \in Tasks
        PROVE  j = n
    BY <2>2, <1>1, <1>8 DEF Once
  <2>3. ASSUME NEW j \in PoolIdx, busy[j] \in Tasks
        PROVE  ~InQueue(taken, busy[j])
    BY <2>3, <1>1, <1>6 DEF Once
  <2> QED
    BY <2>1, <2>2, <2>3 DEF Once
<1>10. InPool(taken, busy) = InPool(queue, job)
  BY <1>1, <1>3, <1>4, <1>6, <1>7, <1>8 DEF InPool
<1> QED
  BY <1>9, <1>10 DEF taken, busy, t

\* A thread is done with its task, which is then nowhere in the pool.
LEMMA LeaveOnce ==
  ASSUME NEW queue \in PoolQueues, NEW job \in PoolJobs,
         NEW i \in PoolIdx, job[i] \in Tasks, Once(queue, job),
         NEW left, left = Left(job, i)
  PROVE  /\ Once(queue, left)
         /\ \A u : u \in InPool(queue, left) <=> u \in InPool(queue, job) /\ u # job[i]
<1>1. /\ \A j \in PoolIdx : j # i => left[j] = job[j]
      /\ left[i] = NoTask
  BY DEF Left, PoolJobs
<1>2. NoTask \notin Tasks
  BY DistinctObjects
<1>3. Once(queue, left)
  BY <1>1, <1>2 DEF Once
<1>4. \A u : u \in InPool(queue, left) <=> u \in InPool(queue, job) /\ u # job[i]
  BY <1>1, <1>2 DEF Once, InPool
<1> QED
  BY <1>3, <1>4

-----------------------------------------------------------------------------
LEMMA InitOK == Init => IInv
<1> SUFFICES ASSUME Init PROVE IInv
  OBVIOUS
<1>1. TypeOK
  BY TaskPoolAssumption DEF Init, TypeOK, TaskState, NewTask, MainPc, IdleMain, PoolIdx
<1>2. /\ \A i \in PoolIdx : MainJobs[i] = NoTask /\ SubJobs[i] = NoTask
      /\ \A i \in PoolIdx : Len(mainQueue[i]) = 0 /\ Len(subQueue[i]) = 0
      /\ NoTask \notin Tasks
  BY DistinctObjects DEF Init, MainJobs, SubJobs, IdleMain
<1>3. PoolsOnce /\ PoolsPending
  BY <1>2 DEF PoolsOnce, PoolsPending, Once, InPool, InQueue
<1>4. ThreadsBusy /\ OnTheWay /\ WaitedFor
  BY DEF Init, ThreadsBusy, OnTheWay, WaitedFor, IdleMain
<1> QED
  BY <1>1, <1>3, <1>4 DEF IInv

-----------------------------------------------------------------------------
(* Types, and that a thread has a task exactly while it executes it.         *)

\* The sub task a busy main thread is at.
LEMMA CurrentIsSubTask ==
  ASSUME TypeOK, ThreadsBusy, NEW m \in PoolIdx,
         main[m].pc \in {"dispatch", "enqueue", "wait", "asleep"}
  PROVE  /\ main[m].job \in MainTasks
         /\ Current(m) \in SubTasks
         /\ main[m].job # Current(m)
<1>1. main[m].job \in MainTasks /\ main[m].idx \in PoolIdx
  BY DEF TypeOK, ThreadsBusy
<1> QED
  BY <1>1, DistinctObjects DEF Current, SubTasks

\* before_execution, after_execution and assert_execution keep the fields typed.
LEMMA FieldsTyped ==
  ASSUME TypeOK, NEW t \in Tasks, NEW err \in BOOLEAN
  PROVE  /\ BeforeExecution(t) \in TaskState
         /\ AfterExecution(t, err) \in TaskState
         /\ AfterAssertion(t) \in TaskState
<1>1. task[t] \in TaskState
  BY DEF TypeOK
<1> QED
  BY <1>1 DEF BeforeExecution, AfterExecution, AfterAssertion, TaskState

MainThread == [pc : MainPc, job : MainTasks \cup {NoTask}, idx : PoolIdx, count : 0 .. PoolSize]

MainBusy(r) ==
    IF r.pc \in {"dispatch", "enqueue", "wait", "asleep"} THEN r.job \in MainTasks ELSE r.job = NoTask

\* A step of a main thread that leaves the sub threads and the destructor alone.
LEMMA MainUpdateTyped ==
  ASSUME TypeOK, ThreadsBusy, NEW m \in PoolIdx,
         NEW r \in MainThread, MainBusy(r), main' = [main EXCEPT ![m] = r],
         task' \in [Tasks -> TaskState],
         mainQueue' \in [PoolIdx -> Seq(MainTasks)],
         subQueue' \in [PoolIdx -> Seq(SubTasks)],
         UNCHANGED <<sub, stopped, shutdown>>
  PROVE  TypeOK' /\ ThreadsBusy'
<1>1. main \in [PoolIdx -> MainThread] /\ \A n \in PoolIdx : MainBusy(main[n])
  BY DEF TypeOK, ThreadsBusy, MainThread, MainBusy
<1>2. main' \in [PoolIdx -> MainThread] /\ \A n \in PoolIdx : MainBusy(main'[n])
  BY <1>1
<1>3. TypeOK'
  BY <1>2 DEF TypeOK, MainThread
<1>4. ThreadsBusy'
  BY <1>2 DEF ThreadsBusy, MainBusy
<1> QED
  BY <1>3, <1>4

\* A thread that is idle, and one whose program counter moves on.
LEMMA MainThreadTyped ==
  ASSUME TypeOK, NEW m \in PoolIdx, NEW pc \in MainPc, NEW i \in PoolIdx
  PROVE  /\ IdleMain(pc) \in MainThread
         /\ [main[m] EXCEPT !.pc = pc] \in MainThread
         /\ [main[m] EXCEPT !.pc = pc, !.idx = i] \in MainThread
         /\ [main EXCEPT ![m].pc = pc] = [main EXCEPT ![m] = [main[m] EXCEPT !.pc = pc]]
         /\ [main EXCEPT ![m].pc = pc, ![m].idx = i]
               = [main EXCEPT ![m] = [main[m] EXCEPT !.pc = pc, !.idx = i]]
         /\ [main[m] EXCEPT !.pc = pc, !.idx = i].pc = pc
         /\ [main[m] EXCEPT !.pc = pc, !.idx = i].job = main[m].job
         /\ [main[m] EXCEPT !.pc = pc].pc = pc
         /\ [main[m] EXCEPT !.pc = pc].job = main[m].job
<1>1. main[m] \in MainThread /\ main \in [PoolIdx -> MainThread]
  BY DEF TypeOK, MainThread
<1>2. 0 \in PoolIdx /\ 0 \in 0 .. PoolSize
  BY TaskPoolAssumption DEF PoolIdx
<1>3. IdleMain(pc) \in MainThread
  BY <1>2 DEF IdleMain, MainThread
<1>4. /\ [main[m] EXCEPT !.pc = pc] \in MainThread
      /\ [main[m] EXCEPT !.pc = pc, !.idx = i] \in MainThread
  BY <1>1 DEF MainThread
<1>5. /\ [main EXCEPT ![m].pc = pc] = [main EXCEPT ![m] = [main[m] EXCEPT !.pc = pc]]
      /\ [main EXCEPT ![m].pc = pc, ![m].idx = i]
             = [main EXCEPT ![m] = [main[m] EXCEPT !.pc = pc, !.idx = i]]
  BY <1>1
<1>6. /\ [main[m] EXCEPT !.pc = pc, !.idx = i].pc = pc
      /\ [main[m] EXCEPT !.pc = pc, !.idx = i].job = main[m].job
      /\ [main[m] EXCEPT !.pc = pc].pc = pc
      /\ [main[m] EXCEPT !.pc = pc].job = main[m].job
  BY <1>1 DEF MainThread
<1> QED
  BY <1>3, <1>4, <1>5, <1>6

LEMMA MainStepTyped ==
  ASSUME TypeOK, ThreadsBusy, NEW m \in PoolIdx, MainRuns(m) \/ MainWakeSpuriously(m)
  PROVE  TypeOK' /\ ThreadsBusy'
<1>1. /\ PoolSize \in Nat \ {0}
      /\ 0 \in PoolIdx
      /\ main[m] \in MainThread
      /\ main \in [PoolIdx -> MainThread]
      /\ task \in [Tasks -> TaskState]
      /\ mainQueue \in [PoolIdx -> Seq(MainTasks)]
      /\ subQueue \in [PoolIdx -> Seq(SubTasks)]
  <2>1. PoolSize \in Nat \ {0} /\ 0 \in PoolIdx
    BY TaskPoolAssumption DEF PoolIdx
  <2> QED
    BY <2>1 DEF TypeOK, MainThread
<1>2. {"check", "dequeue", "dispatch", "enqueue", "wait", "asleep", "exited"} = MainPc
  BY DEF MainPc
<1>3. \A pc \in {"check", "exited"} : IdleMain(pc) \in MainThread /\ MainBusy(IdleMain(pc))
  BY <1>1, <1>2, MainThreadTyped DEF IdleMain, MainBusy
<1>4. ASSUME NEW err \in BOOLEAN, MainFinishes(m, err), main[m].job \in MainTasks,
             UNCHANGED <<mainQueue, subQueue, sub, stopped, shutdown>>
      PROVE  TypeOK' /\ ThreadsBusy'
  <2>1. task' \in [Tasks -> TaskState]
    BY <1>4, FieldsTyped DEF MainFinishes, TypeOK, Tasks
  <2> QED
    BY <1>1, <1>3, <1>4, <2>1, MainUpdateTyped DEF MainFinishes
<1>5. ASSUME MainFailsAt(m, Current(m)), main[m].job \in MainTasks, Current(m) \in SubTasks,
             UNCHANGED <<mainQueue, subQueue, sub, stopped, shutdown>>
      PROVE  TypeOK' /\ ThreadsBusy'
  <2>1. task' \in [Tasks -> TaskState]
    BY <1>5, FieldsTyped DEF MainFailsAt, TypeOK, Tasks
  <2> QED
    BY <1>1, <1>3, <1>5, <2>1, MainUpdateTyped DEF MainFailsAt
<1>6. ASSUME NEW pc \in MainPc, NEW i \in PoolIdx, MainBusy([main[m] EXCEPT !.pc = pc]),
             \/ main' = [main EXCEPT ![m].pc = pc]
             \/ main' = [main EXCEPT ![m].pc = pc, ![m].idx = i]
             \/ main' = [main EXCEPT ![m] = [main[m] EXCEPT !.pc = pc, !.idx = i]],
             task' \in [Tasks -> TaskState],
             mainQueue' \in [PoolIdx -> Seq(MainTasks)],
             subQueue' \in [PoolIdx -> Seq(SubTasks)],
             UNCHANGED <<sub, stopped, shutdown>>
      PROVE  TypeOK' /\ ThreadsBusy'
  <2> DEFINE r == [main[m] EXCEPT !.pc = pc]
             q == [main[m] EXCEPT !.pc = pc, !.idx = i]
  <2>1. r \in MainThread /\ q \in MainThread
    BY <1>1 DEF MainThread
  <2>2. MainBusy(r) /\ MainBusy(q)
    BY <1>1, <1>6 DEF MainBusy, MainThread
  <2>3. main' = [main EXCEPT ![m] = r] \/ main' = [main EXCEPT ![m] = q]
    <3>1. /\ [main EXCEPT ![m].pc = pc] = [main EXCEPT ![m] = r]
          /\ [main EXCEPT ![m].pc = pc, ![m].idx = i] = [main EXCEPT ![m] = q]
      BY <1>1 DEF MainThread
    <3> QED
      BY <1>6, <3>1, Zenon
  <2> HIDE DEF r, q
  <2> QED
    BY <1>6, <2>1, <2>2, <2>3, MainUpdateTyped
<1>7. CASE MainCheck(m)
  <2>1. PICK pc \in {"dequeue", "exited"} : main' = [main EXCEPT ![m].pc = pc]
    BY <1>7 DEF MainCheck
  <2>2. MainBusy([main[m] EXCEPT !.pc = pc])
    BY <1>1, <1>7, <2>1 DEF MainBusy, MainThread, MainCheck, ThreadsBusy
  <2> QED
    BY <1>1, <1>2, <1>6, <1>7, <2>1, <2>2 DEF MainCheck
<1>8. CASE MainStart(m)
  <2>1. mainQueue[m] \in Seq(MainTasks) /\ mainQueue[m] # <<>>
    BY <1>8 DEF MainStart, TypeOK
  <2>2. Head(mainQueue[m]) \in MainTasks /\ Tail(mainQueue[m]) \in Seq(MainTasks)
    BY <2>1
  <2>3. PICK n \in PoolIdx :
           main' = [main EXCEPT ![m] = [pc |-> "dispatch", job |-> Head(mainQueue[m]),
                                        idx |-> 0, count |-> n + 1]]
    BY <1>8 DEF MainStart
  <2> DEFINE r == [pc |-> "dispatch", job |-> Head(mainQueue[m]), idx |-> 0, count |-> n + 1]
  <2>4. r \in MainThread /\ MainBusy(r)
    <3>1. n + 1 \in 0 .. PoolSize
      BY <1>1 DEF PoolIdx
    <3> QED
      BY <1>1, <1>2, <2>2, <3>1 DEF MainThread, MainBusy
  <2>5. mainQueue' \in [PoolIdx -> Seq(MainTasks)]
    BY <1>1, <1>8, <2>2 DEF MainStart
  <2> HIDE DEF r
  <2> QED
    BY <1>1, <1>8, <2>3, <2>4, <2>5, MainUpdateTyped DEF MainStart, r
<1>9. CASE MainLeave(m)
  BY <1>1, <1>3, <1>9, MainUpdateTyped DEF MainLeave
<1>10. CASE MainThrows(m)
  BY <1>4, <1>10, CurrentIsSubTask DEF MainThrows
<1>11. CASE MainNothingToDispatch(m)
  BY <1>4, <1>11, CurrentIsSubTask DEF MainNothingToDispatch
<1>12. CASE MainDispatch(m)
  <2>1. main[m].job \in MainTasks /\ Current(m) \in SubTasks
    BY <1>12, CurrentIsSubTask DEF MainDispatch
  <2>2. CASE MainFailsAt(m, Current(m))
    BY <1>5, <1>12, <2>1, <2>2 DEF MainDispatch
  <2>3. CASE /\ task' = [task EXCEPT ![Current(m)] = BeforeExecution(Current(m))]
             /\ main' = [main EXCEPT ![m].pc = "enqueue"]
    <3>1. task' \in [Tasks -> TaskState]
      BY <2>1, <2>3, FieldsTyped DEF TypeOK, Tasks
    <3>2. MainBusy([main[m] EXCEPT !.pc = "enqueue"])
      BY <1>1, <2>1 DEF MainBusy, MainThread
    <3> QED
      BY <1>1, <1>2, <1>6, <1>12, <2>3, <3>1, <3>2 DEF MainDispatch
  <2> QED
    BY <1>12, <2>2, <2>3 DEF MainDispatch
<1>13. CASE MainEnqueue(m)
  <2>1. main[m].job \in MainTasks /\ Current(m) \in SubTasks
    BY <1>13, CurrentIsSubTask DEF MainEnqueue
  <2>2. subQueue' \in [PoolIdx -> Seq(SubTasks)]
    BY <1>13, <2>1 DEF MainEnqueue, AvailableQueues, TypeOK
  <2>3. PICK pc \in {"dispatch", "wait"}, i \in PoolIdx :
           main' = [main EXCEPT ![m] = [main[m] EXCEPT !.pc = pc, !.idx = i]]
    <3>1. main[m].idx \in PoolIdx /\ main[m].count \in 0 .. PoolSize
      BY <1>1 DEF MainThread
    <3>2. CASE main[m].idx + 1 < main[m].count
      <4>1. main[m].idx + 1 \in PoolIdx
        BY TaskPoolAssumption, <3>1, <3>2 DEF PoolIdx
      <4>2. main' = [main EXCEPT ![m] = [main[m] EXCEPT !.pc = "dispatch", !.idx = main[m].idx + 1]]
        BY <1>13, <3>2 DEF MainEnqueue
      <4> QED
        BY <4>1, <4>2
    <3>3. CASE ~(main[m].idx + 1 < main[m].count)
      BY <1>1, <1>13, <3>3 DEF MainEnqueue
    <3> QED
      BY <3>2, <3>3
  <2>4. MainBusy([main[m] EXCEPT !.pc = pc])
    BY <1>1, <2>1 DEF MainBusy, MainThread
  <2> QED
    BY <1>1, <1>2, <1>6, <1>13, <2>2, <2>3, <2>4 DEF MainEnqueue
<1>14. ASSUME WaitReturns(m), main[m].pc \in {"wait", "asleep"},
              UNCHANGED <<mainQueue, subQueue, sub, stopped, shutdown>>
       PROVE  TypeOK' /\ ThreadsBusy'
  <2>1. main[m].job \in MainTasks /\ Current(m) \in SubTasks
    BY <1>14, CurrentIsSubTask
  <2>2. CASE MainFailsAt(m, Current(m)) \/ MainFinishes(m, FALSE)
    BY <1>4, <1>5, <1>14, <2>1, <2>2
  <2>3. CASE /\ main[m].idx + 1 < Awaited(m)
             /\ main' = [main EXCEPT ![m].pc = "wait", ![m].idx = @ + 1]
             /\ UNCHANGED task
    <3>1. main[m].idx + 1 \in PoolIdx
      BY <1>1, <2>3 DEF MainThread, Awaited, PoolIdx
    <3>2. MainBusy([main[m] EXCEPT !.pc = "wait"])
      BY <1>1, <2>1 DEF MainBusy, MainThread
    <3>3. main' = [main EXCEPT ![m].pc = "wait", ![m].idx = main[m].idx + 1]
      BY <1>1, <2>3
    <3> QED
      BY <1>1, <1>2, <1>6, <1>14, <2>3, <3>1, <3>2, <3>3
  <2> QED
    BY <1>14, <2>2, <2>3 DEF WaitReturns
<1>15. CASE MainWait(m)
  <2>1. CASE WaitReturns(m)
    BY <1>14, <1>15, <2>1 DEF MainWait
  <2>2. CASE main' = [main EXCEPT ![m].pc = "asleep"] /\ UNCHANGED task
    <3>1. main[m].job \in MainTasks
      BY <1>15, CurrentIsSubTask DEF MainWait
    <3>2. MainBusy([main[m] EXCEPT !.pc = "asleep"])
      BY <1>1, <3>1 DEF MainBusy, MainThread
    <3> QED
      BY <1>1, <1>2, <1>6, <1>15, <2>2, <3>2 DEF MainWait
  <2> QED
    BY <1>15, <2>1, <2>2 DEF MainWait
<1>16. CASE MainWake(m)
  BY <1>14, <1>16 DEF MainWake
<1>17. CASE MainWakeSpuriously(m)
  BY <1>14, <1>17 DEF MainWakeSpuriously
<1> QED
  BY <1>7, <1>8, <1>9, <1>10, <1>11, <1>12, <1>13, <1>15, <1>16, <1>17 DEF MainRuns

LEMMA SubStepTyped ==
  ASSUME TypeOK, ThreadsBusy, NEW s \in PoolIdx, SubRuns(s)
  PROVE  TypeOK' /\ ThreadsBusy'
<1>1. CASE SubCheck(s)
  BY <1>1 DEF SubCheck, TypeOK, ThreadsBusy
<1>2. CASE SubDequeue(s)
  <2>1. subQueue[s] \in Seq(SubTasks) /\ subQueue[s] # <<>>
    BY <1>2 DEF SubDequeue, TypeOK
  <2>2. Head(subQueue[s]) \in SubTasks /\ Tail(subQueue[s]) \in Seq(SubTasks)
    BY <2>1
  <2> QED
    BY <1>2, <2>2 DEF SubDequeue, TypeOK, ThreadsBusy
<1>3. CASE SubLeave(s)
  BY <1>3 DEF SubLeave, TypeOK, ThreadsBusy
<1>4. CASE SubStart(s)
  BY <1>4 DEF SubStart, TypeOK, ThreadsBusy
<1>5. CASE SubFinish(s)
  <2>1. sub[s].job \in SubTasks
    BY <1>5 DEF SubFinish, ThreadsBusy
  <2>2. task' \in [Tasks -> TaskState]
    BY <1>5, <2>1, FieldsTyped DEF SubFinish, TypeOK, Tasks
  <2> QED
    BY <1>5, <2>2 DEF SubFinish, TypeOK, ThreadsBusy
<1> QED
  BY <1>1, <1>2, <1>3, <1>4, <1>5 DEF SubRuns

LEMMA CallerStepTyped ==
  ASSUME TypeOK, ThreadsBusy,
         \/ \E t \in MainTasks : Enqueue(t) \/ ReadResult(t)
         \/ Destroy
         \/ Destructor
  PROVE  TypeOK' /\ ThreadsBusy'
<1>1. ASSUME NEW t \in MainTasks, Enqueue(t)
      PROVE  TypeOK' /\ ThreadsBusy'
  <2>1. task' \in [Tasks -> TaskState]
    <3>1. AfterAssertion(t) \in TaskState /\ BeforeExecution(t) \in TaskState
      BY FieldsTyped DEF Tasks
    <3> QED
      BY <1>1, <3>1 DEF Enqueue, TypeOK
  <2>2. mainQueue' \in [PoolIdx -> Seq(MainTasks)]
    <3>1. \A q \in PoolIdx : Append(mainQueue[q], t) \in Seq(MainTasks)
      BY DEF TypeOK
    <3>2. CASE UNCHANGED mainQueue
      BY <3>2 DEF TypeOK
    <3>3. CASE \E q \in AvailableQueues : mainQueue' = [mainQueue EXCEPT ![q] = Append(@, t)]
      BY <3>1, <3>3 DEF TypeOK, AvailableQueues
    <3> QED
      BY <1>1, <3>2, <3>3 DEF Enqueue
  <2> QED
    BY <1>1, <2>1, <2>2 DEF Enqueue, TypeOK, ThreadsBusy
<1>2. ASSUME NEW t \in MainTasks, ReadResult(t)
      PROVE  TypeOK' /\ ThreadsBusy'
  <2>1. task' \in [Tasks -> TaskState]
    BY <1>2, FieldsTyped DEF ReadResult, TypeOK, Tasks
  <2> QED
    BY <1>2, <2>1 DEF ReadResult, TypeOK, ThreadsBusy
<1>3. CASE Destroy
  BY <1>3 DEF Destroy, TypeOK, ThreadsBusy
<1>4. CASE Destructor
  <2>1. ASSUME NEW pool \in {"main", "sub"}, PoolDestroyed(pool)
        PROVE  TypeOK' /\ ThreadsBusy'
    BY <2>1 DEF PoolDestroyed, TypeOK, ThreadsBusy
  <2>2. ASSUME NEW pool \in {"main", "sub"}, NEW i \in PoolIdx, StopThread(pool, i)
        PROVE  TypeOK' /\ ThreadsBusy'
    <3>1. stopped' \subseteq {"main", "sub"} \X PoolIdx
      BY <2>2 DEF StopThread, TypeOK
    <3> QED
      BY <2>2, <3>1 DEF StopThread, TypeOK, ThreadsBusy
  <2> QED
    BY <1>4, <2>1, <2>2 DEF Destructor
<1> QED
  BY <1>1, <1>2, <1>3, <1>4

-----------------------------------------------------------------------------
(* Steps.                                                                  *)

\* What a pool holds is of its kind, so the two pools share no task.
LEMMA PoolKinds ==
  ASSUME TypeOK
  PROVE  /\ mainQueue \in PoolQueues
         /\ subQueue \in PoolQueues
         /\ MainJobs \in PoolJobs
         /\ SubJobs \in PoolJobs
         /\ InPool(mainQueue, MainJobs) \subseteq MainTasks
         /\ InPool(subQueue, SubJobs) \subseteq SubTasks
<1>1. /\ mainQueue \in PoolQueues
      /\ subQueue \in PoolQueues
  BY DEF TypeOK, Tasks, PoolQueues
<1>2. /\ MainJobs \in [PoolIdx -> MainTasks \cup {NoTask}]
      /\ SubJobs \in [PoolIdx -> SubTasks \cup {NoTask}]
  BY DEF TypeOK, MainJobs, SubJobs
<1>3. NoTask \notin Tasks
  BY DistinctObjects
<1>4. \A t : InQueue(mainQueue, t) => t \in MainTasks
  BY DEF TypeOK, InQueue
<1>5. \A t : InQueue(subQueue, t) => t \in SubTasks
  BY DEF TypeOK, InQueue
<1>6. InPool(mainQueue, MainJobs) \subseteq MainTasks
  BY <1>2, <1>3, <1>4 DEF InPool
<1>7. InPool(subQueue, SubJobs) \subseteq SubTasks
  BY <1>2, <1>3, <1>5 DEF InPool
<1> QED
  BY <1>1, <1>2, <1>6, <1>7 DEF Tasks, PoolJobs

\* Two main threads never run the same task, so they deal with different sub tasks.
LEMMA JobsDiffer ==
  ASSUME IInv, NEW m \in PoolIdx, NEW n \in PoolIdx, m # n, main[m].job \in MainTasks
  PROVE  main[m].job # main[n].job
<1>1. MainJobs[m] = main[m].job /\ MainJobs[n] = main[n].job
  BY DEF MainJobs
<1> QED
  BY <1>1 DEF IInv, PoolsOnce, Once, Tasks

\* The task that a busy thread runs is in its pool.
LEMMA JobsInPool ==
  ASSUME IInv, NEW i \in PoolIdx
  PROVE  /\ main[i].job \in MainTasks =>
               main[i].job \in InPool(mainQueue, MainJobs) /\ Pending(main[i].job)
         /\ sub[i].job \in SubTasks =>
               sub[i].job \in InPool(subQueue, SubJobs) /\ Pending(sub[i].job)
<1>1. MainJobs[i] = main[i].job /\ SubJobs[i] = sub[i].job
  BY DEF MainJobs, SubJobs
<1>2. main[i].job \in MainTasks => main[i].job \in InPool(mainQueue, MainJobs)
  BY <1>1 DEF InPool, Tasks
<1>3. sub[i].job \in SubTasks => sub[i].job \in InPool(subQueue, SubJobs)
  BY <1>1 DEF InPool, Tasks
<1> QED
  BY <1>2, <1>3 DEF IInv, PoolsPending

\* A task that before_execution accepts is in neither pool.
LEMMA AcceptedIsOut ==
  ASSUME IInv, NEW t \in Tasks, ~BeforeExecutionThrows(t)
  PROVE  /\ t \notin InPool(mainQueue, MainJobs)
         /\ t \notin InPool(subQueue, SubJobs)
  BY DEF IInv, PoolsPending, Pending, BeforeExecutionThrows, AssertionFails

\* A step that moves threads on without touching a task or a queue.
LEMMA QuietStep ==
  ASSUME IInv, TypeOK', ThreadsBusy', UNCHANGED <<task, mainQueue, subQueue>>,
         MainJobs' = MainJobs, SubJobs' = SubJobs,
         \A n \in PoolIdx : main'[n].pc = "enqueue" => main'[n] = main[n],
         \A n \in PoolIdx : main'[n].pc \in {"wait", "asleep"} =>
             /\ main[n].pc \in {"wait", "asleep"}
             /\ main'[n].job = main[n].job
             /\ \A k \in PoolIdx : k < main'[n].idx =>
                   \/ k < main[n].idx
                   \/ task[<<main[n].job, k>>].completed /\ ~task[<<main[n].job, k>>].error
  PROVE  IInv'
<1>1. PoolsOnce' /\ PoolsPending'
  BY DEF IInv, PoolsOnce, PoolsPending, Pending
<1>2. OnTheWay'
  BY DEF IInv, OnTheWay, Pending, Current
<1>3. WaitedFor'
  BY DEF IInv, WaitedFor
<1> QED
  BY <1>1, <1>2, <1>3 DEF IInv

\* A main task ends: it leaves the pool, and at most the error of its current sub
\* task is consumed.
LEMMA MainEndStep ==
  ASSUME IInv, TypeOK', ThreadsBusy', NEW m \in PoolIdx, main[m].job \in MainTasks,
         NEW s \in SubTasks, s[1] = main[m].job, NEW err \in BOOLEAN,
         MainFinishes(m, err) \/ MainFailsAt(m, s),
         UNCHANGED <<mainQueue, subQueue, sub>>
  PROVE  IInv'
<1> DEFINE t == main[m].job
<1>1. /\ \A u \in Tasks \ {t} : /\ task'[u].initialized = task[u].initialized
                                /\ task'[u].completed = task[u].completed
      /\ \A u \in Tasks \ {t, s} : task'[u] = task[u]
  <2>1. task \in [Tasks -> TaskState] /\ t \in Tasks /\ s \in Tasks /\ s # t
    BY DistinctObjects DEF IInv, TypeOK, Tasks
  <2>2. /\ AfterAssertion(s).initialized = task[s].initialized
        /\ AfterAssertion(s).completed = task[s].completed
    BY <2>1 DEF AfterAssertion, TaskState
  <2> QED
    BY <2>1, <2>2 DEF MainFinishes, MainFailsAt
<1>2. /\ \A n \in PoolIdx \ {m} : main'[n] = main[n]
      /\ main'[m] = IdleMain("check")
      /\ MainJobs' = [MainJobs EXCEPT ![m] = NoTask]
      /\ SubJobs' = SubJobs
  <2>1. main' = [main EXCEPT ![m] = IdleMain("check")]
    BY DEF MainFinishes, MainFailsAt
  <2>2. main \in [PoolIdx -> MainThread]
    BY DEF IInv, TypeOK, MainThread
  <2> QED
    BY <2>1, <2>2 DEF MainJobs, SubJobs, IdleMain
<1>3. MainJobs[m] = t /\ t \in Tasks
  BY DEF MainJobs, Tasks
<1>4. /\ Once(mainQueue', MainJobs')
      /\ InPool(mainQueue', MainJobs') = InPool(mainQueue, MainJobs) \ {t}
  <2>1. /\ mainQueue \in PoolQueues
        /\ MainJobs \in PoolJobs
        /\ Once(mainQueue, MainJobs)
    BY PoolKinds DEF IInv, PoolsOnce
  <2>2. /\ Once(mainQueue, MainJobs')
        /\ \A u : u \in InPool(mainQueue, MainJobs') <=> u \in InPool(mainQueue, MainJobs) /\ u # t
    <3>1. MainJobs' = Left(MainJobs, m)
      BY <1>2 DEF Left
    <3> HIDE DEF t
    <3> QED
      BY <1>3, <2>1, <3>1, LeaveOnce
  <2> QED
    BY <1>2, <1>3, <2>2
<1>5. t \notin SubTasks
  BY DistinctObjects
<1>6. PoolsOnce'
  BY <1>2, <1>4 DEF IInv, PoolsOnce
<1>7. PoolsPending'
  <2> SUFFICES ASSUME NEW u \in InPool(mainQueue', MainJobs') \cup InPool(subQueue', SubJobs')
               PROVE  task'[u].initialized /\ ~task'[u].completed
    BY DEF PoolsPending, Pending
  <2>1. u \in Tasks \ {t} /\ u \in InPool(mainQueue, MainJobs) \cup InPool(subQueue, SubJobs)
    BY <1>2, <1>4, <1>5, PoolKinds DEF IInv, Tasks
  <2> QED
    BY <1>1, <2>1 DEF IInv, PoolsPending, Pending
<1>8. OnTheWay'
  <2> SUFFICES ASSUME NEW n \in PoolIdx, main'[n].pc = "enqueue"
               PROVE  (Pending(Current(n)) /\ Current(n) \notin InPool(subQueue, SubJobs))'
    BY DEF OnTheWay
  <2>1. n # m /\ main'[n] = main[n]
    BY <1>2 DEF IdleMain
  <2>2. Current(n) \in SubTasks /\ Current(n)' = Current(n)
    BY <2>1, CurrentIsSubTask DEF IInv, Current
  <2>3. Current(n) \in Tasks \ {t}
    BY <1>5, <2>2 DEF Tasks
  <2> QED
    BY <1>1, <1>2, <2>1, <2>2, <2>3 DEF IInv, OnTheWay, Pending
<1>9. WaitedFor'
  <2> SUFFICES ASSUME NEW n \in PoolIdx, main'[n].pc \in {"wait", "asleep"},
                      NEW k \in PoolIdx, k < main'[n].idx
               PROVE  task'[<<main'[n].job, k>>].completed /\ ~task'[<<main'[n].job, k>>].error
    BY DEF WaitedFor
  <2>1. n # m /\ main'[n] = main[n]
    BY <1>2 DEF IdleMain
  <2>2. main[n].job \in MainTasks /\ main[n].job # t
    BY <2>1, JobsDiffer, CurrentIsSubTask DEF IInv
  <2>3. <<main[n].job, k>> \in SubTasks /\ <<main[n].job, k>> # s
    BY <2>2 DEF SubTasks
  <2>4. task'[<<main[n].job, k>>] = task[<<main[n].job, k>>]
    BY <1>1, <1>5, <2>3 DEF Tasks
  <2> QED
    BY <2>1, <2>4 DEF IInv, WaitedFor
<1> QED
  BY <1>6, <1>7, <1>8, <1>9 DEF IInv

\* dequeue on the main pool.
LEMMA MainStartStep ==
  ASSUME IInv, TypeOK', ThreadsBusy', NEW m \in PoolIdx, MainStart(m)
  PROVE  IInv'
<1>1. /\ UNCHANGED <<task, subQueue, sub>>
      /\ mainQueue[m] # <<>>
      /\ mainQueue' = [mainQueue EXCEPT ![m] = Tail(@)]
      /\ \A n \in PoolIdx \ {m} : main'[n] = main[n]
      /\ main'[m].pc = "dispatch"
      /\ MainJobs' = [MainJobs EXCEPT ![m] = Head(mainQueue[m])]
      /\ SubJobs' = SubJobs
  <2>1. main \in [PoolIdx -> MainThread] /\ mainQueue \in [PoolIdx -> Seq(MainTasks)]
    BY DEF IInv, TypeOK, MainThread
  <2>2. PICK n \in PoolIdx :
           main' = [main EXCEPT ![m] = [pc |-> "dispatch", job |-> Head(mainQueue[m]),
                                        idx |-> 0, count |-> n + 1]]
    BY DEF MainStart
  <2>3. MainJobs' = [MainJobs EXCEPT ![m] = Head(mainQueue[m])]
    BY <2>1, <2>2 DEF MainJobs
  <2> QED
    BY <2>1, <2>2, <2>3 DEF MainStart, SubJobs
<1>2. MainJobs[m] = NoTask
  BY DEF MainJobs, MainStart, IInv, ThreadsBusy
<1>3. /\ Once(mainQueue', MainJobs')
      /\ InPool(mainQueue', MainJobs') = InPool(mainQueue, MainJobs)
  <2>1. /\ mainQueue \in PoolQueues
        /\ MainJobs \in PoolJobs
        /\ Once(mainQueue, MainJobs)
    BY PoolKinds DEF IInv, PoolsOnce
  <2>2. LET taken == [mainQueue EXCEPT ![m] = Tail(@)]
            busy == [MainJobs EXCEPT ![m] = Head(mainQueue[m])]
        IN  Once(taken, busy) /\ InPool(taken, busy) = InPool(mainQueue, MainJobs)
    BY <1>1, <1>2, <2>1, TakeOnce
  <2> QED
    BY <1>1, <2>2
<1>4. PoolsOnce'
  BY <1>1, <1>3 DEF IInv, PoolsOnce
<1>5. PoolsPending'
  BY <1>1, <1>3 DEF IInv, PoolsPending, Pending
<1>6. OnTheWay'
  BY <1>1 DEF IInv, OnTheWay, Pending, Current
<1>7. WaitedFor'
  BY <1>1 DEF IInv, WaitedFor
<1> QED
  BY <1>4, <1>5, <1>6, <1>7 DEF IInv

\* before_execution accepts a sub task, which is then on its way to the sub pool.
LEMMA MainAcceptStep ==
  ASSUME IInv, TypeOK', ThreadsBusy', NEW m \in PoolIdx, main[m].pc = "dispatch",
         ~BeforeExecutionThrows(Current(m)),
         task' = [task EXCEPT ![Current(m)] = BeforeExecution(Current(m))],
         main' = [main EXCEPT ![m].pc = "enqueue"],
         UNCHANGED <<mainQueue, subQueue, sub>>
  PROVE  IInv'
<1> DEFINE s == Current(m)
<1>1. s \in SubTasks /\ s \in Tasks /\ main[m].job \in MainTasks
  BY CurrentIsSubTask DEF IInv, Tasks
<1>2. s \notin InPool(mainQueue, MainJobs) /\ s \notin InPool(subQueue, SubJobs)
  BY <1>1, AcceptedIsOut
<1>3. /\ \A u \in Tasks \ {s} : task'[u] = task[u]
      /\ task'[s].initialized /\ ~task'[s].completed
  BY <1>1 DEF IInv, TypeOK, BeforeExecution, TaskState
<1>4. /\ \A n \in PoolIdx \ {m} : main'[n] = main[n]
      /\ main'[m].job = main[m].job /\ main'[m].idx = main[m].idx
      /\ main'[m].pc = "enqueue"
      /\ MainJobs' = MainJobs
      /\ SubJobs' = SubJobs
  BY DEF MainJobs, SubJobs, IInv, TypeOK
<1>5. PoolsOnce'
  BY <1>4 DEF IInv, PoolsOnce
<1>6. PoolsPending'
  <2>1. \A u \in InPool(mainQueue, MainJobs) \cup InPool(subQueue, SubJobs) : u \in Tasks \ {s}
    BY <1>2 DEF InPool
  <2> QED
    BY <1>3, <1>4, <2>1 DEF IInv, PoolsPending, Pending
<1>7. OnTheWay'
  <2> SUFFICES ASSUME NEW n \in PoolIdx, main'[n].pc = "enqueue"
               PROVE  (Pending(Current(n)) /\ Current(n) \notin InPool(subQueue, SubJobs))'
    BY DEF OnTheWay
  <2>1. CASE n = m
    <3>1. Current(n)' = s
      BY <1>4, <2>1 DEF Current
    <3> QED
      BY <1>2, <1>3, <1>4, <3>1 DEF Pending
  <2>2. CASE n # m
    <3>1. Current(n)' = Current(n) /\ Current(n) \in Tasks /\ main[n].pc = "enqueue"
      BY <1>4, <2>2, CurrentIsSubTask DEF IInv, Current, Tasks
    <3>2. Current(n) # s
      BY <1>1, <2>2, JobsDiffer DEF Current
    <3> QED
      BY <1>3, <1>4, <3>1, <3>2 DEF IInv, OnTheWay, Pending
  <2> QED
    BY <2>1, <2>2
<1>8. WaitedFor'
  <2> SUFFICES ASSUME NEW n \in PoolIdx, main'[n].pc \in {"wait", "asleep"},
                      NEW k \in PoolIdx, k < main'[n].idx
               PROVE  task'[<<main'[n].job, k>>].completed /\ ~task'[<<main'[n].job, k>>].error
    BY DEF WaitedFor
  <2>1. n # m /\ main'[n] = main[n]
    BY <1>4
  <2>2. main[n].job \in MainTasks /\ main[n].job # main[m].job
    BY <1>1, <2>1, JobsDiffer, CurrentIsSubTask DEF IInv
  <2>3. <<main[n].job, k>> \in SubTasks /\ <<main[n].job, k>> # s
    BY <2>2 DEF SubTasks, Current
  <2>4. task'[<<main[n].job, k>>] = task[<<main[n].job, k>>]
    BY <1>3, <2>3 DEF Tasks
  <2> QED
    BY <2>1, <2>4 DEF IInv, WaitedFor
<1> QED
  BY <1>5, <1>6, <1>7, <1>8 DEF IInv

\* The accepted sub task is pushed to a queue.
LEMMA MainEnqueueStep ==
  ASSUME IInv, TypeOK', ThreadsBusy', NEW m \in PoolIdx, MainEnqueue(m)
  PROVE  IInv'
<1> DEFINE s == Current(m)
<1>1. s \in SubTasks /\ s \in Tasks /\ main[m].job \in MainTasks
  BY CurrentIsSubTask DEF IInv, Tasks, MainEnqueue
<1>2. Pending(s) /\ s \notin InPool(subQueue, SubJobs)
  BY DEF IInv, OnTheWay, MainEnqueue
<1>3. /\ UNCHANGED <<task, mainQueue, sub>>
      /\ \A n \in PoolIdx \ {m} : main'[n] = main[n]
      /\ main'[m].job = main[m].job
      /\ main'[m].pc = "dispatch" \/ (main'[m].pc = "wait" /\ main'[m].idx = 0)
      /\ MainJobs' = MainJobs
      /\ SubJobs' = SubJobs
  <2>1. main \in [PoolIdx -> MainThread]
    BY DEF IInv, TypeOK, MainThread
  <2> QED
    BY <2>1 DEF MainEnqueue, MainJobs, SubJobs, MainThread
<1>4. Once(subQueue', SubJobs') /\ InPool(subQueue', SubJobs') = InPool(subQueue, SubJobs) \cup {s}
  <2>1. /\ subQueue \in PoolQueues
        /\ SubJobs \in PoolJobs
        /\ Once(subQueue, SubJobs)
    BY PoolKinds DEF IInv, PoolsOnce
  <2>2. PICK q \in PoolIdx : subQueue' = [subQueue EXCEPT ![q] = Append(@, s)]
    BY DEF MainEnqueue, AvailableQueues
  <2>3. /\ Once(subQueue', SubJobs)
        /\ \A u : u \in InPool(subQueue', SubJobs) <=> u \in InPool(subQueue, SubJobs) \/ u = s
    <3>1. subQueue' = Pushed(subQueue, q, s)
      BY <2>2 DEF Pushed
    <3> HIDE DEF s
    <3> QED
      BY <1>1, <1>2, <2>1, <3>1, PushOnce
  <2> QED
    BY <1>3, <2>2, <2>3
<1>5. PoolsOnce'
  BY <1>3, <1>4 DEF IInv, PoolsOnce
<1>6. PoolsPending'
  BY <1>2, <1>3, <1>4 DEF IInv, PoolsPending, Pending
<1>7. OnTheWay'
  <2> SUFFICES ASSUME NEW n \in PoolIdx, main'[n].pc = "enqueue"
               PROVE  (Pending(Current(n)) /\ Current(n) \notin InPool(subQueue, SubJobs))'
    BY DEF OnTheWay
  <2>1. n # m /\ Current(n)' = Current(n) /\ main[n].pc = "enqueue"
    BY <1>3 DEF Current
  <2>2. Current(n) # s
    BY <1>1, <2>1, JobsDiffer DEF Current
  <2> QED
    BY <1>3, <1>4, <2>1, <2>2 DEF IInv, OnTheWay, Pending
<1>8. WaitedFor'
  <2>1. ASSUME NEW k \in PoolIdx, main'[m].pc \in {"wait", "asleep"} PROVE ~(k < main'[m].idx)
    BY <1>3, <2>1, TaskPoolAssumption DEF PoolIdx
  <2> QED
    BY <1>3, <2>1 DEF IInv, WaitedFor
<1> QED
  BY <1>5, <1>6, <1>7, <1>8 DEF IInv

\* dequeue on the sub pool.
LEMMA SubDequeueStep ==
  ASSUME IInv, TypeOK', ThreadsBusy', NEW s \in PoolIdx, SubDequeue(s)
  PROVE  IInv'
<1>1. /\ UNCHANGED <<task, mainQueue, main>>
      /\ subQueue[s] # <<>>
      /\ subQueue' = [subQueue EXCEPT ![s] = Tail(@)]
      /\ MainJobs' = MainJobs
      /\ SubJobs' = [SubJobs EXCEPT ![s] = Head(subQueue[s])]
  BY DEF SubDequeue, MainJobs, SubJobs, IInv, TypeOK
<1>2. SubJobs[s] = NoTask
  BY DEF SubJobs, SubDequeue, IInv, ThreadsBusy
<1>3. /\ Once(subQueue', SubJobs')
      /\ InPool(subQueue', SubJobs') = InPool(subQueue, SubJobs)
  <2>1. /\ subQueue \in PoolQueues
        /\ SubJobs \in PoolJobs
        /\ Once(subQueue, SubJobs)
    BY PoolKinds DEF IInv, PoolsOnce
  <2>2. LET taken == [subQueue EXCEPT ![s] = Tail(@)]
            busy == [SubJobs EXCEPT ![s] = Head(subQueue[s])]
        IN  Once(taken, busy) /\ InPool(taken, busy) = InPool(subQueue, SubJobs)
    BY <1>1, <1>2, <2>1, TakeOnce
  <2> QED
    BY <1>1, <2>2
<1>4. PoolsOnce'
  BY <1>1, <1>3 DEF IInv, PoolsOnce
<1>5. PoolsPending'
  BY <1>1, <1>3 DEF IInv, PoolsPending, Pending
<1>6. OnTheWay'
  BY <1>1, <1>3 DEF IInv, OnTheWay, Pending, Current
<1>7. WaitedFor'
  BY <1>1 DEF IInv, WaitedFor
<1> QED
  BY <1>4, <1>5, <1>6, <1>7 DEF IInv

\* A sub task ends and leaves the pool.
LEMMA SubFinishStep ==
  ASSUME IInv, TypeOK', ThreadsBusy', NEW s \in PoolIdx, SubFinish(s)
  PROVE  IInv'
<1> DEFINE t == sub[s].job
<1>1. t \in SubTasks /\ t \in Tasks /\ SubJobs[s] = t /\ Pending(t)
  BY JobsInPool DEF SubFinish, IInv, ThreadsBusy, Tasks, SubJobs
<1>2. /\ UNCHANGED <<mainQueue, subQueue, main>>
      /\ \A u \in Tasks \ {t} : task'[u] = task[u]
      /\ MainJobs' = MainJobs
      /\ SubJobs' = [SubJobs EXCEPT ![s] = NoTask]
  BY DEF SubFinish, MainJobs, SubJobs, IInv, TypeOK
<1>3. /\ Once(subQueue', SubJobs')
      /\ InPool(subQueue', SubJobs') = InPool(subQueue, SubJobs) \ {t}
  <2>1. /\ subQueue \in PoolQueues
        /\ SubJobs \in PoolJobs
        /\ Once(subQueue, SubJobs)
    BY PoolKinds DEF IInv, PoolsOnce
  <2>2. /\ Once(subQueue, SubJobs')
        /\ \A u : u \in InPool(subQueue, SubJobs') <=> u \in InPool(subQueue, SubJobs) /\ u # t
    <3>1. SubJobs' = Left(SubJobs, s)
      BY <1>2 DEF Left
    <3> HIDE DEF t
    <3> QED
      BY <1>1, <2>1, <3>1, LeaveOnce
  <2> QED
    BY <1>1, <1>2, <2>2
<1>4. PoolsOnce'
  BY <1>2, <1>3 DEF IInv, PoolsOnce
<1>5. PoolsPending'
  <2>1. t \notin InPool(mainQueue, MainJobs)
    BY <1>1, PoolKinds, DistinctObjects DEF IInv
  <2>2. \A u \in InPool(mainQueue, MainJobs) \cup InPool(subQueue, SubJobs) : u \in Tasks
    BY DEF InPool
  <2> QED
    BY <1>2, <1>3, <2>1, <2>2 DEF IInv, PoolsPending, Pending
<1>6. OnTheWay'
  <2> SUFFICES ASSUME NEW n \in PoolIdx, main[n].pc = "enqueue"
               PROVE  (Pending(Current(n)) /\ Current(n) \notin InPool(subQueue, SubJobs))'
    BY <1>2 DEF OnTheWay
  <2>1. Current(n)' = Current(n) /\ Current(n) \in Tasks
    BY <1>2, CurrentIsSubTask DEF IInv, Current, Tasks
  <2>2. Current(n) # t
    BY <1>1, JobsInPool DEF IInv, OnTheWay
  <2> QED
    BY <1>2, <1>3, <2>1, <2>2 DEF IInv, OnTheWay, Pending
<1>7. WaitedFor'
  <2> SUFFICES ASSUME NEW n \in PoolIdx, main[n].pc \in {"wait", "asleep"},
                      NEW k \in PoolIdx, k < main[n].idx
               PROVE  task'[<<main[n].job, k>>].completed /\ ~task'[<<main[n].job, k>>].error
    BY <1>2 DEF WaitedFor
  <2>1. <<main[n].job, k>> \in Tasks
    BY CurrentIsSubTask DEF IInv, SubTasks, Tasks
  <2>2. task[<<main[n].job, k>>].completed /\ ~task[<<main[n].job, k>>].error
    BY DEF IInv, WaitedFor
  <2>3. <<main[n].job, k>> # t
    BY <1>1, <2>2 DEF Pending
  <2> QED
    BY <1>2, <2>1, <2>2, <2>3
<1> QED
  BY <1>4, <1>5, <1>6, <1>7 DEF IInv

\* A step of the caller that changes one main task; when it is accepted, it is
\* pushed to a queue.
LEMMA CallerStep ==
  ASSUME IInv, TypeOK', ThreadsBusy', NEW t \in MainTasks, Enqueue(t) \/ ReadResult(t)
  PROVE  IInv'
<1>1. /\ UNCHANGED <<subQueue, main, sub>>
      /\ MainJobs' = MainJobs
      /\ SubJobs' = SubJobs
      /\ \A u \in Tasks \ {t} : task'[u] = task[u]
  BY DEF Enqueue, ReadResult, MainJobs, SubJobs, IInv, TypeOK
<1>2. t \in Tasks /\ t \notin SubTasks
  BY DistinctObjects DEF Tasks
<1>3. PoolsOnce' /\ PoolsPending'
  <2>1. CASE task' = [task EXCEPT ![t] = AfterAssertion(t)] /\ UNCHANGED mainQueue
    <3>1. /\ task'[t].initialized = task[t].initialized
          /\ task'[t].completed = task[t].completed
      BY <1>2, <2>1 DEF IInv, TypeOK, AfterAssertion, TaskState
    <3>2. \A u \in InPool(mainQueue, MainJobs) \cup InPool(subQueue, SubJobs) : u \in Tasks
      BY DEF InPool
    <3>3. PoolsOnce'
      BY <1>1, <2>1 DEF IInv, PoolsOnce
    <3>4. PoolsPending'
      BY <1>1, <2>1, <3>1, <3>2 DEF IInv, PoolsPending, Pending
    <3> QED
      BY <3>3, <3>4
  <2>2. CASE /\ ~BeforeExecutionThrows(t)
             /\ task' = [task EXCEPT ![t] = BeforeExecution(t)]
             /\ \E q \in AvailableQueues : mainQueue' = [mainQueue EXCEPT ![q] = Append(@, t)]
    <3>1. task'[t].initialized /\ ~task'[t].completed
      BY <1>2, <2>2 DEF IInv, TypeOK, BeforeExecution, TaskState
    <3>2. t \notin InPool(mainQueue, MainJobs) /\ t \notin InPool(subQueue, SubJobs)
      BY <1>2, <2>2, AcceptedIsOut
    <3>3. /\ Once(mainQueue', MainJobs')
          /\ InPool(mainQueue', MainJobs') = InPool(mainQueue, MainJobs) \cup {t}
      <4>1. /\ mainQueue \in PoolQueues
            /\ MainJobs \in PoolJobs
            /\ Once(mainQueue, MainJobs)
        BY PoolKinds DEF IInv, PoolsOnce
      <4>2. PICK q \in PoolIdx : mainQueue' = [mainQueue EXCEPT ![q] = Append(@, t)]
        BY <2>2 DEF AvailableQueues
      <4>3. /\ Once(mainQueue', MainJobs)
            /\ \A u : u \in InPool(mainQueue', MainJobs) <=> u \in InPool(mainQueue, MainJobs) \/ u = t
        <5>1. mainQueue' = Pushed(mainQueue, q, t)
          BY <4>2 DEF Pushed
        <5> QED
          BY <1>2, <3>2, <4>1, <5>1, PushOnce
      <4> QED
        BY <1>1, <4>2, <4>3
    <3>4. \A u \in InPool(mainQueue, MainJobs) \cup InPool(subQueue, SubJobs) : u \in Tasks
      BY DEF InPool
    <3>5. PoolsOnce'
      BY <1>1, <3>3 DEF IInv, PoolsOnce
    <3>6. PoolsPending'
      BY <1>1, <3>1, <3>2, <3>3, <3>4 DEF IInv, PoolsPending, Pending
    <3> QED
      BY <3>5, <3>6
  <2> QED
    BY <2>1, <2>2 DEF Enqueue, ReadResult
<1>4. OnTheWay'
  <2> SUFFICES ASSUME NEW n \in PoolIdx, main[n].pc = "enqueue"
               PROVE  (Pending(Current(n)) /\ Current(n) \notin InPool(subQueue, SubJobs))'
    BY <1>1 DEF OnTheWay
  <2>1. Current(n)' = Current(n) /\ Current(n) \in Tasks \ {t}
    BY <1>1, <1>2, CurrentIsSubTask DEF IInv, Current, Tasks
  <2> QED
    BY <1>1, <2>1 DEF IInv, OnTheWay, Pending
<1>5. WaitedFor'
  <2> SUFFICES ASSUME NEW n \in PoolIdx, main[n].pc \in {"wait", "asleep"},
                      NEW k \in PoolIdx, k < main[n].idx
               PROVE  task'[<<main[n].job, k>>].completed /\ ~task'[<<main[n].job, k>>].error
    BY <1>1 DEF WaitedFor
  <2>1. <<main[n].job, k>> \in Tasks \ {t}
    BY <1>2, CurrentIsSubTask DEF IInv, SubTasks, Tasks
  <2> QED
    BY <1>1, <2>1 DEF IInv, WaitedFor
<1> QED
  BY <1>3, <1>4, <1>5 DEF IInv

-----------------------------------------------------------------------------
\* wait returns: the next sub task is waited for, or the task ends.
LEMMA WaitReturnsStep ==
  ASSUME IInv, TypeOK', ThreadsBusy', NEW m \in PoolIdx, main[m].pc \in {"wait", "asleep"},
         WaitReturns(m), UNCHANGED <<mainQueue, subQueue, sub>>
  PROVE  IInv'
<1>1. main[m].job \in MainTasks /\ Current(m) \in SubTasks /\ Current(m)[1] = main[m].job
  BY CurrentIsSubTask DEF IInv, Current
<1>2. CASE MainFailsAt(m, Current(m)) \/ MainFinishes(m, FALSE)
  BY <1>1, <1>2, MainEndStep
<1>3. CASE /\ ~AssertionFails(Current(m))
           /\ main' = [main EXCEPT ![m].pc = "wait", ![m].idx = @ + 1]
           /\ UNCHANGED task
  <2>1. main \in [PoolIdx -> MainThread] /\ main[m].idx \in PoolIdx
    BY DEF IInv, TypeOK, MainThread
  <2>2. /\ \A n \in PoolIdx \ {m} : main'[n] = main[n]
        /\ main'[m].pc = "wait" /\ main'[m].job = main[m].job
        /\ main'[m].idx = main[m].idx + 1
    BY <1>3, <2>1 DEF MainThread
  <2>3. MainJobs' = MainJobs /\ SubJobs' = SubJobs
    BY <2>2 DEF MainJobs, SubJobs
  <2>4. task[Current(m)].completed /\ ~task[Current(m)].error
    BY <1>3 DEF AssertionFails
  <2>5. \A k \in PoolIdx : k < main[m].idx + 1 => k < main[m].idx \/ <<main[m].job, k>> = Current(m)
    BY <2>1, TaskPoolAssumption DEF PoolIdx, Current
  <2>6. ASSUME NEW n \in PoolIdx, main'[n].pc \in {"wait", "asleep"}
        PROVE  /\ main[n].pc \in {"wait", "asleep"}
               /\ main'[n].job = main[n].job
               /\ \A k \in PoolIdx : k < main'[n].idx =>
                     \/ k < main[n].idx
                     \/ task[<<main[n].job, k>>].completed /\ ~task[<<main[n].job, k>>].error
    BY <2>2, <2>4, <2>5, <2>6
  <2> QED
    BY <1>3, <2>2, <2>3, <2>6, QuietStep
<1> QED
  BY <1>2, <1>3 DEF WaitReturns

\* Every step of a main thread.
LEMMA MainStep ==
  ASSUME IInv, NEW m \in PoolIdx, MainRuns(m) \/ MainWakeSpuriously(m)
  PROVE  IInv'
<1>1. TypeOK' /\ ThreadsBusy'
  BY MainStepTyped DEF IInv
<1>2. main \in [PoolIdx -> MainThread]
  BY DEF IInv, TypeOK, MainThread
<1>3. ASSUME NEW pc \in {"dequeue", "exited", "asleep"},
             \/ main' = [main EXCEPT ![m].pc = pc]
             \/ pc = "exited" /\ main' = [main EXCEPT ![m] = IdleMain(pc)] /\ main[m].job = NoTask,
             pc = "asleep" => main[m].pc = "wait",
             UNCHANGED <<task, mainQueue, subQueue, sub>>
      PROVE  IInv'
  <2>1. /\ \A n \in PoolIdx \ {m} : main'[n] = main[n]
        /\ main'[m].pc = pc /\ main'[m].job = main[m].job
        /\ pc = "asleep" => main'[m].idx = main[m].idx
    BY <1>2, <1>3 DEF MainThread, IdleMain
  <2>2. MainJobs' = MainJobs /\ SubJobs' = SubJobs
    BY <1>3, <2>1 DEF MainJobs, SubJobs
  <2> QED
    BY <1>1, <1>3, <2>1, <2>2, QuietStep
<1>4. CASE MainCheck(m)
  <2>1. PICK pc \in {"dequeue", "exited"} : main' = [main EXCEPT ![m].pc = pc]
    BY <1>4 DEF MainCheck
  <2> QED
    BY <1>3, <1>4, <2>1 DEF MainCheck
<1>5. CASE MainLeave(m)
  BY <1>3, <1>5 DEF MainLeave, IInv, ThreadsBusy
<1>6. CASE MainStart(m)
  BY <1>1, <1>6, MainStartStep
<1>7. CASE MainThrows(m) \/ MainNothingToDispatch(m)
  <2>1. main[m].job \in MainTasks /\ Current(m) \in SubTasks /\ Current(m)[1] = main[m].job
    BY <1>7, CurrentIsSubTask DEF IInv, MainThrows, MainNothingToDispatch, Current
  <2> QED
    BY <1>1, <1>7, <2>1, MainEndStep DEF MainThrows, MainNothingToDispatch
<1>8. CASE MainDispatch(m)
  <2>1. main[m].job \in MainTasks /\ Current(m) \in SubTasks /\ Current(m)[1] = main[m].job
    BY <1>8, CurrentIsSubTask DEF IInv, MainDispatch, Current
  <2>2. CASE MainFailsAt(m, Current(m))
    BY <1>1, <1>8, <2>1, <2>2, MainEndStep DEF MainDispatch
  <2>3. CASE ~MainFailsAt(m, Current(m))
    BY <1>1, <1>8, <2>3, MainAcceptStep DEF MainDispatch
  <2> QED
    BY <2>2, <2>3
<1>9. CASE MainEnqueue(m)
  BY <1>1, <1>9, MainEnqueueStep
<1>10. CASE MainWait(m)
  <2>1. CASE WaitReturns(m)
    BY <1>1, <1>10, <2>1, WaitReturnsStep DEF MainWait
  <2>2. CASE main' = [main EXCEPT ![m].pc = "asleep"] /\ UNCHANGED task
    BY <1>3, <1>10, <2>2 DEF MainWait
  <2> QED
    BY <1>10, <2>1, <2>2 DEF MainWait
<1>11. CASE MainWake(m) \/ MainWakeSpuriously(m)
  BY <1>1, <1>11, WaitReturnsStep DEF MainWake, MainWakeSpuriously
<1> QED
  BY <1>4, <1>5, <1>6, <1>7, <1>8, <1>9, <1>10, <1>11 DEF MainRuns

\* Every step of a sub thread.
LEMMA SubStep ==
  ASSUME IInv, NEW s \in PoolIdx, SubRuns(s)
  PROVE  IInv'
<1>1. TypeOK' /\ ThreadsBusy'
  BY SubStepTyped DEF IInv
<1>2. CASE SubCheck(s) \/ SubLeave(s) \/ SubStart(s)
  <2>1. MainJobs' = MainJobs /\ SubJobs' = SubJobs
    <3>1. \E pc : sub' = [sub EXCEPT ![s].pc = pc]
      BY <1>2 DEF SubCheck, SubLeave, SubStart
    <3>2. \A n \in PoolIdx : sub'[n].job = sub[n].job
      BY <3>1 DEF IInv, TypeOK
    <3>3. UNCHANGED main
      BY <1>2 DEF SubCheck, SubLeave, SubStart
    <3> QED
      BY <3>2, <3>3 DEF MainJobs, SubJobs
  <2>2. UNCHANGED <<task, mainQueue, subQueue, main>>
    BY <1>2 DEF SubCheck, SubLeave, SubStart
  <2> QED
    BY <1>1, <2>1, <2>2, QuietStep
<1>3. CASE SubDequeue(s)
  BY <1>1, <1>3, SubDequeueStep
<1>4. CASE SubFinish(s)
  BY <1>1, <1>4, SubFinishStep
<1> QED
  BY <1>2, <1>3, <1>4 DEF SubRuns

LEMMA NextOK == IInv /\ [Next]_vars => IInv'
<1> SUFFICES ASSUME IInv, [Next]_vars PROVE IInv'
  OBVIOUS
<1>1. ASSUME NEW m \in PoolIdx, MainRuns(m) \/ MainWakeSpuriously(m) PROVE IInv'
  BY <1>1, MainStep
<1>2. ASSUME NEW s \in PoolIdx, SubRuns(s) PROVE IInv'
  BY <1>2, SubStep
<1>3. ASSUME NEW t \in MainTasks, Enqueue(t) \/ ReadResult(t) PROVE IInv'
  <2>1. TypeOK' /\ ThreadsBusy'
    BY <1>3, CallerStepTyped DEF IInv
  <2> QED
    BY <1>3, <2>1, CallerStep
<1>4. CASE Destroy \/ Destructor
  <2>1. TypeOK' /\ ThreadsBusy'
    BY <1>4, CallerStepTyped DEF IInv
  <2>2. UNCHANGED <<task, mainQueue, subQueue, main, sub>>
    BY <1>4 DEF Destroy, Destructor, PoolDestroyed, StopThread
  <2>3. MainJobs' = MainJobs /\ SubJobs' = SubJobs
    BY <2>2 DEF MainJobs, SubJobs
  <2> QED
    BY <2>1, <2>2, <2>3, QuietStep
<1>5. CASE UNCHANGED vars
  <2>1. UNCHANGED <<task, mainQueue, subQueue, main, sub>>
    BY <1>5 DEF vars
  <2>2. MainJobs' = MainJobs /\ SubJobs' = SubJobs
    BY <2>1 DEF MainJobs, SubJobs
  <2>3. TypeOK' /\ ThreadsBusy'
    BY <1>5 DEF vars, IInv, TypeOK, ThreadsBusy
  <2> QED
    BY <2>1, <2>2, <2>3, QuietStep
<1> QED
  BY <1>1, <1>2, <1>3, <1>4, <1>5 DEF Next

LEMMA Invariance == Spec => []IInv
  BY InitOK, NextOK, PTL DEF Spec

-----------------------------------------------------------------------------
\* The fields of tasks, queues and threads keep their types.
THEOREM TypeCorrect == Spec => []TypeOK
<1>1. IInv => TypeOK
  BY DEF IInv
<1> QED
  BY <1>1, Invariance, PTL

\* Wherever a task is by MainPlaces or SubPlaces, it is in the pool.
LEMMA PlacesInPool ==
  ASSUME IInv
  PROVE  /\ \A t \in MainTasks : MainPlaces(t) # {} => t \in InPool(mainQueue, MainJobs)
         /\ \A t \in SubTasks : SubPlaces(t) # {} => t \in InPool(subQueue, SubJobs)
<1>1. ASSUME NEW queue \in [PoolIdx -> Seq(Tasks)], NEW job, NEW t \in Tasks,
             Slots(queue, t) # {} \/ \E k \in PoolIdx : job[k] = t
      PROVE  t \in InPool(queue, job)
  <2>1. CASE Slots(queue, t) # {}
    <3>1. PICK i \in PoolIdx : \E k \in DOMAIN queue[i] : queue[i][k] = t
      BY <2>1 DEF Slots
    <3>2. DOMAIN queue[i] = 1 .. Len(queue[i])
      OBVIOUS
    <3> QED
      BY <3>1, <3>2 DEF InPool, InQueue
  <2>2. CASE \E k \in PoolIdx : job[k] = t
    BY <2>2 DEF InPool
  <2> QED
    BY <1>1, <2>1, <2>2
<1>2. mainQueue \in [PoolIdx -> Seq(Tasks)] /\ subQueue \in [PoolIdx -> Seq(Tasks)]
  BY DEF IInv, TypeOK, Tasks
<1>3. ASSUME NEW t \in MainTasks, MainPlaces(t) # {}
      PROVE  t \in InPool(mainQueue, MainJobs)
  <2>1. Slots(mainQueue, t) # {} \/ \E k \in PoolIdx : MainJobs[k] = t
    BY <1>3 DEF MainPlaces, MainJobs
  <2> QED
    BY <1>1, <1>2, <2>1 DEF Tasks
<1>4. ASSUME NEW t \in SubTasks, SubPlaces(t) # {}
      PROVE  t \in InPool(subQueue, SubJobs)
  <2>1. Slots(subQueue, t) # {} \/ \E k \in PoolIdx : SubJobs[k] = t
    BY <1>4 DEF SubPlaces, SubJobs
  <2> QED
    BY <1>1, <1>2, <2>1 DEF Tasks
<1> QED
  BY <1>3, <1>4

\* A task object is never queued twice, run by two threads or queued while it
\* runs: before_execution refuses every task that is still in a pool.
THEOREM TasksInOnePlace == Spec => []OnePlaceAtMost
<1>1. ASSUME NEW queue \in PoolQueues, NEW job \in PoolJobs,
             Once(queue, job), NEW t \in Tasks,
             NEW p \in Slots(queue, t) \cup {<<"thread", i, 0>> : i \in {k \in PoolIdx : job[k] = t}},
             NEW q \in Slots(queue, t) \cup {<<"thread", i, 0>> : i \in {k \in PoolIdx : job[k] = t}}
      PROVE  p = q
  <2>1. \A r \in Slots(queue, t) : \E i \in PoolIdx : \E k \in 1 .. Len(queue[i]) :
            r = <<"slot", i, k>> /\ queue[i][k] = t
    BY DEF Slots, PoolQueues
  <2>2. CASE p \in Slots(queue, t) /\ q \in Slots(queue, t)
    BY <1>1, <2>1, <2>2 DEF Once
  <2>3. CASE p \notin Slots(queue, t) /\ q \notin Slots(queue, t)
    BY <1>1, <2>3 DEF Once
  <2>4. CASE p \in Slots(queue, t) /\ q \notin Slots(queue, t)
    BY <1>1, <2>1, <2>4 DEF Once, InQueue
  <2>5. CASE p \notin Slots(queue, t) /\ q \in Slots(queue, t)
    BY <1>1, <2>1, <2>5 DEF Once, InQueue
  <2> QED
    BY <2>2, <2>3, <2>4, <2>5
<1>2. IInv => OnePlaceAtMost
  <2> SUFFICES ASSUME IInv PROVE OnePlaceAtMost
    OBVIOUS
  <2>1. /\ \A t \in MainTasks : MainPlaces(t) =
              Slots(mainQueue, t) \cup {<<"thread", i, 0>> : i \in {k \in PoolIdx : MainJobs[k] = t}}
        /\ \A t \in SubTasks : SubPlaces(t) =
              Slots(subQueue, t) \cup {<<"thread", i, 0>> : i \in {k \in PoolIdx : SubJobs[k] = t}}
    BY DEF MainPlaces, SubPlaces, MainJobs, SubJobs
  <2>2. ASSUME NEW t \in MainTasks, NEW p \in MainPlaces(t), NEW q \in MainPlaces(t) PROVE p = q
    <3>1. /\ mainQueue \in PoolQueues /\ MainJobs \in PoolJobs
          /\ Once(mainQueue, MainJobs) /\ t \in Tasks
      BY PoolKinds DEF IInv, PoolsOnce, Tasks
    <3> QED
      BY <1>1, <2>1, <3>1
  <2>3. ASSUME NEW t \in SubTasks, NEW p \in SubPlaces(t), NEW q \in SubPlaces(t) PROVE p = q
    <3>1. /\ subQueue \in PoolQueues /\ SubJobs \in PoolJobs
          /\ Once(subQueue, SubJobs) /\ t \in Tasks
      BY PoolKinds DEF IInv, PoolsOnce, Tasks
    <3> QED
      BY <1>1, <2>1, <3>1
  <2> QED
    BY <2>2, <2>3 DEF OnePlaceAtMost
<1> QED
  BY <1>2, Invariance, PTL

\* What the caller reads after is_completed no longer changes: a completed task is
\* in neither pool.
THEOREM CompletedTasksAreOut == Spec => []CompletedMeansOut
<1>1. IInv => CompletedMeansOut
  BY PlacesInPool DEF CompletedMeansOut, IInv, PoolsPending, Pending
<1> QED
  BY <1>1, Invariance, PTL

\* A waiting main task gives up its thread only when wait returns.
LEMMA SuccessIsReturn ==
  ASSUME IInv, [Next]_vars, NEW m \in PoolIdx, main[m].pc \in {"wait", "asleep"},
         main'[m].job # main[m].job
  PROVE  WaitReturns(m)
<1>1. main \in [PoolIdx -> MainThread]
  BY DEF IInv, TypeOK, MainThread
<1>2. ASSUME NEW n \in PoolIdx, MainRuns(n) \/ MainWakeSpuriously(n) PROVE WaitReturns(m)
  <2>1. \E r : main' = [main EXCEPT ![n] = r]
    BY <1>2, <1>1 DEF MainRuns, MainCheck, MainStart, MainLeave, MainThrows, MainNothingToDispatch,
       MainDispatch, MainEnqueue, MainWait, MainWake, MainWakeSpuriously, MainFinishes, MainFailsAt,
       WaitReturns
  <2>2. n = m
    BY <1>1, <2>1
  <2>3. MainWait(m) \/ MainWake(m) \/ MainWakeSpuriously(m)
    BY <1>2, <2>2 DEF MainRuns, MainCheck, MainStart, MainLeave, MainThrows, MainNothingToDispatch,
       MainDispatch, MainEnqueue
  <2>4. main' # [main EXCEPT ![m].pc = "asleep"]
    BY <1>1 DEF MainThread
  <2> QED
    BY <2>3, <2>4 DEF MainWait, MainWake, MainWakeSpuriously
<1>3. CASE UNCHANGED main
  BY <1>3
<1> QED
  BY <1>2, <1>3 DEF Next, SubRuns, SubCheck, SubDequeue, SubLeave, SubStart, SubFinish, Enqueue,
     ReadResult, Destroy, Destructor, PoolDestroyed, StopThread, vars

\* A main task that completes without an error after waiting has consumed the
\* results of all the sub tasks it dispatched, also after spurious wakeups.
THEOREM SuccessIsWhole == Spec => SuccessMeansAllParts
<1> DEFINE Whole == \A m \in PoolIdx :
              /\ main[m].pc \in {"wait", "asleep"}
              /\ main'[m].job = NoTask
              /\ ~task'[main[m].job].error
              => \A k \in 0 .. main[m].count - 1 :
                    LET s == <<main[m].job, k>> IN
                    task[s].completed /\ ~task[s].error /\ SubPlaces(s) = {}
<1> USE DEF Whole
<1>1. ASSUME IInv, [Next]_vars, NEW m \in PoolIdx, main[m].pc \in {"wait", "asleep"},
             main'[m].job = NoTask, ~task'[main[m].job].error
      PROVE  \A k \in 0 .. main[m].count - 1 :
                LET s == <<main[m].job, k>> IN
                task[s].completed /\ ~task[s].error /\ SubPlaces(s) = {}
  <2>1. /\ main[m].job \in MainTasks /\ Current(m) \in SubTasks
        /\ main[m].job # Current(m) /\ main[m].job # NoTask
    BY <1>1, CurrentIsSubTask, DistinctObjects DEF IInv, Tasks
  <2>2. /\ main[m].idx \in PoolIdx /\ main[m].count \in 0 .. PoolSize
        /\ main \in [PoolIdx -> MainThread] /\ task \in [Tasks -> TaskState]
    BY <1>1 DEF IInv, TypeOK, MainThread
  <2>3. WaitReturns(m)
    BY <1>1, <2>1, SuccessIsReturn
  <2>4. ~AssertionFails(Current(m)) /\ main[m].idx + 1 >= Awaited(m)
    <3>1. ~MainFailsAt(m, Current(m))
      BY <1>1, <2>1, <2>2 DEF MainFailsAt, AfterExecution, Tasks, TaskState
    <3>2. main' # [main EXCEPT ![m].pc = "wait", ![m].idx = @ + 1]
      BY <1>1, <2>1, <2>2 DEF MainThread
    <3> QED
      BY <2>3, <3>1, <3>2 DEF WaitReturns
  <2> SUFFICES ASSUME NEW k \in 0 .. main[m].count - 1
               PROVE  /\ task[<<main[m].job, k>>].completed /\ ~task[<<main[m].job, k>>].error
                      /\ SubPlaces(<<main[m].job, k>>) = {}
    OBVIOUS
  <2>5. k \in PoolIdx /\ (k < main[m].idx \/ k = main[m].idx)
    BY <2>2, <2>4, TaskPoolAssumption DEF Awaited, PoolIdx
  <2>6. task[<<main[m].job, k>>].completed /\ ~task[<<main[m].job, k>>].error
    BY <1>1, <2>4, <2>5 DEF IInv, WaitedFor, AssertionFails, Current
  <2>7. <<main[m].job, k>> \in SubTasks
    BY <2>1, <2>5 DEF SubTasks
  <2> QED
    BY <1>1, <2>6, <2>7, PlacesInPool DEF IInv, PoolsPending, Pending
<1>2. IInv /\ [Next]_vars => Whole
  BY <1>1
<1> QED
  BY <1>2, Invariance, PTL DEF Spec, SuccessMeansAllParts
=============================================================================
