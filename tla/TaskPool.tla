------------------------------ MODULE TaskPool ------------------------------
(***************************************************************************)
(* TaskPoolExecutor: a pool of threads for main tasks and one for their    *)
(* sub tasks, each thread with its own queue (ThreadPool, QueueThread,     *)
(* SafeQueue).  The caller enqueues a main task and polls it; the thread   *)
(* that runs it hands parts of the block to sub tasks, waits for them in   *)
(* order and completes the task (MainTaskBase, SubTaskBase, TaskBase).     *)
(* A task object is reused for many blocks.  The executor's destructor     *)
(* stops and joins the threads of the main pool, then of the sub pool.     *)
(*                                                                         *)
(* A block is abstracted to the number of sub tasks it is split over; a    *)
(* sub task's work to whether it throws.                                   *)
(***************************************************************************)
EXTENDS Integers, Sequences

CONSTANTS
    MainTasks,    \* main task objects
    PoolSize,     \* the pool_size given to TaskPoolExecutor::init
    WaitForAll,   \* the main tasks whose _execute waits for every sub task
                  \* object, dispatched or not (EthBlockDecompressionTask)
    Destroyed,    \* whether the executor is ever destroyed (a bound of the run)
    NoTask

ASSUME TaskPoolAssumption ==
    /\ PoolSize \in Nat \ {0}
    /\ WaitForAll \subseteq MainTasks
    /\ Destroyed \in BOOLEAN

PoolIdx == 0 .. PoolSize - 1
SubTasks == MainTasks \X PoolIdx
Tasks == MainTasks \cup SubTasks

\* Main tasks, sub tasks and the null pointer are different things.
ASSUME DistinctObjects == MainTasks \cap SubTasks = {} /\ NoTask \notin Tasks

VARIABLES
    task,       \* TaskBase fields of every task object
    mainQueue,  \* SafeQueue of each main pool thread
    subQueue,   \* SafeQueue of each sub pool thread
    main,       \* main pool threads: where they are, and what they run
    sub,        \* sub pool threads
    stopped,    \* threads whose _stop_requested is set
    shutdown    \* progress of ~TaskPoolExecutor

vars == <<task, mainQueue, subQueue, main, sub, stopped, shutdown>>

(* TaskBase.  "executed" stands for _task_id = _last_executed_id: every      *)
(* constructor and every accepted before_execution draws a new id.           *)
TaskState == [initialized : BOOLEAN, executed : BOOLEAN, completed : BOOLEAN,
              error : BOOLEAN]

NewTask == [initialized |-> FALSE, executed |-> FALSE, completed |-> FALSE,
            error |-> FALSE]

\* assert_execution throws: not executed, not completed, or a pending error.
AssertionFails(t) == ~task[t].executed \/ ~task[t].completed \/ task[t].error

\* assert_execution consumes the error it rethrows (_check_error).
AfterAssertion(t) ==
    [task[t] EXCEPT !.error = @ /\ ~(task[t].executed /\ task[t].completed)]

\* Fault variant: a task is accepted whatever became of its last execution.
BeforeExecutionUnguarded(t) == FALSE

\* Fault variant: an accepted task still counts as completed.
BeforeExecutionKeepsCompleted(t) ==
    [task[t] EXCEPT !.initialized = TRUE, !.executed = FALSE]

\* Fault variant: a task that threw is never completed.
AfterExecutionOnSuccessOnly(t, err) ==
    [task[t] EXCEPT !.executed = TRUE, !.completed = ~err, !.error = err]

BeforeExecutionThrows(t) == task[t].initialized /\ AssertionFails(t)

BeforeExecution(t) ==
    [task[t] EXCEPT !.initialized = TRUE, !.executed = FALSE, !.completed = FALSE]

AfterExecution(t, err) ==
    [task[t] EXCEPT !.executed = TRUE, !.completed = TRUE, !.error = err]

\* ThreadPool::get_available_queue looks for an empty queue, but reads the sizes
\* without the mutexes of the queues while other threads fill and drain them: any
\* queue may come out.
AvailableQueues == PoolIdx

-----------------------------------------------------------------------------
(* Threads of the main pool.  idx runs over the sub tasks of the task being  *)
(* dispatched or waited for, count is the number of sub tasks the block is   *)
(* split over.                                                               *)

MainPc == {"check", "dequeue", "dispatch", "enqueue", "wait", "asleep", "exited"}

IdleMain(pc) == [pc |-> pc, job |-> NoTask, idx |-> 0, count |-> 0]

Init ==
    /\ task = [t \in Tasks |-> NewTask]
    /\ mainQueue = [i \in PoolIdx |-> <<>>]
    /\ subQueue = [i \in PoolIdx |-> <<>>]
    /\ main = [m \in PoolIdx |-> IdleMain("check")]
    /\ sub = [s \in PoolIdx |-> [pc |-> "check", job |-> NoTask]]
    /\ stopped = {}
    /\ shutdown = "no"

Current(m) == <<main[m].job, main[m].idx>>

\* MainTaskBase::execute ends: after_execution with or without an error.
MainFinishes(m, err) ==
    /\ task' = [task EXCEPT ![main[m].job] = AfterExecution(main[m].job, err)]
    /\ main' = [main EXCEPT ![m] = IdleMain("check")]

MainFailsAt(m, s) ==
    /\ task' = [task EXCEPT ![main[m].job] = AfterExecution(main[m].job, TRUE),
                            ![s] = AfterAssertion(s)]
    /\ main' = [main EXCEPT ![m] = IdleMain("check")]

\* The loop condition of _thread_loop.
MainCheck(m) ==
    /\ main[m].pc = "check"
    /\ main' = [main EXCEPT ![m].pc =
                    IF <<"main", m>> \in stopped THEN "exited" ELSE "dequeue"]
    /\ UNCHANGED <<task, mainQueue, subQueue, sub, stopped, shutdown>>

\* SafeQueue::dequeue returns an item and _item_dequeued_func runs it.  The size
\* of the block decides over how many sub tasks _dispatch will split it.
MainStart(m) ==
    /\ main[m].pc = "dequeue"
    /\ mainQueue[m] # <<>>
    /\ mainQueue' = [mainQueue EXCEPT ![m] = Tail(@)]
    /\ \E n \in PoolIdx :
          main' = [main EXCEPT ![m] =
              [pc |-> "dispatch", job |-> Head(mainQueue[m]),
               idx |-> 0, count |-> n + 1]]
    /\ UNCHANGED <<task, subQueue, sub, stopped, shutdown>>

\* Fault variant: dequeue does not look at the stop flag.
MainLeaveIgnoringStop(m) ==
    /\ main[m].pc = "dequeue"
    /\ mainQueue[m] = <<>>
    /\ FALSE
    /\ UNCHANGED vars

\* SafeQueue::dequeue returns nullptr: stopped and empty.
MainLeave(m) ==
    /\ main[m].pc = "dequeue"
    /\ mainQueue[m] = <<>>
    /\ <<"main", m>> \in stopped
    /\ main' = [main EXCEPT ![m] = IdleMain("exited")]
    /\ UNCHANGED <<task, mainQueue, subQueue, sub, stopped, shutdown>>

\* _execute throws before or between dispatching sub tasks (a malformed
\* message): sub tasks already enqueued keep running.
MainThrows(m) ==
    /\ main[m].pc = "dispatch"
    /\ MainFinishes(m, TRUE)
    /\ UNCHANGED <<mainQueue, subQueue, sub, stopped, shutdown>>

\* A task that dispatches nothing (cleanup, encryption, a block with unknown
\* transactions) completes at once.
MainNothingToDispatch(m) ==
    /\ main[m].pc = "dispatch"
    /\ main[m].idx = 0
    /\ MainFinishes(m, FALSE)
    /\ UNCHANGED <<mainQueue, subQueue, sub, stopped, shutdown>>

\* TaskThreadPool::enqueue_task up to before_execution, which may throw.
MainDispatch(m) ==
    /\ main[m].pc = "dispatch"
    /\ LET s == Current(m) IN
       \/ /\ BeforeExecutionThrows(s)
          /\ MainFailsAt(m, s)
       \/ /\ ~BeforeExecutionThrows(s)
          /\ task' = [task EXCEPT ![s] = BeforeExecution(s)]
          /\ main' = [main EXCEPT ![m].pc = "enqueue"]
    /\ UNCHANGED <<mainQueue, subQueue, sub, stopped, shutdown>>

\* The rest of enqueue_task; after the last sub task _execute starts to wait.
MainEnqueue(m) ==
    /\ main[m].pc = "enqueue"
    /\ \E q \in AvailableQueues : subQueue' = [subQueue EXCEPT ![q] = Append(@, Current(m))]
    /\ main' = [main EXCEPT ![m] =
          IF main[m].idx + 1 < main[m].count
          THEN [main[m] EXCEPT !.pc = "dispatch", !.idx = main[m].idx + 1]
          ELSE [main[m] EXCEPT !.pc = "wait", !.idx = 0]]
    /\ UNCHANGED <<task, mainQueue, sub, stopped, shutdown>>

\* How many sub tasks _execute waits for.
Awaited(m) ==
    IF main[m].job \in WaitForAll THEN PoolSize ELSE main[m].count

\* SubTaskBase::execute holds the sub task's _mtx from start to end.
Locked(t) == \E s \in PoolIdx : sub[s].pc = "run" /\ sub[s].job = t

\* The end of SubTaskBase::wait: assert_execution, then the next sub task.
WaitReturns(m) ==
    LET s == Current(m) IN
    \/ /\ AssertionFails(s)
       /\ MainFailsAt(m, s)
    \/ /\ ~AssertionFails(s)
       /\ \/ /\ main[m].idx + 1 < Awaited(m)
             /\ main' = [main EXCEPT ![m].pc = "wait", ![m].idx = @ + 1]
             /\ UNCHANGED task
          \/ /\ main[m].idx + 1 >= Awaited(m)
             /\ MainFinishes(m, FALSE)

\* Fault variant: wait returns whether or not the sub task is done.
WaitWithoutSleeping(m) ==
    /\ main[m].pc = "wait"
    /\ ~Locked(Current(m))
    /\ \/ /\ main[m].idx + 1 < Awaited(m)
          /\ main' = [main EXCEPT ![m].pc = "wait", ![m].idx = @ + 1]
          /\ UNCHANGED task
       \/ /\ main[m].idx + 1 >= Awaited(m)
          /\ MainFinishes(m, FALSE)
    /\ UNCHANGED <<mainQueue, subQueue, sub, stopped, shutdown>>

\* SubTaskBase::wait takes _mtx and sleeps if the sub task has not completed.
MainWait(m) ==
    /\ main[m].pc = "wait"
    /\ ~Locked(Current(m))
    /\ \/ /\ task[Current(m)].completed
          /\ WaitReturns(m)
       \/ /\ ~task[Current(m)].completed
          /\ main' = [main EXCEPT ![m].pc = "asleep"]
          /\ UNCHANGED task
    /\ UNCHANGED <<mainQueue, subQueue, sub, stopped, shutdown>>

\* The notify_all of SubTaskBase::execute: sleeping and completing exclude each
\* other under _mtx, so the waiter was notified exactly if the task completed.
MainWake(m) ==
    /\ main[m].pc = "asleep"
    /\ ~Locked(Current(m))
    /\ task[Current(m)].completed
    /\ WaitReturns(m)
    /\ UNCHANGED <<mainQueue, subQueue, sub, stopped, shutdown>>

\* A spurious wakeup: wait tests the condition with "if", so assert_execution
\* runs at once and throws TaskNotExecuted.
MainWakeSpuriously(m) ==
    /\ main[m].pc = "asleep"
    /\ ~Locked(Current(m))
    /\ ~task[Current(m)].completed
    /\ WaitReturns(m)
    /\ UNCHANGED <<mainQueue, subQueue, sub, stopped, shutdown>>

-----------------------------------------------------------------------------
(* Threads of the sub pool.                                                *)

SubCheck(s) ==
    /\ sub[s].pc = "check"
    /\ sub' = [sub EXCEPT ![s].pc =
                   IF <<"sub", s>> \in stopped THEN "exited" ELSE "dequeue"]
    /\ UNCHANGED <<task, mainQueue, subQueue, main, stopped, shutdown>>

SubDequeue(s) ==
    /\ sub[s].pc = "dequeue"
    /\ subQueue[s] # <<>>
    /\ subQueue' = [subQueue EXCEPT ![s] = Tail(@)]
    /\ sub' = [sub EXCEPT ![s] = [pc |-> "lock", job |-> Head(subQueue[s])]]
    /\ UNCHANGED <<task, mainQueue, main, stopped, shutdown>>

SubLeave(s) ==
    /\ sub[s].pc = "dequeue"
    /\ subQueue[s] = <<>>
    /\ <<"sub", s>> \in stopped
    /\ sub' = [sub EXCEPT ![s].pc = "exited"]
    /\ UNCHANGED <<task, mainQueue, subQueue, main, stopped, shutdown>>

\* SubTaskBase::execute takes _mtx ...
SubStart(s) ==
    /\ sub[s].pc = "lock"
    /\ ~Locked(sub[s].job)
    /\ sub' = [sub EXCEPT ![s].pc = "run"]
    /\ UNCHANGED <<task, mainQueue, subQueue, main, stopped, shutdown>>

\* ... and _execute returns or throws.
SubFinish(s) ==
    /\ sub[s].pc = "run"
    /\ \E err \in BOOLEAN :
          task' = [task EXCEPT ![sub[s].job] = AfterExecution(sub[s].job, err)]
    /\ sub' = [sub EXCEPT ![s] = [pc |-> "check", job |-> NoTask]]
    /\ UNCHANGED <<mainQueue, subQueue, main, stopped, shutdown>>

-----------------------------------------------------------------------------
(* The caller: one Python thread.                                          *)

\* TaskPoolExecutor::enqueue_task.
Enqueue(t) ==
    /\ shutdown = "no"
    /\ \/ /\ BeforeExecutionThrows(t)
          /\ task' = [task EXCEPT ![t] = AfterAssertion(t)]
          /\ UNCHANGED mainQueue
       \/ /\ ~BeforeExecutionThrows(t)
          /\ task' = [task EXCEPT ![t] = BeforeExecution(t)]
          /\ \E q \in AvailableQueues :
                mainQueue' = [mainQueue EXCEPT ![q] = Append(@, t)]
    /\ UNCHANGED <<subQueue, main, sub, stopped, shutdown>>

\* assert_execution, at the head of every accessor of a task's results.
ReadResult(t) ==
    /\ task[t].error
    /\ task' = [task EXCEPT ![t] = AfterAssertion(t)]
    /\ UNCHANGED <<mainQueue, subQueue, main, sub, stopped, shutdown>>

\* ~TaskPoolExecutor destroys its members in reverse order, so _main_pool goes
\* first; each ~QueueThread sets both stop flags and joins its thread.
Destroy ==
    /\ Destroyed
    /\ shutdown = "no"
    /\ shutdown' = "main"
    /\ UNCHANGED <<task, mainQueue, subQueue, main, sub, stopped>>

Joined(pool, i) == IF pool = "main" THEN main[i].pc = "exited" ELSE sub[i].pc = "exited"

\* Threads are stopped and joined one after the other.
StopThread(pool, i) ==
    /\ shutdown = pool
    /\ <<pool, i>> \notin stopped
    /\ \A j \in PoolIdx : j < i => Joined(pool, j)
    /\ stopped' = stopped \cup {<<pool, i>>}
    /\ UNCHANGED <<task, mainQueue, subQueue, main, sub, shutdown>>

PoolDestroyed(pool) ==
    /\ shutdown = pool
    /\ \A i \in PoolIdx : Joined(pool, i)
    /\ shutdown' = IF pool = "main" THEN "sub" ELSE "done"
    /\ UNCHANGED <<task, mainQueue, subQueue, main, sub, stopped>>

-----------------------------------------------------------------------------
MainRuns(m) ==
    \/ MainCheck(m) \/ MainStart(m) \/ MainLeave(m)
    \/ MainThrows(m) \/ MainNothingToDispatch(m)
    \/ MainDispatch(m) \/ MainEnqueue(m)
    \/ MainWait(m) \/ MainWake(m)

SubRuns(s) ==
    SubCheck(s) \/ SubDequeue(s) \/ SubLeave(s) \/ SubStart(s) \/ SubFinish(s)

Destructor ==
    \E pool \in {"main", "sub"} :
        PoolDestroyed(pool) \/ \E i \in PoolIdx : StopThread(pool, i)

Next ==
    \/ \E m \in PoolIdx : MainRuns(m) \/ MainWakeSpuriously(m)
    \/ \E s \in PoolIdx : SubRuns(s)
    \/ \E t \in MainTasks : Enqueue(t) \/ ReadResult(t)
    \/ Destroy
    \/ Destructor

Spec == Init /\ [][Next]_vars

(* Every thread of the pools is scheduled, a started destructor runs on.     *)
(* The caller need not call anything and no wakeup is spurious by right.     *)
Fairness ==
    /\ \A m \in PoolIdx : WF_vars(MainRuns(m))
    /\ \A s \in PoolIdx : WF_vars(SubRuns(s))
    /\ WF_vars(Destructor)

FairSpec == Spec /\ Fairness

-----------------------------------------------------------------------------
(* Properties.                                                             *)

\* The values of the fields of the tasks, queues and threads.
TypeOK ==
    /\ task \in [Tasks -> TaskState]
    /\ mainQueue \in [PoolIdx -> Seq(MainTasks)]
    /\ subQueue \in [PoolIdx -> Seq(SubTasks)]
    /\ main \in [PoolIdx -> [pc : MainPc, job : MainTasks \cup {NoTask},
                             idx : PoolIdx, count : 0 .. PoolSize]]
    /\ sub \in [PoolIdx -> [pc : {"check", "dequeue", "lock", "run", "exited"},
                            job : SubTasks \cup {NoTask}]]
    /\ stopped \subseteq {"main", "sub"} \X PoolIdx
    /\ shutdown \in {"no", "main", "sub", "done"}

\* The places a task is in: queue slots, and threads that run it.
Slots(queue, t) ==
    UNION {{<<"slot", i, n>> : n \in {k \in DOMAIN queue[i] : queue[i][k] = t}} : i \in PoolIdx}
MainPlaces(t) ==
    Slots(mainQueue, t) \cup {<<"thread", m, 0>> : m \in {k \in PoolIdx : main[k].job = t}}
SubPlaces(t) ==
    Slots(subQueue, t) \cup {<<"thread", s, 0>> : s \in {k \in PoolIdx : sub[k].job = t}}

\* A task object is never queued twice, run by two threads, or queued while it
\* runs, although callers and main tasks reuse it and may do so too early after
\* an error: before_execution refuses it.
OnePlaceAtMost ==
    /\ \A t \in MainTasks : \A p, q \in MainPlaces(t) : p = q
    /\ \A t \in SubTasks : \A p, q \in SubPlaces(t) : p = q

\* A task is completed only while it is nowhere in the pool: what the caller
\* reads after is_completed no longer changes.
CompletedMeansOut ==
    /\ \A t \in MainTasks : task[t].completed => MainPlaces(t) = {}
    /\ \A t \in SubTasks : task[t].completed => SubPlaces(t) = {}

\* A main task that completes without an error has consumed the results of all
\* the sub tasks it dispatched: each has run, left the pool, and did not throw.
SuccessMeansAllParts ==
    [][\A m \in PoolIdx :
          /\ main[m].pc \in {"wait", "asleep"}
          /\ main'[m].job = NoTask
          /\ ~task'[main[m].job].error
          => \A k \in 0 .. main[m].count - 1 :
                LET s == <<main[m].job, k>> IN
                task[s].completed /\ ~task[s].error /\ SubPlaces(s) = {}]_vars

\* An accepted main task completes, however its sub tasks are queued, fail or are
\* woken, unless the executor is destroyed first.  It holds of the tasks that wait
\* for what they dispatched; EthBlockDecompressionTask, in WaitForAll, waits for
\* every sub task object it has, and does not complete while one was never enqueued.
AcceptedTasksComplete ==
    \A t \in MainTasks :
        (MainPlaces(t) # {}) ~> (task[t].completed \/ shutdown # "no")

\* The destructor returns: no thread is left waiting when it is joined, if the tasks
\* wait only for what they dispatched.
ShutdownEnds == (shutdown # "no") ~> (shutdown = "done")
=============================================================================
