----------------------------- MODULE ThreadPool -----------------------------
(***************************************************************************)
(* The pool of detached worker threads of thread_pool.h: a linked list of  *)
(* tasks under taskMutex, a count of busy workers under threadCountMutex,  *)
(* and a condition variable for each.  One thread at a time calls the pool *)
(* (the request handler of a Vortek context, and the connector thread once *)
(* it has joined the handler), so the model has one caller.                *)
(* A mutex is held across the steps in which its owner can block; a store, *)
(* a signal and the unlock that follows it are one step, because nobody    *)
(* else can look in between.  pthread_cond_wait may return on its own; the *)
(* spurious returns are counted and bounded.                               *)
(***************************************************************************)
EXTENDS Integers, Sequences, FiniteSets

CONSTANTS Worker,      \* the threads ThreadPool_init creates
          Caller,      \* the thread that owns the pool
          NoThread,    \* the owner of a free mutex
          MaxTasks,    \* bound: tasks given to one pool
          MaxSpurious  \* bound: returns of pthread_cond_wait without a signal

ASSUME ThreadAssumption == /\ Caller \notin Worker
                           /\ NoThread \notin Worker \cup {Caller}
                           /\ IsFiniteSet(Worker) /\ Worker # {}
ASSUME BoundAssumption  == MaxTasks \in Nat /\ MaxSpurious \in Nat

VARIABLES allocated,   \* the ThreadPool structure is allocated
          running,     \* threadPool->running
          queue,       \* the list from firstTask to lastTask
          numThreads, numThreadsWorking,
          taskMutex, countMutex,    \* their owners
          taskWaiters, idleWaiters, \* the threads asleep on the conditions
          pc,          \* where each thread is
          task,        \* the task each worker took: 0 is NULL
          submitted,   \* the last task given to ThreadPool_run
          finished, dropped,        \* the tasks run, and freed by destroy
          spurious     \* spurious returns so far

pool   == <<allocated, running, queue, numThreads, numThreadsWorking>>
sync   == <<taskMutex, countMutex, taskWaiters, idleWaiters>>
ledger == <<submitted, finished, dropped>>
vars   == <<pool, sync, pc, task, ledger, spurious>>

Thread == Worker \cup {Caller}
None   == 0
-----------------------------------------------------------------------------
Init == /\ allocated = FALSE /\ running = FALSE /\ queue = <<>>
        /\ numThreads = 0 /\ numThreadsWorking = 0
        /\ taskMutex = NoThread /\ countMutex = NoThread
        /\ taskWaiters = {} /\ idleWaiters = {}
        /\ pc = [t \in Thread |-> IF t = Caller THEN "idle" ELSE "gone"]
        /\ task = [w \in Worker |-> None]
        /\ submitted = 0 /\ finished = {} /\ dropped = {} /\ spurious = 0

Goto(t, place) == pc' = [pc EXCEPT ![t] = place]

\* Mutants: signal where destroy broadcasts, and signal nobody at all.
BroadcastToOne(waiters) == IF waiters = {} THEN {} ELSE waiters \ {CHOOSE t \in waiters : TRUE}
SignalledNobody(waiters) == {waiters}

\* pthread_cond_signal wakes one of the sleepers, if there is one.
Signalled(waiters) == IF waiters = {} THEN {{}} ELSE {waiters \ {t} : t \in waiters}

\* pthread_cond_broadcast wakes them all.
Broadcast(waiters) == {}

\* ThreadPool_init: every pthread_create is assumed to succeed.
Create ==
    /\ pc[Caller] = "idle" /\ ~allocated
    /\ allocated' = TRUE /\ running' = TRUE /\ queue' = <<>>
    /\ numThreads' = Cardinality(Worker) /\ numThreadsWorking' = 0
    /\ pc' = [t \in Thread |-> IF t = Caller THEN "idle" ELSE "loop"]
    /\ task' = [w \in Worker |-> None]
    /\ submitted' = 0 /\ finished' = {} /\ dropped' = {}
    /\ UNCHANGED <<sync, spurious>>

LockTasks(t, from, to) ==
    /\ pc[t] = from /\ taskMutex = NoThread
    /\ taskMutex' = t
    /\ Goto(t, to)
    /\ UNCHANGED <<pool, countMutex, taskWaiters, idleWaiters, task, ledger, spurious>>

LockCounts(t, from, to) ==
    /\ pc[t] = from /\ countMutex = NoThread
    /\ countMutex' = t
    /\ Goto(t, to)
    /\ UNCHANGED <<pool, taskMutex, taskWaiters, idleWaiters, task, ledger, spurious>>
-----------------------------------------------------------------------------
\* ThreadPool_run, called and then inside taskMutex.
CallRun == /\ pc[Caller] = "idle" /\ allocated /\ submitted < MaxTasks
           /\ Goto(Caller, "run:lock")
           /\ UNCHANGED <<pool, sync, task, ledger, spurious>>

AppendTask ==
    /\ pc[Caller] = "run:append"
    /\ submitted' = submitted + 1
    /\ queue' = Append(queue, submitted')
    /\ taskWaiters' \in Signalled(taskWaiters)
    /\ taskMutex' = NoThread
    /\ Goto(Caller, "idle")
    /\ UNCHANGED <<allocated, running, numThreads, numThreadsWorking, countMutex,
                   idleWaiters, task, finished, dropped, spurious>>

\* ThreadPool_wait, called by BCDecoder_decode and by ThreadPool_destroy.
CallWait == /\ pc[Caller] = "idle" /\ allocated
            /\ Goto(Caller, "wait:lock")
            /\ UNCHANGED <<pool, sync, task, ledger, spurious>>

\* Mutants: a wait that forgets the workers, or the task they are running.
BusyForgetsThreads == queue # <<>> \/ numThreadsWorking > 0
BusyForgetsRunning == (~running /\ numThreads > 0) \/ queue # <<>>

\* The condition under which ThreadPool_wait goes on waiting.
Busy == \/ ~running /\ numThreads > 0
        \/ queue # <<>>
        \/ numThreadsWorking > 0

WaitSleeps ==
    /\ pc[Caller] = "wait:test" /\ Busy
    /\ idleWaiters' = idleWaiters \cup {Caller}
    /\ countMutex' = NoThread
    /\ Goto(Caller, "wait:asleep")
    /\ UNCHANGED <<pool, taskMutex, taskWaiters, task, ledger, spurious>>

\* It returns to its caller; after destroy's call the pool is freed.
WaitReturns ==
    /\ pc[Caller] = "wait:test" /\ ~Busy
    /\ countMutex' = NoThread
    /\ Goto(Caller, IF running THEN "idle" ELSE "destroy:free")
    /\ UNCHANGED <<pool, taskMutex, taskWaiters, idleWaiters, task, ledger, spurious>>

\* ThreadPool_destroy: the tasks nobody took are freed, the workers told to end.
CallDestroy == /\ pc[Caller] = "idle" /\ allocated
               /\ Goto(Caller, "destroy:lock")
               /\ UNCHANGED <<pool, sync, task, ledger, spurious>>

StopWorkers ==
    /\ pc[Caller] = "destroy:stop"
    /\ dropped' = {queue[i] : i \in DOMAIN queue}
    /\ queue' = <<>>
    /\ running' = FALSE
    /\ taskWaiters' = Broadcast(taskWaiters)
    /\ taskMutex' = NoThread
    /\ Goto(Caller, "wait:lock")
    /\ UNCHANGED <<allocated, numThreads, numThreadsWorking, countMutex, idleWaiters,
                   task, submitted, finished, spurious>>

Free == /\ pc[Caller] = "destroy:free"
        /\ allocated' = FALSE
        /\ Goto(Caller, "idle")
        /\ UNCHANGED <<running, queue, numThreads, numThreadsWorking, sync, task,
                       ledger, spurious>>

\* A sleeping caller comes back to its test with the mutex.
CallerWakes == /\ pc[Caller] = "wait:asleep" /\ Caller \notin idleWaiters
               /\ LockCounts(Caller, "wait:asleep", "wait:test")

CallerStep == \/ LockTasks(Caller, "run:lock", "run:append") \/ AppendTask
              \/ LockCounts(Caller, "wait:lock", "wait:test")
              \/ WaitSleeps \/ WaitReturns \/ CallerWakes
              \/ LockTasks(Caller, "destroy:lock", "destroy:stop")
              \/ StopWorkers \/ Free
-----------------------------------------------------------------------------
\* threadPoolWorker: the outer loop reads running without a lock.
Loop(w) ==
    /\ pc[w] = "loop"
    /\ Goto(w, IF running THEN "lock" ELSE "exit:lock")
    /\ UNCHANGED <<pool, sync, task, ledger, spurious>>

NothingToDo == queue = <<>> /\ running

Sleep(w) ==
    /\ pc[w] = "test" /\ NothingToDo
    /\ taskWaiters' = taskWaiters \cup {w}
    /\ taskMutex' = NoThread
    /\ Goto(w, "asleep")
    /\ UNCHANGED <<pool, countMutex, idleWaiters, task, ledger, spurious>>

Wakes(w) == /\ pc[w] = "asleep" /\ w \notin taskWaiters
            /\ LockTasks(w, "asleep", "test")

\* Still inside taskMutex, it takes threadCountMutex too.
LeaveTest(w) == ~NothingToDo /\ LockCounts(w, "test", "take")

\* Mutants: a list whose last task is never unlinked, and a worker that counts
\* itself busy only when it found a task.
KeepsLastTask == IF Len(queue) <= 1 THEN queue ELSE Tail(queue)
CountsTasks   == IF queue = <<>> THEN numThreadsWorking ELSE numThreadsWorking + 1

\* ThreadPool_getTask unlinks the first task, and Take counts its worker.
FirstTask  == IF queue = <<>> THEN None ELSE Head(queue)
OtherTasks == IF queue = <<>> THEN queue ELSE Tail(queue)
OneMoreBusy == numThreadsWorking + 1

\* It counts itself busy and takes the first task, if there is one: both
\* under threadCountMutex, so ThreadPool_wait sees the one with the other.
Take(w) ==
    /\ pc[w] = "take"
    /\ numThreadsWorking' = OneMoreBusy
    /\ task' = [task EXCEPT ![w] = FirstTask]
    /\ queue' = OtherTasks
    /\ countMutex' = NoThread
    /\ Goto(w, "unlock")
    /\ UNCHANGED <<allocated, running, numThreads, taskMutex, taskWaiters, idleWaiters,
                   ledger, spurious>>

UnlockTasks(w) ==
    /\ pc[w] = "unlock"
    /\ taskMutex' = NoThread
    /\ Goto(w, IF task[w] = None THEN "leave:lock" ELSE "run")
    /\ UNCHANGED <<pool, countMutex, taskWaiters, idleWaiters, task, ledger, spurious>>

\* The task's function returns and the task is freed.
RunTask(w) ==
    /\ pc[w] = "run"
    /\ finished' = finished \cup {task[w]}
    /\ task' = [task EXCEPT ![w] = None]
    /\ Goto(w, "leave:lock")
    /\ UNCHANGED <<pool, sync, submitted, dropped, spurious>>

Leave(w) ==
    /\ pc[w] = "leave"
    /\ numThreadsWorking' = numThreadsWorking - 1
    /\ IF numThreadsWorking' = 0 THEN idleWaiters' \in Signalled(idleWaiters)
                                 ELSE UNCHANGED idleWaiters
    /\ countMutex' = NoThread
    /\ Goto(w, "loop")
    /\ UNCHANGED <<allocated, running, queue, numThreads, taskMutex, taskWaiters, task,
                   ledger, spurious>>

\* The last thing a worker does with the pool.
Exit(w) ==
    /\ pc[w] = "exit"
    /\ numThreads' = numThreads - 1
    /\ idleWaiters' \in Signalled(idleWaiters)
    /\ countMutex' = NoThread
    /\ Goto(w, "gone")
    /\ UNCHANGED <<allocated, running, queue, numThreadsWorking, taskMutex, taskWaiters,
                   task, ledger, spurious>>

WorkerStep(w) == \/ Loop(w)
                 \/ LockTasks(w, "lock", "test") \/ Sleep(w) \/ Wakes(w)
                 \/ LeaveTest(w) \/ Take(w) \/ UnlockTasks(w)
                 \/ RunTask(w)
                 \/ LockCounts(w, "leave:lock", "leave") \/ Leave(w)
                 \/ LockCounts(w, "exit:lock", "exit") \/ Exit(w)

\* pthread_cond_wait returns although nobody signalled.
SpuriousWakeup(t) ==
    /\ t \in taskWaiters \cup idleWaiters /\ spurious < MaxSpurious
    /\ taskWaiters' = taskWaiters \ {t}
    /\ idleWaiters' = idleWaiters \ {t}
    /\ spurious' = spurious + 1
    /\ UNCHANGED <<pool, taskMutex, countMutex, pc, task, ledger>>
-----------------------------------------------------------------------------
Next == \/ Create \/ CallRun \/ CallWait \/ CallDestroy
        \/ CallerStep
        \/ \E w \in Worker : WorkerStep(w)
        \/ \E t \in Thread : SpuriousWakeup(t)

Spec == Init /\ [][Next]_vars

\* Every thread inside the pool's code is scheduled, and every task returns.
\* Nothing makes the caller call.
Fairness == WF_vars(CallerStep) /\ \A w \in Worker : WF_vars(WorkerStep(w))

FairSpec == Spec /\ Fairness
-----------------------------------------------------------------------------
CallerPlaces == {"idle", "run:lock", "run:append", "wait:lock", "wait:test", "wait:asleep",
                 "destroy:lock", "destroy:stop", "destroy:free"}
WorkerPlaces == {"loop", "lock", "test", "asleep", "take", "unlock", "run", "leave:lock",
                 "leave", "exit:lock", "exit", "gone"}

\* Every variable has its type.
TypeOK ==
    /\ allocated \in BOOLEAN /\ running \in BOOLEAN
    /\ queue \in Seq(1 .. MaxTasks)
    /\ numThreads \in 0 .. Cardinality(Worker)
    /\ numThreadsWorking \in 0 .. Cardinality(Worker)
    /\ taskMutex \in Thread \cup {NoThread} /\ countMutex \in Thread \cup {NoThread}
    /\ taskWaiters \subseteq Worker /\ idleWaiters \subseteq {Caller}
    /\ pc \in [Thread -> CallerPlaces \cup WorkerPlaces]
    /\ pc[Caller] \in CallerPlaces /\ \A w \in Worker : pc[w] \in WorkerPlaces
    /\ task \in [Worker -> 0 .. MaxTasks]
    /\ submitted \in 0 .. MaxTasks
    /\ finished \subseteq 1 .. MaxTasks /\ dropped \subseteq 1 .. MaxTasks
    /\ spurious \in 0 .. MaxSpurious

\* A worker that is not gone will touch the pool again, so the pool may only
\* be freed when all of them are gone.
NoUseAfterFree == ~allocated => \A w \in Worker : pc[w] = "gone"

\* The pool's state is well typed, and its counts are exact whatever the
\* interleaving: the busy count is the number of workers between Take and
\* Leave, the other that of the workers not gone (ThreadPool_threadLoop).
Working(w) == pc[w] \in {"unlock", "run", "leave:lock", "leave"}
CountsExact ==
    /\ TypeOK
    /\ numThreadsWorking = Cardinality({w \in Worker : Working(w)})
    /\ numThreads = Cardinality({w \in Worker : pc[w] # "gone"})

\* No task is lost, run twice or run out of turn: the tasks given to the pool
\* are, in order, those taken and then those queued or freed by destroy.
Taken == finished \cup {task[w] : w \in {v \in Worker : task[v] # None}}
EveryTaskOnce ==
    /\ \A w \in Worker : task[w] \notin finished
    /\ \A v, w \in Worker : v # w /\ task[v] # None => task[v] # task[w]
    /\ Taken = 1 .. Cardinality(Taken)
    /\ dropped = {} => queue = [i \in 1 .. Len(queue) |-> Cardinality(Taken) + i]
    /\ Cardinality(Taken) + Len(queue) + Cardinality(dropped) = submitted

\* ThreadPool_wait is a barrier: when it returns, every task given to the pool
\* has run or was freed, so BCDecoder_decode may free the tasks' parameters.
WaitIsBarrier ==
    [][pc[Caller] = "wait:test" /\ pc'[Caller] \in {"idle", "destroy:free"}
         => finished \cup dropped = 1 .. submitted]_vars

\* Wait and destroy return: no wake-up is lost between the two conditions.
CallsReturn == pc[Caller] # "idle" ~> pc[Caller] = "idle"

\* A task given to the pool is run unless the pool is destroyed first.
TasksRun ==
    \A i \in 1 .. MaxTasks : (allocated /\ submitted >= i) ~> (i \in finished \cup dropped \/ ~allocated)
=============================================================================
