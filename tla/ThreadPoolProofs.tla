-------------------------- MODULE ThreadPoolProofs --------------------------
(***************************************************************************)
(* Theorems about ThreadPool for any finite set of workers, any number of  *)
(* tasks and of spurious returns: the counts are exact, no task is lost or *)
(* run twice or out of turn, the pool is freed only when no worker will    *)
(* touch it again, and ThreadPool_wait is a barrier.                       *)
(***************************************************************************)
EXTENDS ThreadPool, FiniteSetTheorems, TLAPS

\* The places inside a critical section of either mutex.
TaskHeld  == {"run:append", "destroy:stop", "test", "take", "unlock"}
CountHeld == {"wait:test", "take", "leave", "exit"}

\* A mutex is owned by the one thread that is inside of its sections.
Locks ==
    \A t \in Thread : /\ pc[t] \in TaskHeld <=> taskMutex = t
                      /\ pc[t] \in CountHeld <=> countMutex = t

\* Who waits on a condition is asleep.
Sleepers ==
    /\ \A w \in taskWaiters : pc[w] = "asleep"
    /\ Caller \in idleWaiters => pc[Caller] = "wait:asleep"

\* Which calls are possible in the life of a pool: after destroy has told the
\* workers to end, only its own wait is left, and free comes after the last one.
Lifetime ==
    /\ ~allocated => pc[Caller] = "idle" /\ \A w \in Worker : pc[w] = "gone"
    /\ pc[Caller] = "destroy:free" => \A w \in Worker : pc[w] = "gone"
    /\ allocated /\ pc[Caller] \in {"idle", "run:lock", "run:append",
                                    "destroy:lock", "destroy:stop"} => running
    /\ pc[Caller] \in {"run:lock", "run:append"} => submitted < MaxTasks

\* The sets that the two counts count.
BusyWorkers == {w \in Worker : Working(w)}
Alive       == {w \in Worker : pc[w] # "gone"}
Counts == /\ numThreadsWorking = Cardinality(BusyWorkers)
          /\ numThreads = Cardinality(Alive)

\* A worker has a task from Take until its function returns.
Holding ==
    \A w \in Worker :
      /\ task[w] # None => pc[w] \in {"unlock", "run"} /\ task[w] \notin finished
      /\ pc[w] = "run" => task[w] # None
      /\ \A v \in Worker : v # w /\ task[v] # None => task[v] # task[w]

\* The numbers of the tasks in q go up from k + 1.
RunsFrom(q, k) == q = [i \in 1 .. Len(q) |-> k + i]

\* The tasks are, in order, those taken, those queued and those dropped.
InTurn(k) == /\ Taken = 1 .. k
             /\ RunsFrom(queue, k)
             /\ k + Len(queue) <= submitted
             /\ dropped = k + Len(queue) + 1 .. submitted
Order == /\ \E k \in Nat : InTurn(k)
         /\ dropped # {} => queue = <<>>
         /\ allocated /\ running => dropped = {}

\* The inductive invariant.
IInv == TypeOK /\ Locks /\ Sleepers /\ Lifetime /\ Counts /\ Holding /\ Order
-----------------------------------------------------------------------------
LEMMA Threads == /\ Caller \in Thread /\ Worker \subseteq Thread /\ Caller \notin Worker
                 /\ NoThread \notin Thread
  BY ThreadAssumption DEF Thread

\* A set of workers has no more members than Worker.
LEMMA WorkersAreFew ==
    ASSUME NEW S \in SUBSET Worker
    PROVE  IsFiniteSet(S) /\ Cardinality(S) \in 0 .. Cardinality(Worker)
  BY ThreadAssumption, FS_Subset, FS_CardinalityType

\* The counts stay exact when no worker becomes busy, idle or gone.
LEMMA CountsUntouched ==
    ASSUME Counts, UNCHANGED <<numThreads, numThreadsWorking>>,
           \A w \in Worker : (Working(w)' <=> Working(w)) /\ (pc'[w] = "gone" <=> pc[w] = "gone")
    PROVE  Counts'
<1>1. BusyWorkers' = BusyWorkers /\ Alive' = Alive
  BY DEF BusyWorkers, Alive
<1> QED BY <1>1 DEF Counts

\* The elements of a sequence over S, its head and its tail.
LEMMA SeqParts ==
    ASSUME NEW S, NEW q \in Seq(S)
    PROVE  /\ \A i \in DOMAIN q : q[i] \in S
           /\ q # <<>> => Head(q) \in S /\ Tail(q) \in Seq(S)
  OBVIOUS

\* What a run of numbers becomes when its first task is taken, or one is added.
LEMMA TailOfRun ==
    ASSUME NEW k \in Nat, NEW q \in Seq(Nat), q # <<>>, RunsFrom(q, k)
    PROVE  Head(q) = k + 1 /\ Len(Tail(q)) = Len(q) - 1 /\ RunsFrom(Tail(q), k + 1)
<1>1. Len(q) \in Nat /\ Len(q) > 0 /\ Tail(q) \in Seq(Nat) /\ Len(Tail(q)) = Len(q) - 1
  OBVIOUS
<1>2. \A i \in 1 .. Len(q) : q[i] = k + i
  BY DEF RunsFrom
<1>3. \A i \in 1 .. Len(Tail(q)) : Tail(q)[i] = k + 1 + i
  BY <1>1, <1>2
<1>4. Tail(q) = [i \in 1 .. Len(Tail(q)) |-> k + 1 + i]
  <2>1. \A r \in Seq(Nat) : (\A i \in 1 .. Len(r) : r[i] = k + 1 + i)
                             => r = [i \in 1 .. Len(r) |-> k + 1 + i]
    OBVIOUS
  <2> QED BY <1>1, <1>3, <2>1
<1> QED BY <1>1, <1>2, <1>4 DEF RunsFrom

LEMMA AppendToRun ==
    ASSUME NEW k \in Nat, NEW q \in Seq(Nat), RunsFrom(q, k)
    PROVE  /\ Len(Append(q, k + Len(q) + 1)) = Len(q) + 1
           /\ RunsFrom(Append(q, k + Len(q) + 1), k)
<1> DEFINE r == Append(q, k + Len(q) + 1)
<1>1. Len(q) \in Nat /\ r \in Seq(Nat) /\ Len(r) = Len(q) + 1
  OBVIOUS
<1>2. \A i \in 1 .. Len(q) : q[i] = k + i
  BY DEF RunsFrom
<1>3. \A i \in 1 .. Len(r) : r[i] = k + i
  BY <1>1, <1>2
<1>4. r = [i \in 1 .. Len(r) |-> k + i]
  <2> HIDE DEF r
  <2> QED BY <1>1, <1>3
<1> QED BY <1>1, <1>4 DEF RunsFrom

LEMMA InitIInv == Init => IInv
<1> SUFFICES ASSUME Init PROVE IInv
  OBVIOUS
<1> USE Threads DEF Init
<1>1. allocated \in BOOLEAN /\ running \in BOOLEAN
  OBVIOUS
<1>2. Cardinality(Worker) \in Nat
  BY ThreadAssumption, FS_CardinalityType
<1>3. pc[Caller] = "idle" /\ \A w \in Worker : pc[w] = "gone"
  OBVIOUS
<1>4. pc \in [Thread -> CallerPlaces \cup WorkerPlaces]
  BY DEF CallerPlaces, WorkerPlaces
<1>5. TypeOK
  BY <1>1, <1>2, <1>3, <1>4, BoundAssumption DEF TypeOK, CallerPlaces, WorkerPlaces, None
<1>6. Locks
  BY <1>3 DEF Locks, Thread, TaskHeld, CountHeld
<1>7. Sleepers /\ Lifetime /\ Holding
  BY <1>3 DEF Sleepers, Lifetime, Holding, None
<1>8. Counts
  <2>1. BusyWorkers = {} /\ Alive = {}
    BY <1>3 DEF BusyWorkers, Working, Alive
  <2> QED BY <2>1, FS_EmptySet DEF Counts
<1>9. Order
  <2>1. Taken = 1 .. 0
    BY DEF Taken, None
  <2>2. InTurn(0)
    BY <2>1 DEF InTurn, RunsFrom
  <2> QED BY <2>2 DEF Order
<1> QED BY <1>5, <1>6, <1>7, <1>8, <1>9 DEF IInv
-----------------------------------------------------------------------------
\* A step that neither gives nor takes nor drops a task keeps their order.
LEMMA OrderUntouched ==
    ASSUME Order, UNCHANGED <<queue, task, ledger>>, allocated' /\ running' => allocated /\ running
    PROVE  Order'
<1>1. Taken' = Taken
  BY DEF Taken, ledger
<1>2. PICK k \in Nat : InTurn(k)
  BY DEF Order
<1>3. InTurn(k)'
  BY <1>1, <1>2 DEF InTurn, RunsFrom, ledger
<1> QED BY <1>3 DEF Order, ledger

\* Locking taskMutex.
LEMMA LockTasksKeepsIInv ==
    ASSUME IInv, NEW t \in Thread, NEW from, NEW to, LockTasks(t, from, to),
           \/ t = Caller /\ from = "run:lock" /\ to = "run:append"
           \/ t = Caller /\ from = "destroy:lock" /\ to = "destroy:stop"
           \/ t \in Worker /\ from = "lock" /\ to = "test"
           \/ t \in Worker /\ from = "asleep" /\ to = "test" /\ t \notin taskWaiters
    PROVE  IInv'
<1> USE Threads DEF IInv, LockTasks, Goto, pool, ledger
<1>1. TypeOK'
  BY DEF TypeOK, CallerPlaces, WorkerPlaces
<1>2. Locks'
  BY DEF Locks, TaskHeld, CountHeld, TypeOK
<1>3. Sleepers' /\ Lifetime' /\ Holding'
  BY DEF Sleepers, Lifetime, Holding, TypeOK
<1>4. Counts'
  BY CountsUntouched DEF Working, TypeOK
<1>5. Order'
  BY OrderUntouched
<1> QED BY <1>1, <1>2, <1>3, <1>4, <1>5

\* Locking threadCountMutex.
LEMMA LockCountsKeepsIInv ==
    ASSUME IInv, NEW t \in Thread, NEW from, NEW to, LockCounts(t, from, to),
           \/ t = Caller /\ from = "wait:lock" /\ to = "wait:test"
           \/ t = Caller /\ from = "wait:asleep" /\ to = "wait:test" /\ t \notin idleWaiters
           \/ t \in Worker /\ from = "test" /\ to = "take"
           \/ t \in Worker /\ from = "leave:lock" /\ to = "leave"
           \/ t \in Worker /\ from = "exit:lock" /\ to = "exit"
    PROVE  IInv'
<1> USE Threads DEF IInv, LockCounts, Goto, pool, ledger
<1>1. TypeOK'
  BY DEF TypeOK, CallerPlaces, WorkerPlaces
<1>2. Locks'
  BY DEF Locks, TaskHeld, CountHeld, TypeOK
<1>3. Sleepers' /\ Lifetime' /\ Holding'
  BY DEF Sleepers, Lifetime, Holding, TypeOK
<1>4. Counts'
  BY CountsUntouched DEF Working, TypeOK
<1>5. Order'
  BY OrderUntouched
<1> QED BY <1>1, <1>2, <1>3, <1>4, <1>5

\* ThreadPool_init.
LEMMA CreateKeepsIInv ==
    ASSUME IInv, Create
    PROVE  IInv'
<1> USE Threads DEF IInv, Create, sync
<1>1. Cardinality(Worker) \in Nat
  BY ThreadAssumption, FS_CardinalityType
<1>2. pc'[Caller] = "idle" /\ \A w \in Worker : pc'[w] = "loop"
  OBVIOUS
<1>3. TypeOK'
  <2>1. pc' \in [Thread -> CallerPlaces \cup WorkerPlaces]
    BY DEF CallerPlaces, WorkerPlaces
  <2>2. allocated' \in BOOLEAN /\ running' \in BOOLEAN
    OBVIOUS
  <2> QED BY <1>1, <1>2, <2>1, <2>2, BoundAssumption
          DEF TypeOK, CallerPlaces, WorkerPlaces, None
<1>4. Locks' /\ Sleepers'
  <2>1. \A t \in Thread : pc[t] \notin TaskHeld /\ pc[t] \notin CountHeld
                          /\ pc[t] # "asleep" /\ pc[t] # "wait:asleep"
    BY DEF Lifetime, Thread, TaskHeld, CountHeld
  <2>2. \A t \in Thread : pc'[t] \notin TaskHeld /\ pc'[t] \notin CountHeld
    BY <1>2 DEF Thread, TaskHeld, CountHeld
  <2>3. taskWaiters = {} /\ Caller \notin idleWaiters
    BY <2>1 DEF Sleepers, TypeOK
  <2> QED BY <2>1, <2>2, <2>3 DEF Locks, Sleepers
<1>5. Lifetime' /\ Holding'
  BY <1>2 DEF Lifetime, Holding, None
<1>6. Counts'
  <2>1. BusyWorkers' = {} /\ Alive' = Worker
    BY <1>2 DEF BusyWorkers, Working, Alive
  <2> QED BY <2>1, FS_EmptySet DEF Counts
<1>7. Order'
  <2>1. Taken' = 1 .. 0
    BY DEF Taken, None
  <2>2. InTurn(0)'
    BY <2>1 DEF InTurn, RunsFrom
  <2> QED BY <2>2 DEF Order
<1> QED BY <1>3, <1>4, <1>5, <1>6, <1>7

\* The other steps of the caller that leave the tasks alone.
LEMMA CallerMovesKeepsIInv ==
    ASSUME IInv, CallRun \/ CallWait \/ CallDestroy \/ WaitSleeps \/ Free
    PROVE  IInv'
<1> USE Threads DEF IInv, CallRun, CallWait, CallDestroy, WaitSleeps, Free, Goto, pool, sync,
                    ledger
<1>1. TypeOK'
  BY DEF TypeOK, CallerPlaces, WorkerPlaces
<1>2. Locks'
  BY DEF Locks, TaskHeld, CountHeld, TypeOK
<1>3. Sleepers' /\ Lifetime' /\ Holding'
  BY DEF Sleepers, Lifetime, Holding, TypeOK
<1>4. Counts'
  BY CountsUntouched DEF Working, TypeOK
<1>5. Order'
  BY OrderUntouched
<1> QED BY <1>1, <1>2, <1>3, <1>4, <1>5

\* When ThreadPool_wait has nothing to wait for, no worker is busy and, if the
\* pool is being destroyed, none is left.
LEMMA NotBusy ==
    ASSUME IInv, ~Busy
    PROVE  /\ queue = <<>> /\ BusyWorkers = {}
           /\ running \/ Alive = {}
<1>1. numThreadsWorking \in Nat /\ numThreads \in Nat
  BY WorkersAreFew DEF IInv, Counts, BusyWorkers, Alive
<1>2. numThreadsWorking = 0 /\ (running \/ numThreads = 0) /\ queue = <<>>
  BY <1>1 DEF Busy
<1>3. IsFiniteSet(BusyWorkers) /\ IsFiniteSet(Alive)
  BY WorkersAreFew DEF BusyWorkers, Alive
<1> QED BY <1>2, <1>3, FS_EmptySet DEF IInv, Counts

LEMMA WaitReturnsKeepsIInv ==
    ASSUME IInv, WaitReturns
    PROVE  IInv'
<1> USE Threads DEF IInv, WaitReturns, Goto, pool, ledger
<1>1. TypeOK'
  BY DEF TypeOK, CallerPlaces, WorkerPlaces
<1>2. Locks'
  BY DEF Locks, TaskHeld, CountHeld, TypeOK
<1>3. ~running => \A w \in Worker : pc[w] = "gone"
  BY NotBusy DEF Alive
<1>4. Sleepers' /\ Lifetime' /\ Holding'
  BY <1>3 DEF Sleepers, Lifetime, Holding, TypeOK
<1>5. Counts'
  BY CountsUntouched DEF Working, TypeOK
<1>6. Order'
  BY OrderUntouched
<1> QED BY <1>1, <1>2, <1>4, <1>5, <1>6

\* pthread_cond_signal wakes at most one of those asleep.
LEMMA SignalledFew ==
    ASSUME NEW S, NEW T \in Signalled(S)
    PROVE  T \subseteq S
  BY DEF Signalled

\* ThreadPool_run, inside taskMutex.
LEMMA AppendTaskKeepsIInv ==
    ASSUME IInv, AppendTask
    PROVE  IInv'
<1> USE Threads DEF IInv, AppendTask, Goto
<1>1. taskWaiters' \subseteq taskWaiters
  BY SignalledFew
<1>2. submitted \in 0 .. MaxTasks - 1 /\ dropped = {}
  BY BoundAssumption DEF Lifetime, Order, TypeOK
<1>3. TypeOK'
  <2>1. queue' \in Seq(1 .. MaxTasks)
    <3>1. submitted' \in 1 .. MaxTasks
      BY <1>2, BoundAssumption
    <3> QED BY <3>1 DEF TypeOK
  <2> QED BY <1>1, <1>2, <2>1 DEF TypeOK, CallerPlaces, WorkerPlaces
<1>4. Locks'
  BY DEF Locks, TaskHeld, CountHeld, TypeOK
<1>5. Sleepers' /\ Lifetime' /\ Holding'
  BY <1>1 DEF Sleepers, Lifetime, Holding, TypeOK
<1>6. Counts'
  BY CountsUntouched DEF Working, TypeOK
<1>7. Order'
  <2>1. PICK k \in Nat : InTurn(k)
    BY DEF Order
  <2>2. queue \in Seq(Nat) /\ Len(queue) \in Nat
    BY BoundAssumption DEF TypeOK
  <2>3. k + Len(queue) = submitted
    BY <1>2, <2>1, <2>2 DEF InTurn
  <2>4. RunsFrom(queue', k) /\ Len(queue') = Len(queue) + 1
    BY <2>1, <2>2, <2>3, AppendToRun DEF InTurn
  <2>5. Taken' = Taken
    BY DEF Taken
  <2>6. InTurn(k)'
    BY <1>2, <2>1, <2>2, <2>3, <2>4, <2>5 DEF InTurn, RunsFrom
  <2> QED BY <1>2, <2>6 DEF Order
<1> QED BY <1>3, <1>4, <1>5, <1>6, <1>7

\* ThreadPool_destroy, inside taskMutex.
LEMMA StopWorkersKeepsIInv ==
    ASSUME IInv, StopWorkers
    PROVE  IInv'
<1> USE Threads DEF IInv, StopWorkers, Goto, Broadcast
<1>1. TypeOK'
  <2>1. dropped' \subseteq 1 .. MaxTasks
    <3>1. queue \in Seq(1 .. MaxTasks)
      BY DEF TypeOK
    <3> QED BY <3>1, SeqParts
  <2>2. running' \in BOOLEAN
    OBVIOUS
  <2> QED BY <2>1, <2>2 DEF TypeOK, CallerPlaces, WorkerPlaces
<1>2. Locks'
  BY DEF Locks, TaskHeld, CountHeld, TypeOK
<1>3. Sleepers' /\ Lifetime' /\ Holding'
  BY DEF Sleepers, Lifetime, Holding, TypeOK
<1>4. Counts'
  BY CountsUntouched DEF Working, TypeOK
<1>5. Order'
  <2>1. PICK k \in Nat : InTurn(k)
    BY DEF Order
  <2>2. Len(queue) \in Nat /\ DOMAIN queue = 1 .. Len(queue) /\ submitted \in Nat
    BY BoundAssumption DEF TypeOK
  <2>3. k + Len(queue) = submitted
    <3>1. dropped = {}
      BY DEF Order, Lifetime
    <3> QED BY <2>1, <2>2, <3>1 DEF InTurn
  <2>4. \A i \in DOMAIN queue : queue[i] = k + i
    BY <2>1, <2>2 DEF InTurn, RunsFrom
  <2>5. dropped' = k + 1 .. submitted
    <3>1. \A n \in dropped' : n \in k + 1 .. submitted
      BY <2>2, <2>3, <2>4
    <3>2. ASSUME NEW n \in k + 1 .. submitted PROVE n \in dropped'
      <4>1. n - k \in DOMAIN queue /\ n = k + (n - k)
        BY <2>2, <2>3
      <4> QED BY <2>4, <4>1
    <3> QED BY <3>1, <3>2
  <2>6. Taken' = Taken
    BY DEF Taken
  <2>7. InTurn(k)'
    BY <2>1, <2>2, <2>3, <2>5, <2>6 DEF InTurn, RunsFrom
  <2> QED BY <2>7 DEF Order
<1> QED BY <1>1, <1>2, <1>3, <1>4, <1>5

\* The steps of a worker that touch neither the counts nor the tasks.
LEMMA WorkerMovesKeepsIInv ==
    ASSUME IInv, NEW w \in Worker, Loop(w) \/ Sleep(w) \/ UnlockTasks(w)
    PROVE  IInv'
<1> USE Threads DEF IInv, Loop, Sleep, UnlockTasks, Goto, pool, sync, ledger
<1>1. TypeOK'
  BY DEF TypeOK, CallerPlaces, WorkerPlaces
<1>2. Locks'
  BY DEF Locks, TaskHeld, CountHeld, TypeOK
<1>3. Sleepers' /\ Lifetime' /\ Holding'
  BY DEF Sleepers, Lifetime, Holding, TypeOK
<1>4. Counts'
  BY CountsUntouched DEF Working, TypeOK
<1>5. Order'
  BY OrderUntouched
<1> QED BY <1>1, <1>2, <1>3, <1>4, <1>5

\* A worker in Take is not busy yet and has no task; the first task is in no
\* other hands.
LEMMA TakeKeepsIInv ==
    ASSUME IInv, NEW w \in Worker, Take(w)
    PROVE  IInv'
<1> USE Threads DEF IInv, None
<1>1. /\ pc[w] = "take" /\ countMutex' = NoThread
      /\ numThreadsWorking' = numThreadsWorking + 1
      /\ task' = [task EXCEPT ![w] = FirstTask] /\ queue' = OtherTasks
      /\ UNCHANGED <<allocated, running, numThreads, taskMutex, taskWaiters, idleWaiters,
                     submitted, finished, dropped, spurious>>
  BY DEF Take, OneMoreBusy, ledger
<1>2. /\ pc' \in [Thread -> CallerPlaces \cup WorkerPlaces]
      /\ pc'[w] = "unlock" /\ \A t \in Thread \ {w} : pc'[t] = pc[t]
  BY DEF Take, Goto, TypeOK, WorkerPlaces
<1>3. task[w] = 0
  BY <1>1 DEF Holding
<1>4. Counts'
  <2>1. BusyWorkers' = BusyWorkers \cup {w} /\ w \notin BusyWorkers /\ Alive' = Alive
    BY <1>1, <1>2 DEF BusyWorkers, Working, Alive
  <2>2. Cardinality(BusyWorkers') = Cardinality(BusyWorkers) + 1
    BY <2>1, WorkersAreFew, FS_AddElement DEF BusyWorkers
  <2> QED BY <1>1, <2>1, <2>2 DEF Counts
<1>5. PICK k \in Nat : InTurn(k)
  BY DEF Order
<1>6. queue \in Seq(Nat) /\ submitted \in Nat /\ Len(queue) \in Nat
  BY BoundAssumption DEF TypeOK
<1>7. \/ queue' = queue /\ task' = task
      \/ /\ queue # <<>> /\ Len(queue') = Len(queue) - 1 /\ RunsFrom(queue', k + 1)
         /\ queue' \in Seq(1 .. MaxTasks) /\ k + 1 \in 1 .. MaxTasks
         /\ task' = [task EXCEPT ![w] = k + 1]
  <2>1. CASE queue = <<>>
    BY <1>1, <1>3, <2>1 DEF FirstTask, OtherTasks, TypeOK
  <2>2. CASE queue # <<>>
    <3>1. queue' = Tail(queue) /\ task' = [task EXCEPT ![w] = Head(queue)]
      BY <1>1, <2>2 DEF FirstTask, OtherTasks
    <3>2. queue \in Seq(1 .. MaxTasks)
      BY DEF TypeOK
    <3>3. Head(queue) \in 1 .. MaxTasks /\ queue' \in Seq(1 .. MaxTasks)
      BY <2>2, <3>1, <3>2, SeqParts
    <3>4. RunsFrom(queue, k)
      BY <1>5 DEF InTurn
    <3>5. Head(queue) = k + 1 /\ Len(Tail(queue)) = Len(queue) - 1
          /\ RunsFrom(Tail(queue), k + 1)
      BY <1>5, <1>6, <2>2, <3>4, TailOfRun
    <3> QED BY <2>2, <3>1, <3>3, <3>5
  <2> QED BY <2>1, <2>2
<1>8. TypeOK'
  <2>1. queue' \in Seq(1 .. MaxTasks)
    BY <1>7 DEF TypeOK
  <2>2. task' \in [Worker -> 0 .. MaxTasks]
    <3>1. \A n \in 1 .. MaxTasks : n \in 0 .. MaxTasks
      BY BoundAssumption
    <3> QED BY <1>7, <3>1 DEF TypeOK
  <2>3. numThreadsWorking' \in 0 .. Cardinality(Worker)
    BY <1>4, WorkersAreFew DEF Counts, BusyWorkers
  <2>4. pc'[Caller] \in CallerPlaces /\ \A v \in Worker : pc'[v] \in WorkerPlaces
    BY <1>2 DEF TypeOK, WorkerPlaces
  <2> QED BY <1>1, <1>2, <2>1, <2>2, <2>3, <2>4 DEF TypeOK
<1>9. Locks'
  BY <1>1, <1>2 DEF Locks, TaskHeld, CountHeld
<1>10. Sleepers'
  BY <1>1, <1>2 DEF Sleepers, TypeOK
<1>11. Lifetime'
  BY <1>1, <1>2 DEF Lifetime
<1>12. CASE task' = task /\ queue' = queue
  <2>1. Holding'
    BY <1>1, <1>2, <1>12 DEF Holding
  <2>2. Order'
    BY <1>1, <1>12, OrderUntouched DEF ledger
  <2> QED BY <1>4, <1>8, <1>9, <1>10, <1>11, <2>1, <2>2
<1>13. CASE ~(task' = task /\ queue' = queue)
  <2>1. task'[w] = k + 1 /\ \A v \in Worker \ {w} : task'[v] = task[v]
    BY <1>7, <1>13 DEF TypeOK
  <2>2. k + 1 \notin finished /\ \A v \in Worker : task[v] # k + 1
    BY <1>5 DEF InTurn, Taken
  <2>3. Holding'
    <3> SUFFICES ASSUME NEW u \in Worker
                 PROVE  /\ task'[u] # None => pc'[u] \in {"unlock", "run"} /\ task'[u] \notin finished
                        /\ pc'[u] = "run" => task'[u] # None
                        /\ \A v \in Worker : v # u /\ task'[v] # None => task'[v] # task'[u]
      BY <1>1 DEF Holding
    <3>1. CASE u = w
      BY <1>2, <2>1, <2>2, <3>1
    <3>2. CASE u # w
      BY <1>2, <2>1, <2>2, <3>2 DEF Holding
    <3> QED BY <3>1, <3>2
  <2>4. Taken' = Taken \cup {k + 1}
    BY <1>1, <1>3, <1>5, <2>1 DEF Taken
  <2>5. Taken' = 1 .. k + 1
    BY <1>5, <2>4 DEF InTurn
  <2>6. /\ queue # <<>> /\ Len(queue') = Len(queue) - 1 /\ RunsFrom(queue', k + 1)
    BY <1>7, <1>13
  <2>7. InTurn(k + 1)'
    <3>1. k + 1 + Len(queue') = k + Len(queue)
      BY <1>5, <1>6, <2>6
    <3> QED BY <1>1, <1>5, <2>5, <2>6, <3>1 DEF InTurn, RunsFrom
  <2>8. Order'
    BY <1>1, <1>5, <2>6, <2>7 DEF Order
  <2> QED BY <1>4, <1>8, <1>9, <1>10, <1>11, <2>3, <2>8
<1> QED BY <1>12, <1>13

LEMMA RunTaskKeepsIInv ==
    ASSUME IInv, NEW w \in Worker, RunTask(w)
    PROVE  IInv'
<1> USE Threads DEF IInv, RunTask, Goto, pool, sync, None
<1>1. task[w] \in 1 .. MaxTasks
  BY BoundAssumption DEF Holding, TypeOK
<1>2. task'[w] = 0 /\ \A v \in Worker \ {w} : task'[v] = task[v]
  BY DEF TypeOK
<1>3. TypeOK'
  <2>1. task' \in [Worker -> 0 .. MaxTasks] /\ finished' \subseteq 1 .. MaxTasks
    <3>1. 0 \in 0 .. MaxTasks
      BY BoundAssumption
    <3> QED BY <1>1, <3>1 DEF TypeOK
  <2> QED BY <2>1 DEF TypeOK, CallerPlaces, WorkerPlaces
<1>4. Locks'
  BY DEF Locks, TaskHeld, CountHeld, TypeOK
<1>5. Sleepers' /\ Lifetime'
  BY DEF Sleepers, Lifetime, TypeOK
<1>6. Holding'
  BY <1>1, <1>2 DEF Holding, TypeOK
<1>7. Counts'
  BY CountsUntouched DEF Working, TypeOK
<1>8. Order'
  <2>1. Taken' = Taken
    BY <1>1, <1>2 DEF Taken
  <2>2. PICK k \in Nat : InTurn(k)
    BY DEF Order
  <2>3. InTurn(k)'
    BY <2>1, <2>2 DEF InTurn, RunsFrom
  <2> QED BY <2>3 DEF Order
<1> QED BY <1>3, <1>4, <1>5, <1>6, <1>7, <1>8

LEMMA LeaveKeepsIInv ==
    ASSUME IInv, NEW w \in Worker, Leave(w)
    PROVE  IInv'
<1> USE Threads DEF IInv
<1>1. /\ pc[w] = "leave" /\ numThreadsWorking' = numThreadsWorking - 1 /\ countMutex' = NoThread
      /\ UNCHANGED <<allocated, running, queue, numThreads, taskMutex, taskWaiters, task,
                     submitted, finished, dropped, spurious>>
  BY DEF Leave, ledger
<1>2. idleWaiters' \subseteq idleWaiters
  BY SignalledFew DEF Leave
<1>3. /\ pc' \in [Thread -> CallerPlaces \cup WorkerPlaces]
      /\ pc'[w] = "loop" /\ \A t \in Thread \ {w} : pc'[t] = pc[t]
  BY DEF Leave, Goto, TypeOK, WorkerPlaces
<1>4. Counts'
  <2>1. BusyWorkers' = BusyWorkers \ {w} /\ w \in BusyWorkers /\ Alive' = Alive
    BY <1>1, <1>3 DEF BusyWorkers, Working, Alive
  <2>2. Cardinality(BusyWorkers') = Cardinality(BusyWorkers) - 1
    BY <2>1, WorkersAreFew, FS_RemoveElement DEF BusyWorkers
  <2> QED BY <1>1, <2>1, <2>2 DEF Counts
<1>5. TypeOK'
  <2>1. numThreadsWorking' \in 0 .. Cardinality(Worker)
    BY <1>4, WorkersAreFew DEF Counts, BusyWorkers
  <2>2. pc'[Caller] \in CallerPlaces /\ \A v \in Worker : pc'[v] \in WorkerPlaces
    BY <1>3 DEF TypeOK, WorkerPlaces
  <2> QED BY <1>1, <1>2, <1>3, <2>1, <2>2 DEF TypeOK
<1>6. Locks'
  BY <1>1, <1>3 DEF Locks, TaskHeld, CountHeld
<1>7. Sleepers'
  BY <1>1, <1>2, <1>3 DEF Sleepers, TypeOK
<1>8. Lifetime'
  BY <1>1, <1>3 DEF Lifetime
<1>9. Holding'
  BY <1>1, <1>3 DEF Holding
<1>10. Order'
  BY <1>1, OrderUntouched DEF ledger
<1> QED BY <1>4, <1>5, <1>6, <1>7, <1>8, <1>9, <1>10

LEMMA ExitKeepsIInv ==
    ASSUME IInv, NEW w \in Worker, Exit(w)
    PROVE  IInv'
<1> USE Threads DEF IInv
<1>1. /\ pc[w] = "exit" /\ numThreads' = numThreads - 1 /\ countMutex' = NoThread
      /\ UNCHANGED <<allocated, running, queue, numThreadsWorking, taskMutex, taskWaiters, task,
                     submitted, finished, dropped, spurious>>
  BY DEF Exit, ledger
<1>2. idleWaiters' \subseteq idleWaiters
  BY SignalledFew DEF Exit
<1>3. /\ pc' \in [Thread -> CallerPlaces \cup WorkerPlaces]
      /\ pc'[w] = "gone" /\ \A t \in Thread \ {w} : pc'[t] = pc[t]
  BY DEF Exit, Goto, TypeOK, WorkerPlaces
<1>4. Counts'
  <2>1. Alive' = Alive \ {w} /\ w \in Alive /\ BusyWorkers' = BusyWorkers
    BY <1>1, <1>3 DEF BusyWorkers, Working, Alive
  <2>2. Cardinality(Alive') = Cardinality(Alive) - 1
    BY <2>1, WorkersAreFew, FS_RemoveElement DEF Alive
  <2> QED BY <1>1, <2>1, <2>2 DEF Counts
<1>5. TypeOK'
  <2>1. numThreads' \in 0 .. Cardinality(Worker)
    BY <1>4, WorkersAreFew DEF Counts, Alive
  <2>2. pc'[Caller] \in CallerPlaces /\ \A v \in Worker : pc'[v] \in WorkerPlaces
    BY <1>3 DEF TypeOK, WorkerPlaces
  <2> QED BY <1>1, <1>2, <1>3, <2>1, <2>2 DEF TypeOK
<1>6. Locks'
  BY <1>1, <1>3 DEF Locks, TaskHeld, CountHeld
<1>7. Sleepers'
  BY <1>1, <1>2, <1>3 DEF Sleepers, TypeOK
<1>8. Lifetime'
  BY <1>1, <1>3 DEF Lifetime
<1>9. Holding'
  BY <1>1, <1>3 DEF Holding
<1>10. Order'
  BY <1>1, OrderUntouched DEF ledger
<1> QED BY <1>4, <1>5, <1>6, <1>7, <1>8, <1>9, <1>10

LEMMA SpuriousKeepsIInv ==
    ASSUME IInv, NEW t \in Thread, SpuriousWakeup(t)
    PROVE  IInv'
<1> USE DEF IInv, SpuriousWakeup, pool, ledger
<1>1. TypeOK'
  BY BoundAssumption DEF TypeOK
<1>2. Locks' /\ Sleepers' /\ Lifetime' /\ Holding'
  BY DEF Locks, Sleepers, Lifetime, Holding
<1>3. Counts'
  BY CountsUntouched DEF Working
<1>4. Order'
  BY OrderUntouched DEF ledger
<1> QED BY <1>1, <1>2, <1>3, <1>4

LEMMA StutterKeepsIInv == IInv /\ UNCHANGED vars => IInv'
<1> SUFFICES ASSUME IInv, UNCHANGED vars PROVE IInv'
  OBVIOUS
<1> USE DEF IInv, vars, pool, sync, ledger
<1>1. TypeOK' /\ Locks'
  BY DEF TypeOK, Locks
<1>2. Sleepers' /\ Lifetime' /\ Holding'
  BY DEF Sleepers, Lifetime, Holding
<1>3. Counts' /\ Order'
  BY CountsUntouched, OrderUntouched DEF Working
<1> QED BY <1>1, <1>2, <1>3
-----------------------------------------------------------------------------
LEMMA StepKeepsIInv == IInv /\ [Next]_vars => IInv'
<1> SUFFICES ASSUME IInv, Next PROVE IInv'
  BY StutterKeepsIInv
<1>1. CASE Create \/ CallRun \/ CallWait \/ CallDestroy
  BY <1>1, CreateKeepsIInv, CallerMovesKeepsIInv
<1>2. CASE CallerStep
  <2>1. LockTasks(Caller, "run:lock", "run:append") => IInv'
    BY Threads, LockTasksKeepsIInv
  <2>2. LockTasks(Caller, "destroy:lock", "destroy:stop") => IInv'
    BY Threads, LockTasksKeepsIInv
  <2>3. LockCounts(Caller, "wait:lock", "wait:test") => IInv'
    BY Threads, LockCountsKeepsIInv
  <2>4. CallerWakes => IInv'
    BY Threads, LockCountsKeepsIInv DEF CallerWakes
  <2> QED BY <1>2, <2>1, <2>2, <2>3, <2>4, AppendTaskKeepsIInv, CallerMovesKeepsIInv,
             WaitReturnsKeepsIInv, StopWorkersKeepsIInv DEF CallerStep
<1>3. ASSUME NEW w \in Worker, WorkerStep(w)
      PROVE  IInv'
  <2>1. LockTasks(w, "lock", "test") => IInv'
    BY Threads, LockTasksKeepsIInv
  <2>2. Wakes(w) => IInv'
    BY Threads, LockTasksKeepsIInv DEF Wakes
  <2>3. LeaveTest(w) => IInv'
    BY Threads, LockCountsKeepsIInv DEF LeaveTest
  <2>4. LockCounts(w, "leave:lock", "leave") \/ LockCounts(w, "exit:lock", "exit") => IInv'
    BY Threads, LockCountsKeepsIInv
  <2> QED BY <1>3, <2>1, <2>2, <2>3, <2>4, WorkerMovesKeepsIInv, TakeKeepsIInv,
             RunTaskKeepsIInv, LeaveKeepsIInv, ExitKeepsIInv DEF WorkerStep
<1>4. CASE \E t \in Thread : SpuriousWakeup(t)
  BY <1>4, SpuriousKeepsIInv
<1> QED BY <1>1, <1>2, <1>3, <1>4 DEF Next

\* The parts of IInv hold in every reachable state.
THEOREM InductiveInvariant == Spec => []IInv
<1>1. Init => IInv
  BY InitIInv
<1>2. IInv /\ [Next]_vars => IInv'
  BY StepKeepsIInv
<1> QED BY <1>1, <1>2, PTL DEF Spec

\* The state is well typed, and the two counts of ThreadPool are the numbers
\* of busy and of living workers, whatever the interleaving.
THEOREM ExactCounts == Spec => []CountsExact
<1>1. IInv => CountsExact
  BY DEF IInv, CountsExact, Counts, BusyWorkers, Alive
<1> QED BY <1>1, InductiveInvariant, PTL

\* No task given to ThreadPool_run is lost, run twice or run out of turn.
THEOREM TasksOnce == Spec => []EveryTaskOnce
<1>1. IInv => EveryTaskOnce
  <2> SUFFICES ASSUME IInv PROVE EveryTaskOnce
    OBVIOUS
  <2>1. PICK k \in Nat : InTurn(k)
    BY DEF IInv, Order
  <2>2. Cardinality(Taken) = k
    BY <2>1, FS_Interval DEF InTurn
  <2>3. submitted \in Nat /\ Len(queue) \in Nat /\ 0 \notin finished
    BY BoundAssumption DEF IInv, TypeOK
  <2>4. Cardinality(dropped) = submitted - (k + Len(queue))
    <3>1. k + Len(queue) + 1 \in Int /\ submitted \in Int /\ k + Len(queue) <= submitted
      BY <2>1, <2>3 DEF InTurn
    <3>2. dropped = k + Len(queue) + 1 .. submitted
      BY <2>1 DEF InTurn
    <3>3. Cardinality(k + Len(queue) + 1 .. submitted)
            = IF k + Len(queue) + 1 > submitted THEN 0
              ELSE submitted - (k + Len(queue) + 1) + 1
      BY <3>1, FS_Interval
    <3> QED BY <2>3, <3>1, <3>2, <3>3
  <2>5. /\ \A w \in Worker : task[w] \notin finished
        /\ \A v, w \in Worker : v # w /\ task[v] # None => task[v] # task[w]
    BY <2>3 DEF IInv, Holding, None
  <2>6. queue = [i \in 1 .. Len(queue) |-> Cardinality(Taken) + i]
    BY <2>1, <2>2 DEF InTurn, RunsFrom
  <2> QED BY <2>1, <2>2, <2>3, <2>4, <2>5, <2>6 DEF EveryTaskOnce, InTurn
<1> QED BY <1>1, InductiveInvariant, PTL

\* destroy frees the pool only when every worker has left it for good.
THEOREM FreedLast == Spec => []NoUseAfterFree
<1>1. IInv => NoUseAfterFree
  BY DEF IInv, Lifetime, NoUseAfterFree
<1> QED BY <1>1, InductiveInvariant, PTL

\* When ThreadPool_wait returns, every task given to the pool was run or freed.
THEOREM Barrier == Spec => WaitIsBarrier
<1>1. IInv /\ [Next]_vars =>
        [pc[Caller] = "wait:test" /\ pc'[Caller] \in {"idle", "destroy:free"}
           => finished \cup dropped = 1 .. submitted]_vars
  <2> SUFFICES ASSUME IInv, Next, pc[Caller] = "wait:test",
                      pc'[Caller] \in {"idle", "destroy:free"}
               PROVE  finished \cup dropped = 1 .. submitted
    OBVIOUS
  <2>1. ~Busy
    <3>1. pc \in [Thread -> CallerPlaces \cup WorkerPlaces]
      BY DEF IInv, TypeOK
    <3>2. CASE Create \/ CallRun \/ CallWait \/ CallDestroy \/ CallerStep
      BY <3>1, <3>2, Threads DEF Create, CallRun, CallWait, CallDestroy, CallerStep, LockTasks,
         LockCounts, AppendTask, WaitSleeps, WaitReturns, CallerWakes, StopWorkers, Free, Goto
    <3>3. ASSUME NEW w \in Worker, WorkerStep(w)
          PROVE  pc'[Caller] = pc[Caller]
      BY <3>1, <3>3, Threads DEF WorkerStep, Loop, LockTasks, LockCounts, Sleep, Wakes, LeaveTest,
         Take, UnlockTasks, RunTask, Leave, Exit, Goto
    <3>4. ASSUME NEW t \in Thread, SpuriousWakeup(t)
          PROVE  pc'[Caller] = pc[Caller]
      BY <3>4 DEF SpuriousWakeup
    <3> QED BY <3>2, <3>3, <3>4 DEF Next
  <2>2. queue = <<>> /\ BusyWorkers = {}
    BY <2>1, NotBusy
  <2>3. Taken = finished
    BY <2>2 DEF Taken, BusyWorkers, Working, IInv, Holding
  <2>4. PICK k \in Nat : InTurn(k)
    BY DEF IInv, Order
  <2>5. submitted \in Nat
    BY BoundAssumption DEF IInv, TypeOK
  <2> QED BY <2>2, <2>3, <2>4, <2>5 DEF InTurn
<1> QED BY <1>1, InductiveInvariant, PTL DEF Spec, WaitIsBarrier
=============================================================================
