\* Two workers, three tasks and two spurious returns, pool after pool.
SPECIFICATION FairSpec
CONSTANTS
  w1 = w1
  w2 = w2
  Worker <- MCWorker
  Caller = Caller
  NoThread = NoThread
  MaxTasks = 3
  MaxSpurious = 2
INVARIANTS CountsExact EveryTaskOnce NoUseAfterFree
PROPERTIES WaitIsBarrier CallsReturn TasksRun
