\* A pool of one worker and a ring of one request: waits, pipelines, decoding
\* tasks and submissions compete for them.
SPECIFICATION FairSpec
CONSTANTS
  g1 = g1
  g2 = g2
  Thread <- MCThread
  NoThread = NoThread
  Op = {"submit", "create", "waitSem", "pipeline", "big"}
  RingSize = 1
  NumThreads = 1
  Decoder = TRUE
  MayLose = FALSE
  FdsMayFail = FALSE
  MaxValue = 1
  MaxCalls = 3
PROPERTIES CallsReturn EventsArrive TeardownEnds
\* The guest has exited and the context is freed.
CHECK_DEADLOCK FALSE
