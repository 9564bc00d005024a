\* Every kind of call, on a device whose textures are decoded and that may be
\* lost; the guest may die and the host may stop at any point.
SPECIFICATION Spec
CONSTANTS
  g1 = g1
  g2 = g2
  Thread <- MCThread
  NoThread = NoThread
  Op = {"submit", "create", "signal", "destroy", "big", "waitSem", "pipeline"}
  RingSize = 2
  NumThreads = 2
  Decoder = TRUE
  MayLose = TRUE
  FdsMayFail = TRUE
  MaxValue = 2
  MaxCalls = 3
SYMMETRY Symmetry
INVARIANTS TypeOK RepliesMatch FdsMatch SafeTeardown
\* The guest has exited and the context is freed.
CHECK_DEADLOCK FALSE
