\* Reads in place between RING_READ_BEGIN and RING_READ_END, before the
\* counters wrap; one of them asks for more than the ring can ever hold.  The
\* threads are fair, and the ring may be told to exit at any point.
SPECIFICATION FairSpec
CONSTANTS
  x = x
  y = y
  Byte <- MCByte
  BufferSize = 4
  CounterMod = 8
  Payloads <- MCPayloads
  ReadSizes = {1}
  BorrowSizes = {0, 3, 6}
  WriteLimit = 7
PROPERTIES ImplementsStream ExitReleasesThreads ServedWhenPossible
