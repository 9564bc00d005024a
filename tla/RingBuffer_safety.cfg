\* A ring of four bytes whose counters wrap at eight, with no write limit.
SPECIFICATION Spec
CONSTANTS
  x = x
  y = y
  Byte <- MCByte
  BufferSize = 4
  CounterMod = 8
  Payloads <- MCPayloads
  ReadSizes = {1, 3, 5}
  BorrowSizes = {}
  WriteLimit = 20
INVARIANTS TypeOK Claims NoSharedCell
PROPERTY ImplementsStream
