-------------------------- MODULE RingBufferProofs --------------------------
(***************************************************************************)
(* Theorems about RingBuffer for every ring size, counter width and set of *)
(* messages: the type invariant; the claims of the two threads, which no   *)
(* step of the other thread can break; from the claims, that the two       *)
(* memcpys never touch a common cell; and, from all of these, that the     *)
(* ring implements the byte stream of ByteStream.                          *)
(***************************************************************************)
EXTENDS RingBuffer, SequenceTheorems, TLAPS

\* Counter arithmetic stays below CounterMod, and a difference of counters
\* follows what is added to either of them.
LEMMA CounterArithmetic ==
    ASSUME NEW a \in 0 .. CounterMod - 1, NEW b \in 0 .. CounterMod - 1,
           NEW n \in Nat, n <= BufferSize
    PROVE  /\ Plus(a, n) \in 0 .. CounterMod - 1
           /\ Minus(a, b) \in 0 .. CounterMod - 1
           /\ Minus(a, b) + n < CounterMod => Minus(Plus(a, n), b) = Minus(a, b) + n
           /\ n <= Minus(a, b) => Minus(a, Plus(b, n)) = Minus(a, b) - n
  BY SizeAssumption DEF Plus, Minus

\* The mask of a counter is the number of a cell.
LEMMA OffsetIsCell ==
    ASSUME NEW a \in Nat, NEW i \in Nat
    PROVE  Offset(a, i) \in Cells
  BY SizeAssumption DEF Offset, Cells

\* What a finished call leaves behind is a record of the expected type.
LEMMA CallRecords ==
    ASSUME NEW data \in Seq(Byte), NEW size \in Nat, NEW ok \in BOOLEAN
    PROVE  /\ Wrote(data, ok) \in CallRecord
           /\ HasRead(data, size, ok) \in CallRecord
           /\ HasRead(<<>>, size, ok) \in CallRecord
  BY DEF Wrote, HasRead, CallRecord
-----------------------------------------------------------------------------
\* The inductive invariant: types, and what each thread may rely on while it
\* copies.  TypeOK alone is not inductive: that SetHead stays in the counter's
\* width needs the claim that the bytes read are in the ring.
IInv == TypeOK /\ Claims

LEMMA InitIInv == Init => IInv
<1> SUFFICES ASSUME Init PROVE IInv
  OBVIOUS
<1> USE SizeAssumption DEF Init
<1>1. SharedOK
  <2>1. buffer \in [Cells -> Byte]
    OBVIOUS
  <2>2. exit \in BOOLEAN
    OBVIOUS
  <2> QED BY <2>1, <2>2 DEF SharedOK
<1>2. NoCall \in CallRecord
  BY DEF NoCall, CallRecord
<1>3. ProducerOK
  BY <1>2 DEF ProducerOK, Places
<1>4. ConsumerOK
  <2>1. rborrow \in BOOLEAN
    OBVIOUS
  <2> QED BY <1>2, <2>1 DEF ConsumerOK, Places
<1>5. Claims
  BY DEF Claims, Size, FreeSpace, Minus
<1> QED BY <1>1, <1>3, <1>4, <1>5 DEF IInv, TypeOK

\* A step that leaves a part of the state alone keeps what is said of it.
LEMMA Untouched ==
    /\ SharedOK /\ UNCHANGED shared => SharedOK'
    /\ ProducerOK /\ UNCHANGED producer => ProducerOK'
    /\ ConsumerOK /\ UNCHANGED consumer => ConsumerOK'
  BY DEF SharedOK, ProducerOK, ConsumerOK, shared, producer, consumer

\* The claims depend on the counters and on the two places and sizes only.
LEMMA ClaimsUntouched ==
    ASSUME Claims, UNCHANGED <<head, tail>>,
           wpc' = "copy" => wpc = "copy" /\ wdata' = wdata,
           rpc' = "copy" => rpc = "copy" /\ rsize' = rsize
    PROVE  Claims'
  BY DEF Claims, Size, FreeSpace

\* Freeing and publishing, in numbers.
LEMMA SizeIsNat == TypeOK => Size \in 0 .. CounterMod - 1 /\ FreeSpace \in Int
  BY CounterArithmetic, SizeAssumption DEF TypeOK, SharedOK, Size, FreeSpace, Minus

\* The producer's steps keep the invariant: it claims room only when it sees
\* it, and publishing turns the claim into unread bytes.
LEMMA WriterKeepsIInv ==
    ASSUME IInv, (\E data \in Payloads : Write(data)) \/ WriterStep
    PROVE  IInv'
<1> USE DEF IInv, TypeOK
<1>1. CASE \E data \in Payloads : Write(data)
  <2> PICK data \in Payloads : Write(data)
    BY <1>1
  <2>1. data \in Seq(Byte) /\ Len(data) \in Nat
    BY CallAssumption
  <2>2. ProducerOK'
    <3>1. Wrote(data, FALSE) \in CallRecord
      BY <2>1, CallRecords
    <3>2. CASE Len(data) > BufferSize
      BY <3>1, <3>2 DEF Write, ProducerOK
    <3>3. CASE ~(Len(data) > BufferSize)
      BY <2>1, <3>3, SizeAssumption DEF Write, ProducerOK, Places
    <3> QED BY <3>2, <3>3
  <2>3. Claims'
    BY ClaimsUntouched DEF Write, shared, consumer
  <2> QED BY <2>2, <2>3, Untouched DEF Write
<1>2. CASE WriterSeesRoom
  <2>1. ProducerOK'
    BY <1>2 DEF WriterSeesRoom, ProducerOK, Places
  <2>2. Claims'
    BY <1>2 DEF WriterSeesRoom, Claims, Size, FreeSpace, shared, consumer
  <2> QED BY <1>2, <2>1, <2>2, Untouched DEF WriterSeesRoom
<1>3. CASE WriterSeesFull
  <2>1. ProducerOK'
    BY <1>3 DEF WriterSeesFull, ProducerOK, Places
  <2>2. Claims'
    BY <1>3, ClaimsUntouched DEF WriterSeesFull, shared, consumer
  <2> QED BY <1>3, <2>1, <2>2, Untouched DEF WriterSeesFull
<1>4. CASE WriterChecksExit
  <2>1. ProducerOK'
    BY <1>4, CallRecords DEF WriterChecksExit, ProducerOK, Places
  <2>2. Claims'
    BY <1>4, ClaimsUntouched DEF WriterChecksExit, shared, consumer
  <2> QED BY <1>4, <2>1, <2>2, Untouched DEF WriterChecksExit
<1>5. CASE CopyIn
  <2>1. Offset(tail, wcopied) \in Cells
    BY OffsetIsCell DEF SharedOK, ProducerOK
  <2>2. wdata[wcopied + 1] \in Byte
    BY <1>5 DEF CopyIn, ProducerOK
  <2>3. exit' \in BOOLEAN
    BY <1>5 DEF CopyIn, SharedOK
  <2>4. SharedOK'
    BY <1>5, <2>1, <2>2, <2>3 DEF CopyIn, SharedOK
  <2>5. ProducerOK'
    BY <1>5 DEF CopyIn, ProducerOK, Places
  <2>6. Claims'
    BY <1>5, ClaimsUntouched DEF CopyIn, consumer
  <2> QED BY <1>5, <2>4, <2>5, <2>6, Untouched DEF CopyIn
<1>6. CASE SetTail
  <2>1. Len(wdata) \in Nat /\ Len(wdata) <= BufferSize
    BY DEF ProducerOK
  <2>2. Size + Len(wdata) <= BufferSize
    BY <1>6, <2>1, SizeIsNat, SizeAssumption DEF SetTail, Claims, FreeSpace
  <2>3. /\ tail' \in 0 .. CounterMod - 1
        /\ Size' = Size + Len(wdata)
    <3>1. tail' = Plus(tail, Len(wdata)) /\ head' = head
      BY <1>6 DEF SetTail
    <3>2. Size + Len(wdata) < CounterMod
      BY <2>1, <2>2, SizeIsNat, SizeAssumption
    <3> QED BY <2>1, <3>1, <3>2, CounterArithmetic DEF Size, SharedOK
  <2>4. exit' \in BOOLEAN
    BY <1>6 DEF SetTail, SharedOK
  <2>5. SharedOK'
    BY <1>6, <2>3, <2>4 DEF SetTail, SharedOK
  <2>6. ProducerOK'
    BY <1>6, CallRecords DEF SetTail, ProducerOK, Places
  <2>7. Claims'
    BY <1>6, <2>1, <2>2, <2>3, SizeIsNat, SizeAssumption
    DEF SetTail, Claims, FreeSpace, consumer, ConsumerOK
  <2> QED BY <1>6, <2>5, <2>6, <2>7, Untouched DEF SetTail
<1> QED
  BY <1>1, <1>2, <1>3, <1>4, <1>5, <1>6 DEF WriterStep

\* The consumer's steps keep it: freeing cells only widens the producer's room.
LEMMA ReaderKeepsIInv ==
    ASSUME IInv,
           \/ \E size \in ReadSizes : Read(size)
           \/ \E size \in BorrowSizes : BorrowRead(size)
           \/ ReaderStep
    PROVE  IInv'
<1> USE DEF IInv, TypeOK
<1>1. CASE \E size \in ReadSizes : Read(size)
  <2> PICK size \in ReadSizes : Read(size)
    BY <1>1
  <2>1. rborrow' \in BOOLEAN
    BY DEF Read, ConsumerOK
  <2>2. ConsumerOK'
    <3>1. size \in Nat /\ <<>> \in Seq(Byte) /\ Len(<<>>) = 0
      BY CallAssumption
    <3>2. HasRead(<<>>, size, FALSE) \in CallRecord /\ HasRead(<<>>, 0, TRUE) \in CallRecord
      BY <3>1, CallRecords
    <3>3. CASE size > BufferSize
      BY <2>1, <3>1, <3>2, <3>3 DEF Read, ConsumerOK
    <3>4. CASE ~(size > BufferSize)
      BY <2>1, <3>1, <3>4 DEF Read, ConsumerOK, Places
    <3> QED BY <3>3, <3>4
  <2>3. Claims'
    BY ClaimsUntouched DEF Read, shared, producer
  <2> QED BY <2>2, <2>3, Untouched DEF Read
<1>2. CASE \E size \in BorrowSizes : BorrowRead(size)
  <2> PICK size \in BorrowSizes : BorrowRead(size)
    BY <1>2
  <2>1. rborrow' \in BOOLEAN
    BY DEF BorrowRead, ConsumerOK
  <2>2. ConsumerOK'
    <3>1. size \in Nat /\ <<>> \in Seq(Byte) /\ Len(<<>>) = 0
      BY CallAssumption
    <3>2. HasRead(<<>>, size, FALSE) \in CallRecord /\ HasRead(<<>>, 0, TRUE) \in CallRecord
      BY <3>1, CallRecords
    <3>3. CASE size = 0
      BY <2>1, <3>1, <3>2, <3>3 DEF BorrowRead, ConsumerOK
    <3>4. CASE ~(size = 0)
      BY <2>1, <3>1, <3>4 DEF BorrowRead, ConsumerOK, Places
    <3> QED BY <3>3, <3>4
  <2>3. Claims'
    BY ClaimsUntouched DEF BorrowRead, shared, producer
  <2> QED BY <2>2, <2>3, Untouched DEF BorrowRead
<1>3. CASE ReaderSeesData
  <2>1. ConsumerOK'
    BY <1>3 DEF ReaderSeesData, ConsumerOK, Places
  <2>2. Claims'
    BY <1>3 DEF ReaderSeesData, Claims, Size, FreeSpace, shared, producer
  <2> QED BY <1>3, <2>1, <2>2, Untouched DEF ReaderSeesData
<1>4. CASE ReaderSeesShort
  <2>1. ConsumerOK'
    BY <1>4 DEF ReaderSeesShort, ConsumerOK, Places
  <2>2. Claims'
    BY <1>4, ClaimsUntouched DEF ReaderSeesShort, shared, producer
  <2> QED BY <1>4, <2>1, <2>2, Untouched DEF ReaderSeesShort
<1>5. CASE ReaderChecksExit
  <2>1. ConsumerOK'
    BY <1>5, CallRecords DEF ReaderChecksExit, ConsumerOK, Places
  <2>2. Claims'
    BY <1>5, ClaimsUntouched DEF ReaderChecksExit, shared, producer
  <2> QED BY <1>5, <2>1, <2>2, Untouched DEF ReaderChecksExit
<1>6. CASE CopyOut
  <2>1. Offset(head, Len(rdata)) \in Cells
    BY OffsetIsCell DEF SharedOK, ConsumerOK
  <2>2. buffer[Offset(head, Len(rdata))] \in Byte
    BY <2>1 DEF SharedOK
  <2>3. ConsumerOK'
    BY <1>6, <2>2 DEF CopyOut, ConsumerOK, Places
  <2>4. Claims'
    BY <1>6, ClaimsUntouched DEF CopyOut, shared, producer
  <2> QED BY <1>6, <2>3, <2>4, Untouched DEF CopyOut
<1>7. CASE SetHead
  <2>1. rsize \in Nat /\ rsize <= Size /\ rsize <= BufferSize
    BY <1>7, SizeIsNat, SizeAssumption DEF SetHead, Claims, ConsumerOK
  <2>2. /\ Plus(head, rsize) \in 0 .. CounterMod - 1
        /\ Minus(tail, Plus(head, rsize)) = Size - rsize
    BY <2>1, CounterArithmetic DEF Size, SharedOK
  <2>3. head' \in 0 .. CounterMod - 1 /\ Size' <= Size /\ Size' \in Nat
    <3>1. CASE rborrow /\ Plus(head, rsize) = 0
      BY <1>7, <3>1, SizeIsNat DEF SetHead, Size, SharedOK
    <3>2. CASE ~(rborrow /\ Plus(head, rsize) = 0)
      <4>1. head' = Plus(head, rsize) /\ tail' = tail
        BY <1>7, <3>2 DEF SetHead
      <4> QED BY <2>1, <2>2, <4>1, SizeIsNat DEF Size
    <3> QED BY <3>1, <3>2
  <2>4. exit' \in BOOLEAN
    BY <1>7 DEF SetHead, SharedOK
  <2>5. SharedOK'
    BY <1>7, <2>3, <2>4 DEF SetHead, SharedOK
  <2>6. ConsumerOK'
    BY <1>7, CallRecords DEF SetHead, ConsumerOK, Places
  <2>7. Claims'
    BY <1>7, <2>3, SizeIsNat, SizeAssumption
    DEF SetHead, Claims, FreeSpace, producer, ProducerOK
  <2> QED BY <1>7, <2>5, <2>6, <2>7, Untouched DEF SetHead
<1> QED
  BY <1>1, <1>2, <1>3, <1>4, <1>5, <1>6, <1>7 DEF ReaderStep

\* Type correctness and the claims hold in every reachable state.
THEOREM InductiveInvariant == Spec => []IInv
<1>1. Init => IInv
  BY InitIInv
<1>2. IInv /\ [Next]_vars => IInv'
  <2> SUFFICES ASSUME IInv, [Next]_vars PROVE IInv'
    OBVIOUS
  <2>1. CASE SetExit
    <3>1. SharedOK'
      BY <2>1 DEF SetExit, IInv, TypeOK, SharedOK
    <3>2. Claims'
      BY <2>1, ClaimsUntouched DEF SetExit, IInv, producer, consumer
    <3> QED BY <2>1, <3>1, <3>2, Untouched DEF SetExit, IInv, TypeOK
  <2>2. CASE UNCHANGED vars
    BY <2>2, Untouched, ClaimsUntouched
    DEF vars, shared, producer, consumer, IInv, TypeOK
  <2> QED
    BY <2>1, <2>2, WriterKeepsIInv, ReaderKeepsIInv DEF Next
<1> QED
  BY <1>1, <1>2, PTL DEF Spec

\* No step takes a counter out of its width, stores anything but a byte, or
\* lets a copy run past its message.
THEOREM TypeCorrect == Spec => []TypeOK
  BY InductiveInvariant, PTL DEF IInv

\* The room the producer saw and the bytes the consumer saw stay theirs.
THEOREM ClaimsHold == Spec => []Claims
  BY InductiveInvariant, PTL DEF IInv
-----------------------------------------------------------------------------
\* Quotient and remainder, and that a division fixes them.
LEMMA Division ==
    ASSUME NEW a \in Int, NEW b \in Int, b > 0
    PROVE  a % b = a - b * (a \div b) /\ a \div b \in Int /\ a % b \in 0 .. b - 1
  OBVIOUS

LEMMA Remainder ==
    ASSUME NEW a \in Int, NEW b \in Int, b > 0,
           NEW q \in Int, NEW r \in 0 .. b - 1, a = b * q + r
    PROVE  a % b = r
  OBVIOUS

\* Two counts less than a ring apart have different cells.
LEMMA DistinctResidues ==
    ASSUME NEW b \in Int, b > 0, NEW a \in Int, NEW c \in Int, a < c, c - a < b
    PROVE  a % b # c % b
<1> SUFFICES ASSUME a % b = c % b PROVE FALSE
  OBVIOUS
<1> DEFINE k == (c \div b) - (a \div b)
<1>1. k \in Int /\ b * k = c - a
  BY Division
<1> HIDE DEF k
<1>2. k <= 0 => b * k <= 0
  BY <1>1
<1>3. k >= 1 => b * k >= b
  BY <1>1
<1> QED BY <1>1, <1>2, <1>3

\* A counter that wraps at a multiple of the ring's size keeps its cell.
LEMMA SameResidue ==
    ASSUME NEW b \in Int, b > 0, NEW m \in Int, m % b = 0, NEW a \in Int
    PROVE  (a - m) % b = a % b
<1> DEFINE p == a \div b
           q == m \div b
           r == a % b
<1>1. p \in Int /\ q \in Int /\ r \in 0 .. b - 1 /\ a = b * p + r
  BY Division
<1>2. m = b * q
  BY Division
<1> HIDE DEF p, q
<1>3. a - m = b * (p - q) + r
  BY <1>1, <1>2
<1>4. r \in 0 .. b - 1 /\ p - q \in Int /\ a - m \in Int
  BY <1>1
<1> HIDE DEF r
<1> DEFINE n == a - m
           k == p - q
<1>5. n \in Int /\ k \in Int /\ n = b * k + r
  BY <1>3, <1>4
<1>6. \A j, l \in Int : j = b * l + r => j % b = r
  BY <1>4, Remainder
<1> HIDE DEF n, k
<1>7. n % b = r
  BY <1>5, <1>6
<1> QED BY <1>7 DEF r, n

\* The cell j places after tail is the cell Size + j places after head.
LEMMA TailCell ==
    ASSUME TypeOK, NEW j \in Nat
    PROVE  Offset(tail, j) = Offset(head, Size + j)
<1>1. head \in Int /\ tail \in Int /\ Size \in Int
  BY SizeIsNat, SizeAssumption DEF TypeOK, SharedOK
<1>2. CASE head <= tail
  <2>1. tail + j = head + (Size + j)
    BY <1>1, <1>2 DEF Size, Minus
  <2> QED BY <2>1 DEF Offset
<1>3. CASE ~(head <= tail)
  <2>1. tail + j = (head + (Size + j)) - CounterMod
    BY <1>1, <1>3, SizeAssumption DEF Size, Minus
  <2> DEFINE n == head + (Size + j)
             k == tail + j
  <2>2. n \in Int /\ k = n - CounterMod
    BY <1>1, <2>1
  <2>3. /\ BufferSize \in Int /\ BufferSize > 0
        /\ CounterMod \in Int /\ CounterMod % BufferSize = 0
    BY SizeAssumption
  <2>4. k % BufferSize = n % BufferSize
    <3> HIDE DEF n, k
    <3>1. (n - CounterMod) % BufferSize = n % BufferSize
      BY <2>2, <2>3, SameResidue
    <3> QED BY <2>2, <3>1
  <2> QED BY <2>4 DEF Offset
<1> QED BY <1>2, <1>3

\* Bytes less than a ring apart are in different cells.
LEMMA CellsDiffer ==
    ASSUME NEW a \in Nat, NEW i \in Nat, NEW j \in Nat, i < j, j - i < BufferSize
    PROVE  Offset(a, i) # Offset(a, j)
<1> DEFINE m == a + i
           n == a + j
<1>1. m \in Int /\ n \in Int /\ m < n /\ n - m < BufferSize
  OBVIOUS
<1>2. BufferSize \in Int /\ BufferSize > 0
  BY SizeAssumption
<1>3. m % BufferSize # n % BufferSize
  <2> HIDE DEF m, n
  <2> QED BY <1>1, <1>2, DistinctResidues
<1> QED BY <1>3 DEF Offset

\* A byte to be written has a cell no unread byte is in.
LEMMA Apart ==
    ASSUME IInv, wpc = "copy", NEW i \in 0 .. Size - 1, NEW j \in 0 .. Len(wdata) - 1
    PROVE  Offset(head, i) # Offset(tail, j)
<1>1. Size \in Nat /\ Len(wdata) \in Nat /\ Size + Len(wdata) <= BufferSize
  BY SizeIsNat, SizeAssumption DEF IInv, Claims, FreeSpace, TypeOK, ProducerOK
<1>2. Offset(tail, j) = Offset(head, Size + j)
  BY TailCell, <1>1 DEF IInv
<1>3. head \in Nat /\ i \in Nat /\ Size + j \in Nat
      /\ i < Size + j /\ (Size + j) - i < BufferSize
  BY <1>1, SizeAssumption DEF IInv, TypeOK, SharedOK
<1> QED BY <1>2, <1>3, CellsDiffer

\* The two memcpys never meet: the cells the producer fills are disjoint from
\* the cells that hold unread bytes, in every reachable state.
THEOREM RaceFree == Spec => []NoSharedCell
<1>1. IInv => NoSharedCell
  BY Apart DEF NoSharedCell, Unread, Claimed
<1> QED BY <1>1, InductiveInvariant, PTL
-----------------------------------------------------------------------------
\* The bytes a counter moves past keep their cells.
LEMMA PlusCell ==
    ASSUME NEW a \in 0 .. CounterMod - 1, NEW n \in Nat, NEW i \in Nat
    PROVE  Offset(Plus(a, n), i) = Offset(a, n + i)
<1>1. CASE a + n < CounterMod
  BY <1>1, SizeAssumption DEF Plus, Offset
<1>2. CASE ~(a + n < CounterMod)
  <2> DEFINE k == a + (n + i)
             l == Plus(a, n) + i
  <2>1. k \in Int /\ l = k - CounterMod
    BY <1>2, SizeAssumption DEF Plus
  <2>2. /\ BufferSize \in Int /\ BufferSize > 0
        /\ CounterMod \in Int /\ CounterMod % BufferSize = 0
    BY SizeAssumption
  <2>3. l % BufferSize = k % BufferSize
    <3> HIDE DEF k, l
    <3>1. (k - CounterMod) % BufferSize = k % BufferSize
      BY <2>1, <2>2, SameResidue
    <3> QED BY <2>1, <3>1
  <2> QED BY <2>3 DEF Offset
<1> QED BY <1>1, <1>2

\* The queue that the ring holds: what was published and not yet freed.
Queue == [i \in 1 .. Size |-> buffer[Offset(head, i - 1)]]

LEMMA QueueIs ==
    ASSUME TypeOK
    PROVE  Queue \in Seq(Byte) /\ Len(Queue) = Size
<1>1. Size \in Nat /\ head \in Nat
  BY SizeIsNat, SizeAssumption DEF TypeOK, SharedOK
<1>2. \A i \in 1 .. Size : buffer[Offset(head, i - 1)] \in Byte
  BY <1>1, OffsetIsCell DEF TypeOK, SharedOK
<1> QED BY <1>1, <1>2 DEF Queue

\* What the refinement needs besides the claims.  A call keeps the arguments it
\* was given and starts to copy from their first byte.
Called ==
    /\ wpc # "idle" => wdata \in Payloads
    /\ rpc # "idle" => rsize \in ReadSizes \cup BorrowSizes
    /\ rpc # "idle" /\ rborrow => rsize \in BorrowSizes
    /\ wpc \in {"wait", "check"} => wcopied = 0
    /\ rpc \in {"wait", "check"} => rdata = <<>>

\* What is copied so far is what is to be copied, in both directions.
Copied ==
    /\ wpc = "copy" => \A i \in 0 .. wcopied - 1 : buffer[Offset(tail, i)] = wdata[i + 1]
    /\ rpc = "copy" => \A i \in 1 .. Len(rdata) : rdata[i] = buffer[Offset(head, i - 1)]

\* The counters do not wrap where reads in place are made.
Straight ==
    BorrowSizes # {} =>
        /\ head <= tail /\ tail <= WriteLimit
        /\ wpc # "idle" => tail + Len(wdata) <= WriteLimit

RInv == IInv /\ Called /\ Copied /\ Straight

\* A step that leaves the shared state alone leaves the stream's queue alone.
LEMMA QueueStays == UNCHANGED shared => UNCHANGED <<Queue, exit>>
  BY DEF shared, Queue, Size

\* The producer's steps: a write appears in the stream at SetTail, all of it.
LEMMA WriteRefines ==
    ASSUME RInv, NEW data \in Payloads, Write(data)
    PROVE  Called' /\ Copied' /\ Straight' /\ [Stream!Next]_(Stream!vars)
<1> USE DEF Write, shared, consumer
<1>1. data \in Seq(Byte) /\ Len(data) \in Nat
  BY CallAssumption
<1>2. Called'
  BY DEF RInv, Called
<1>3. Copied'
  BY DEF RInv, Copied
<1>4. Straight'
  BY DEF RInv, Straight
<1>5. [Stream!Next]_(Stream!vars)
  <2>1. UNCHANGED <<Queue, exit, lastRead>>
    BY QueueStays
  <2>2. CASE Len(data) > BufferSize
    <3>1. lastWrite' = [data |-> data, size |-> Len(data), ok |-> FALSE]
      BY <2>2 DEF Wrote
    <3>2. Stream!PutFails(data)
      BY <2>1, <2>2, <3>1 DEF Stream!PutFails, Queue
    <3> QED BY <3>2 DEF Stream!Next
  <2>3. CASE ~(Len(data) > BufferSize)
    <3>1. UNCHANGED lastWrite
      BY <2>3
    <3> QED BY <2>1, <3>1 DEF Stream!vars, Queue
  <2> QED BY <2>2, <2>3
<1> QED BY <1>2, <1>3, <1>4, <1>5

LEMMA WriterPollRefines ==
    ASSUME RInv, WriterSeesRoom \/ WriterSeesFull \/ WriterChecksExit
    PROVE  Called' /\ Copied' /\ Straight' /\ [Stream!Next]_(Stream!vars)
<1> USE DEF WriterSeesRoom, WriterSeesFull, WriterChecksExit, shared, consumer
<1>0. /\ UNCHANGED <<head, tail, buffer, wdata, wcopied, rpc, rsize, rborrow, rdata>>
      /\ wpc \in {"wait", "check"}
  OBVIOUS
<1>1. Called'
  BY <1>0 DEF RInv, Called
<1>2. Copied'
  <2>1. wcopied' = 0
    BY <1>0 DEF RInv, Called
  <2> QED BY <1>0, <2>1 DEF RInv, Copied, Offset
<1>3. Straight'
  BY DEF RInv, Straight
<1>4. UNCHANGED <<Queue, exit, lastRead>>
  BY QueueStays
<1>5. CASE WriterChecksExit /\ exit
  <2>1. lastWrite' = [data |-> wdata, size |-> Len(wdata), ok |-> FALSE]
    BY <1>5 DEF Wrote
  <2>2. wdata \in Payloads
    BY <1>5 DEF RInv, Called
  <2>3. Stream!PutFails(wdata)
    BY <1>4, <1>5, <2>1 DEF Stream!PutFails, Queue
  <2> QED BY <1>1, <1>2, <1>3, <2>2, <2>3 DEF Stream!Next
<1>6. CASE ~(WriterChecksExit /\ exit)
  <2>1. UNCHANGED lastWrite
    BY <1>6
  <2>2. UNCHANGED Stream!vars
    BY <1>4, <2>1 DEF Stream!vars, Queue
  <2> QED BY <1>1, <1>2, <1>3, <2>2
<1> QED BY <1>5, <1>6

\* A byte that is copied in changes no byte of the queue, none that was copied
\* before it and none that the consumer has taken.
LEMMA CopyInRefines ==
    ASSUME RInv, CopyIn
    PROVE  Called' /\ Copied' /\ Straight' /\ [Stream!Next]_(Stream!vars)
<1> USE DEF CopyIn, consumer
<1>1. /\ IInv /\ Called /\ Copied /\ Straight
      /\ tail \in Nat /\ wcopied \in Nat /\ wcopied < Len(wdata) /\ Len(wdata) <= BufferSize
      /\ Size \in Nat /\ rsize \in Nat /\ Len(rdata) \in Nat /\ Len(rdata) <= rsize
      /\ rpc = "copy" => rsize <= Size
      /\ Offset(tail, wcopied) \in Cells /\ buffer \in [Cells -> Byte]
  <2>1. tail \in Nat /\ wcopied \in Nat
    BY SizeAssumption DEF RInv, IInv, TypeOK, SharedOK, ProducerOK
  <2> QED
    BY <2>1, SizeIsNat, OffsetIsCell
    DEF RInv, IInv, TypeOK, SharedOK, ProducerOK, ConsumerOK, Claims
<1>2. /\ Len(wdata) \in Nat
      /\ \A i \in 0 .. Size - 1 : Offset(head, i) # Offset(tail, wcopied)
  BY <1>1, Apart DEF IInv, TypeOK, ProducerOK
<1>3. \A c : c # Offset(tail, wcopied) => buffer'[c] = buffer[c]
  BY <1>1
<1>4. buffer'[Offset(tail, wcopied)] = wdata[wcopied + 1]
  BY <1>1
<1>5. UNCHANGED <<head, tail, wpc, rpc, rdata, wdata, Size>> /\ wcopied' = wcopied + 1
  BY DEF Size
<1>6. \A i \in 0 .. Size - 1 : buffer'[Offset(head, i)] = buffer[Offset(head, i)]
  BY <1>2, <1>3
<1>7. Queue' = Queue
  <2>1. \A i \in 1 .. Size : buffer'[Offset(head, i - 1)] = buffer[Offset(head, i - 1)]
    BY <1>1, <1>6
  <2> QED BY <1>5, <2>1 DEF Queue, Offset
<1>8. Copied'
  <2>1. ASSUME NEW i \in 0 .. wcopied'- 1
        PROVE  buffer'[Offset(tail, i)] = wdata[i + 1]
    <3>1. CASE i = wcopied
      BY <1>4, <3>1
    <3>2. CASE i # wcopied
      <4>1. i \in Nat /\ i < wcopied /\ wcopied - i < BufferSize
        BY <1>1, <1>2, <1>5, <3>2, SizeAssumption
      <4>2. Offset(tail, i) # Offset(tail, wcopied)
        BY <1>1, <4>1, CellsDiffer
      <4> QED BY <1>1, <1>3, <4>1, <4>2 DEF Copied
    <3> QED BY <3>1, <3>2
  <2>2. ASSUME rpc = "copy", NEW i \in 1 .. Len(rdata)
        PROVE  rdata[i] = buffer'[Offset(head, i - 1)]
    <3>1. i - 1 \in 0 .. Size - 1
      BY <1>1, <2>2
    <3> QED BY <1>1, <1>6, <2>2, <3>1 DEF Copied
  <2> QED BY <1>5, <2>1, <2>2 DEF Copied, Offset
<1>9. Called' /\ Straight'
  BY <1>1 DEF Called, Straight
<1> QED BY <1>7, <1>8, <1>9 DEF Stream!vars, Queue

\* Publishing the tail appends the whole message to the queue.
LEMMA SetTailRefines ==
    ASSUME RInv, SetTail
    PROVE  Called' /\ Copied' /\ Straight' /\ [Stream!Next]_(Stream!vars)
<1> USE DEF SetTail, consumer
<1>1. /\ IInv /\ IInv' /\ Called /\ Copied /\ Straight
      /\ TypeOK /\ TypeOK' /\ wdata \in Seq(Byte) /\ Len(wdata) \in Nat
      /\ tail \in Nat /\ Size \in 0 .. CounterMod - 1 /\ wcopied = Len(wdata)
      /\ head \in 0 .. CounterMod - 1 /\ tail \in 0 .. CounterMod - 1
  <2>1. IInv'
    BY WriterKeepsIInv DEF RInv, WriterStep
  <2>2. IInv /\ TypeOK /\ TypeOK' /\ Called /\ Copied /\ Straight
    BY <2>1 DEF RInv, IInv
  <2>3. wdata \in Seq(Byte) /\ Len(wdata) \in Nat
    BY <2>2 DEF TypeOK, ProducerOK
  <2>4. tail \in Nat /\ head \in 0 .. CounterMod - 1 /\ tail \in 0 .. CounterMod - 1
    BY <2>2, SizeAssumption DEF TypeOK, SharedOK
  <2> QED BY <2>1, <2>2, <2>3, <2>4, SizeIsNat
<1>2. /\ Size + Len(wdata) <= BufferSize /\ Len(wdata) <= BufferSize
      /\ Size + Len(wdata) < CounterMod
  BY <1>1, SizeIsNat, SizeAssumption DEF IInv, Claims, FreeSpace
<1>3. Size' = Size + Len(wdata)
  BY <1>1, <1>2, CounterArithmetic DEF Size
<1>4. Queue' = Queue \o wdata
  <2>1. /\ Queue \in Seq(Byte) /\ Len(Queue) = Size
        /\ Queue' \in Seq(Byte) /\ Len(Queue') = Size'
    <3>1. Size' \in Nat /\ Queue' = [i \in 1 .. Size' |-> buffer[Offset(head, i - 1)]]
      BY <1>1, <1>3 DEF Queue, Offset
    <3>2. \A i \in 1 .. Size' : buffer[Offset(head, i - 1)] \in Byte
      BY <1>1, <3>1, OffsetIsCell, SizeAssumption DEF TypeOK, SharedOK
    <3> QED BY <1>1, <3>1, <3>2, QueueIs
  <2>2. /\ Queue \o wdata \in Seq(Byte) /\ Len(Queue \o wdata) = Size'
        /\ \A i \in 1 .. Size' : (Queue \o wdata)[i] =
                                   IF i <= Size THEN Queue[i] ELSE wdata[i - Size]
    BY <1>1, <1>3, <2>1, ConcatProperties
  <2>3. ASSUME NEW i \in 1 .. Size'
        PROVE  Queue'[i] = (Queue \o wdata)[i]
    <3>1. Queue'[i] = buffer[Offset(head, i - 1)]
      BY <2>3 DEF Queue, Offset
    <3>2. CASE i <= Size
      <4>1. Queue[i] = buffer[Offset(head, i - 1)]
        BY <1>1, <1>3, <2>3, <3>2 DEF Queue
      <4> QED BY <2>2, <2>3, <3>1, <3>2, <4>1
    <3>3. CASE ~(i <= Size)
      <4> DEFINE j == i - 1 - Size
      <4>1. j \in 0 .. Len(wdata) - 1 /\ Size + j = i - 1 /\ i - Size = j + 1
        BY <1>1, <1>3, <2>3, <3>3
      <4>2. Offset(tail, j) = Offset(head, i - 1)
        BY <1>1, <4>1, TailCell
      <4>3. buffer[Offset(tail, j)] = wdata[j + 1]
        BY <1>1, <4>1 DEF Copied
      <4> HIDE DEF j
      <4> QED BY <2>2, <2>3, <3>1, <3>3, <4>1, <4>2, <4>3
    <3> QED BY <3>2, <3>3
  <2>4. \A i \in 1 .. Len(Queue') : Queue'[i] = (Queue \o wdata)[i]
    BY <2>1, <2>3
  <2> DEFINE q == Queue'
             r == Queue \o wdata
  <2>5. q \in Seq(Byte) /\ r \in Seq(Byte) /\ Len(q) = Len(r)
        /\ \A i \in 1 .. Len(q) : q[i] = r[i]
    BY <2>1, <2>2, <2>4
  <2>6. q = r
    <3> HIDE DEF q, r
    <3> QED BY <2>5, SeqEqual
  <2> QED BY <2>6
<1>5. Stream!Put(wdata) /\ wdata \in Payloads
  <2>1. Len(Queue) + Len(wdata) <= BufferSize
    BY <1>1, <1>2, QueueIs
  <2>2. lastWrite' = [data |-> wdata, size |-> Len(wdata), ok |-> TRUE]
    BY DEF Wrote
  <2>3. UNCHANGED <<exit, lastRead>> /\ wdata \in Payloads
    BY <1>1 DEF Called
  <2> QED BY <1>4, <2>1, <2>2, <2>3 DEF Stream!Put, Queue
<1>6. Copied'
  BY <1>1 DEF Copied, Offset
<1>7. Called'
  BY <1>1 DEF Called
<1>8. Straight'
  <2> SUFFICES ASSUME BorrowSizes # {} PROVE Straight'
    BY DEF Straight
  <2>1. WriteLimit < CounterMod /\ head <= tail /\ tail + Len(wdata) <= WriteLimit
    BY <1>1, BorrowAssumption DEF Straight
  <2>2. tail' = tail + Len(wdata) /\ head' = head /\ wpc' = "idle"
    BY <1>1, <2>1, CallAssumption, SizeAssumption DEF Plus
  <2> QED BY <1>1, <2>1, <2>2 DEF Straight
<1> QED BY <1>5, <1>6, <1>7, <1>8 DEF Stream!Next

\* The consumer's calls: a refused read fails in the stream, a read in place of
\* nothing succeeds there.
LEMMA ReadRefines ==
    ASSUME RInv, NEW size \in ReadSizes \cup BorrowSizes,
           \/ size \in ReadSizes /\ Read(size)
           \/ size \in BorrowSizes /\ BorrowRead(size)
    PROVE  Called' /\ Copied' /\ Straight' /\ [Stream!Next]_(Stream!vars)
<1> USE DEF Read, BorrowRead, shared, producer
<1>1. size \in Nat
  BY CallAssumption
<1>2. Called'
  BY DEF RInv, Called
<1>3. Copied'
  BY DEF RInv, Copied
<1>4. Straight'
  BY DEF RInv, Straight
<1>5. UNCHANGED <<Queue, exit, lastWrite>>
  BY QueueStays
<1>6. CASE Read(size) /\ size > BufferSize
  <2>1. lastRead' = [data |-> <<>>, size |-> size, ok |-> FALSE]
    BY <1>6 DEF HasRead
  <2>2. Stream!GetFails(size)
    BY <1>5, <1>6, <2>1 DEF Stream!GetFails, Queue
  <2> QED BY <1>2, <1>3, <1>4, <2>2 DEF Stream!Next
<1>7. CASE BorrowRead(size) /\ size = 0
  <2>1. lastRead' = [data |-> <<>>, size |-> 0, ok |-> TRUE]
    BY <1>7 DEF HasRead
  <2>2. Queue \in Seq(Byte) /\ Len(Queue) \in Nat
    BY QueueIs, SizeIsNat DEF RInv, IInv
  <2>3. SubSeq(Queue, 1, size) = <<>> /\ SubSeq(Queue, size + 1, Len(Queue)) = Queue
    BY <1>7, <2>2, SubSeqEmpty, SubSeqFull
  <2>4. /\ size <= Len(Queue)
        /\ Queue' = SubSeq(Queue, size + 1, Len(Queue))
        /\ lastRead' = [data |-> SubSeq(Queue, 1, size), size |-> size, ok |-> TRUE]
        /\ UNCHANGED <<exit, lastWrite>>
    <3>1. size <= Len(Queue)
      BY <1>7, <2>2
    <3>2. lastRead' = [data |-> SubSeq(Queue, 1, size), size |-> size, ok |-> TRUE]
      BY ONLY <1>7, <2>1, <2>3
    <3>3. Queue' = SubSeq(Queue, size + 1, Len(Queue))
      BY ONLY <1>5, <2>3
    <3> QED BY <1>5, <3>1, <3>2, <3>3
  <2>5. Stream!Get(size)
    BY ONLY <2>4 DEF Stream!Get, Queue
  <2> QED BY <1>2, <1>3, <1>4, <2>5 DEF Stream!Next
<1>8. CASE lastRead' = lastRead
  BY <1>2, <1>3, <1>4, <1>5, <1>8 DEF Stream!vars, Queue
<1> QED BY <1>6, <1>7, <1>8

LEMMA ReaderPollRefines ==
    ASSUME RInv, ReaderSeesData \/ ReaderSeesShort \/ ReaderChecksExit \/ CopyOut
    PROVE  Called' /\ Copied' /\ Straight' /\ [Stream!Next]_(Stream!vars)
<1> USE DEF ReaderSeesData, ReaderSeesShort, ReaderChecksExit, CopyOut, shared, producer
<1>1. /\ UNCHANGED <<head, tail, buffer, wdata, wcopied, wpc, rsize, rborrow>>
      /\ rpc # "idle"
      /\ IF CopyOut THEN rpc' = "copy" ELSE rdata' = rdata
  OBVIOUS
<1>2. Called'
  <2>1. rpc' \in {"wait", "check"} => rpc \in {"wait", "check"} /\ rdata' = rdata
    OBVIOUS
  <2> QED BY <1>1, <2>1 DEF RInv, Called
<1>3. Copied'
  <2>1. CASE CopyOut
    <3>1. Copied /\ rdata \in Seq(Byte) /\ Len(rdata) \in Nat /\ rpc = "copy"
      BY <2>1 DEF RInv, IInv, TypeOK, ConsumerOK
    <3> DEFINE b == buffer[Offset(head, Len(rdata))]
    <3>2. rdata' = Append(rdata, b)
      BY <2>1
    <3>3. /\ Len(rdata') = Len(rdata) + 1
          /\ \A i \in 1 .. Len(rdata) + 1 :
               rdata'[i] = IF i <= Len(rdata) THEN rdata[i] ELSE b
      <4> HIDE DEF b
      <4> QED BY <3>1, <3>2
    <3>4. ASSUME NEW i \in 1 .. Len(rdata')
          PROVE  rdata'[i] = buffer[Offset(head, i - 1)]
      BY <3>1, <3>3 DEF Copied
    <3> QED BY <1>1, <3>1, <3>4 DEF Copied, Offset
  <2>2. CASE ~CopyOut
    <3>1. rpc' = "copy" => rdata' = <<>>
      BY <2>2 DEF RInv, Called
    <3> QED BY <1>1, <3>1 DEF RInv, Copied, Offset
  <2> QED BY <2>1, <2>2
<1>4. Straight'
  BY DEF RInv, Straight
<1>5. UNCHANGED <<Queue, exit, lastWrite>>
  BY QueueStays
<1>6. CASE ReaderChecksExit /\ exit
  <2>1. lastRead' = [data |-> <<>>, size |-> rsize, ok |-> FALSE]
    BY <1>6 DEF HasRead
  <2>2. rsize \in ReadSizes \cup BorrowSizes
    BY <1>6 DEF RInv, Called
  <2>3. Stream!GetFails(rsize)
    BY <1>5, <1>6, <2>1 DEF Stream!GetFails, Queue
  <2> QED BY <1>2, <1>3, <1>4, <2>2, <2>3 DEF Stream!Next
<1>7. CASE ~(ReaderChecksExit /\ exit)
  <2>1. UNCHANGED lastRead
    BY <1>7
  <2> QED BY <1>2, <1>3, <1>4, <1>5, <2>1 DEF Stream!vars, Queue
<1> QED BY <1>6, <1>7

\* Publishing the head takes from the queue what the consumer has copied.  A
\* read in place that ends where the counter wraps would free nothing; where
\* counters do not wrap the new head is zero only if nothing moved.
LEMMA SetHeadRefines ==
    ASSUME RInv, SetHead
    PROVE  Called' /\ Copied' /\ Straight' /\ [Stream!Next]_(Stream!vars)
<1> USE DEF SetHead, producer
<1>1. /\ IInv /\ Called /\ Copied /\ Straight /\ TypeOK
      /\ rdata \in Seq(Byte) /\ Len(rdata) = rsize /\ rsize \in Nat
      /\ head \in 0 .. CounterMod - 1 /\ tail \in 0 .. CounterMod - 1
      /\ Size \in 0 .. CounterMod - 1 /\ rsize <= Size /\ Size <= BufferSize
  <2>1. IInv /\ Called /\ Copied /\ Straight /\ TypeOK /\ Claims
    BY DEF RInv, IInv
  <2>2. rdata \in Seq(Byte) /\ Len(rdata) = rsize /\ rsize \in Nat
    BY <2>1 DEF TypeOK, ConsumerOK
  <2>3. head \in 0 .. CounterMod - 1 /\ tail \in 0 .. CounterMod - 1
    BY <2>1 DEF TypeOK, SharedOK
  <2>4. Size \in 0 .. CounterMod - 1 /\ rsize <= Size /\ Size <= BufferSize
    BY <2>1, SizeIsNat DEF Claims
  <2> QED BY <2>1, <2>2, <2>3, <2>4
<1>2. BorrowSizes # {} =>
        /\ WriteLimit < CounterMod /\ head <= tail /\ tail <= WriteLimit
        /\ wpc # "idle" => tail + Len(wdata) <= WriteLimit
        /\ head + rsize <= tail /\ Plus(head, rsize) = head + rsize
  <2> SUFFICES ASSUME BorrowSizes # {}
               PROVE  /\ WriteLimit < CounterMod /\ head <= tail /\ tail <= WriteLimit
                      /\ wpc # "idle" => tail + Len(wdata) <= WriteLimit
                      /\ head + rsize <= tail /\ Plus(head, rsize) = head + rsize
    OBVIOUS
  <2>1. WriteLimit < CounterMod /\ head <= tail /\ tail <= WriteLimit
        /\ (wpc # "idle" => tail + Len(wdata) <= WriteLimit)
    BY <1>1, BorrowAssumption DEF Straight
  <2>2. head + rsize <= tail
    BY <1>1, <2>1, SizeAssumption DEF Size, Minus
  <2>3. Plus(head, rsize) = head + rsize
    BY <1>1, <2>1, <2>2, CallAssumption, SizeAssumption DEF Plus
  <2> QED BY <2>1, <2>2, <2>3
<1>3. head' = Plus(head, rsize) /\ tail' = tail /\ buffer' = buffer
  <2>1. CASE rborrow /\ Plus(head, rsize) = 0
    <3>1. BorrowSizes # {}
      BY <1>1, <2>1 DEF Called
    <3>2. head + rsize = 0
      BY <1>2, <2>1, <3>1
    <3>3. head = 0 /\ head' = head
      BY <1>1, <2>1, <3>2
    <3> QED BY <2>1, <3>3
  <2>2. CASE ~(rborrow /\ Plus(head, rsize) = 0)
    BY <2>2
  <2> QED BY <2>1, <2>2
<1>4. Size' = Size - rsize
  <2>1. Minus(tail, Plus(head, rsize)) = Minus(tail, head) - rsize
    <3>1. rsize <= BufferSize /\ rsize <= Minus(tail, head)
      BY <1>1, SizeAssumption DEF Size
    <3> QED BY <1>1, <3>1, CounterArithmetic
  <2> QED BY <1>3, <2>1 DEF Size
<1>5. \A i \in Nat : Offset(head, i)' = Offset(head, rsize + i)
  <2> TAKE i \in Nat
  <2>1. Offset(Plus(head, rsize), i) = Offset(head, rsize + i)
    BY <1>1, PlusCell
  <2> QED BY <1>3, <2>1 DEF Offset
<1>6. /\ Queue \in Seq(Byte) /\ Len(Queue) = Size
      /\ \A i \in 1 .. Size : Queue[i] = buffer[Offset(head, i - 1)]
      /\ \A i \in 1 .. Size : Queue[i] \in Byte
  <2>1. Queue \in Seq(Byte) /\ Len(Queue) = Size
    BY <1>1, QueueIs
  <2>2. \A i \in 1 .. Size : Queue[i] \in Byte
    BY <2>1, ElementOfSeq
  <2> QED BY <2>1, <2>2 DEF Queue
<1>7. Queue' = SubSeq(Queue, rsize + 1, Size)
  <2>1. Queue' = [i \in 1 .. Size - rsize |-> buffer[Offset(head, i - 1)']]
    BY <1>3, <1>4 DEF Queue, Offset
  <2>2. \A i \in 1 .. Size - rsize : buffer[Offset(head, i - 1)'] = Queue[rsize + i]
    <3> TAKE i \in 1 .. Size - rsize
    <3>1. i - 1 \in Nat /\ rsize + i \in 1 .. Size /\ rsize + (i - 1) = (rsize + i) - 1
      BY <1>1
    <3>2. Offset(head, i - 1)' = Offset(head, rsize + (i - 1))
      BY <1>5, <3>1
    <3> QED BY <1>6, <3>1, <3>2
  <2>3. Queue' = [i \in 1 .. Size - rsize |-> Queue[rsize + i]]
    BY <2>1, <2>2
  <2> DEFINE s == SubSeq(Queue, rsize + 1, Size)
             t == [i \in 1 .. Size - rsize |-> Queue[rsize + i]]
  <2>4. /\ s \in Seq(Byte) /\ Len(s) = Size - rsize
        /\ \A i \in 1 .. Size - rsize : s[i] = Queue[rsize + i]
    <3>1. \A i \in rsize + 1 .. Size : Queue[i] \in Byte
      BY <1>1, <1>6
    <3>2. /\ s \in Seq(Byte)
          /\ Len(s) = IF rsize + 1 <= Size THEN Size - (rsize + 1) + 1 ELSE 0
          /\ \A i \in 1 .. Size - (rsize + 1) + 1 : s[i] = Queue[(rsize + 1) + i - 1]
      BY <1>1, <3>1, SubSeqProperties
    <3> HIDE DEF s
    <3> QED BY <1>1, <3>2
  <2>5. t \in Seq(Byte) /\ Len(t) = Size - rsize
    <3>1. Size - rsize \in Nat /\ \A i \in 1 .. Size - rsize : Queue[rsize + i] \in Byte
      BY <1>1, <1>6
    <3> QED BY <3>1
  <2>6. \A i \in 1 .. Size - rsize : s[i] = t[i]
    BY <2>4
  <2>7. s = t
    <3> HIDE DEF s, t
    <3> QED BY <2>4, <2>5, <2>6, SeqEqual
  <2> QED BY <2>3, <2>7
<1>8. rdata = SubSeq(Queue, 1, rsize)
  <2> DEFINE s == SubSeq(Queue, 1, rsize)
  <2>1. /\ s \in Seq(Byte) /\ Len(s) = rsize
        /\ \A i \in 1 .. rsize : s[i] = Queue[i]
    <3>1. \A i \in 1 .. rsize : Queue[i] \in Byte
      BY <1>1, <1>6
    <3>2. /\ s \in Seq(Byte)
          /\ Len(s) = IF 1 <= rsize THEN rsize - 1 + 1 ELSE 0
          /\ \A i \in 1 .. rsize - 1 + 1 : s[i] = Queue[1 + i - 1]
      BY <1>1, <3>1, SubSeqProperties
    <3> HIDE DEF s
    <3> QED BY <1>1, <3>2
  <2>2. \A i \in 1 .. rsize : rdata[i] = s[i]
    <3> TAKE i \in 1 .. rsize
    <3>1. i \in 1 .. Size /\ i \in 1 .. Len(rdata)
      BY <1>1
    <3>2. rdata[i] = buffer[Offset(head, i - 1)]
      BY <1>1, <3>1 DEF Copied
    <3>3. s[i] = Queue[i]
      BY <2>1
    <3> QED BY <1>6, <3>1, <3>2, <3>3
  <2> HIDE DEF s
  <2>3. rdata = s
    BY <1>1, <2>1, <2>2, SeqEqual
  <2> QED BY <2>3 DEF s
<1>9. Stream!Get(rsize) /\ rsize \in ReadSizes \cup BorrowSizes
  <2>1. rsize \in ReadSizes \cup BorrowSizes /\ UNCHANGED <<exit, lastWrite>>
    BY <1>1 DEF Called
  <2>2. lastRead' = [data |-> SubSeq(Queue, 1, rsize), size |-> rsize, ok |-> TRUE]
    BY <1>8 DEF HasRead
  <2>3. rsize <= Len(Queue) /\ Queue' = SubSeq(Queue, rsize + 1, Len(Queue))
    BY <1>1, <1>6, <1>7
  <2>4. Stream!Get(rsize)
    BY ONLY <2>1, <2>2, <2>3 DEF Stream!Get, Queue
  <2> QED BY <2>1, <2>4
<1>10. Called' /\ Copied'
  BY <1>1, <1>3 DEF Called, Copied, Offset
<1>11. Straight'
  BY <1>1, <1>2, <1>3 DEF Straight
<1> QED BY <1>9, <1>10, <1>11 DEF Stream!Next

\* The ring implements the byte stream: a write and a read that succeed take
\* effect at one instant each, on all of their bytes and in order; one that
\* fails does nothing; and nothing else changes what the ring holds.
THEOREM Refinement == Spec => ImplementsStream
<1>1. Init => RInv /\ Stream!Init
  <2> SUFFICES ASSUME Init PROVE RInv /\ Stream!Init
    OBVIOUS
  <2>1. Called /\ Copied /\ Straight
    BY CallAssumption DEF Init, Called, Copied, Straight
  <2>2. Size = 0
    BY DEF Init, Size, Minus
  <2>3. Queue = <<>>
    BY <2>2 DEF Queue
  <2>4. Stream!Init
    BY <2>3 DEF Init, Stream!Init, Queue, NoCall, Stream!NoCall
  <2> QED BY <2>1, <2>4, InitIInv DEF RInv
<1>2. RInv /\ IInv' /\ [Next]_vars => RInv' /\ [Stream!Next]_(Stream!vars)
  <2> SUFFICES ASSUME RInv, IInv', [Next]_vars
               PROVE  Called' /\ Copied' /\ Straight' /\ [Stream!Next]_(Stream!vars)
    BY DEF RInv
  <2>1. CASE \E data \in Payloads : Write(data)
    BY <2>1, WriteRefines
  <2>2. CASE WriterStep
    BY <2>2, WriterPollRefines, CopyInRefines, SetTailRefines DEF WriterStep
  <2>3. CASE \/ \E size \in ReadSizes : Read(size)
             \/ \E size \in BorrowSizes : BorrowRead(size)
    BY <2>3, ReadRefines
  <2>4. CASE ReaderStep
    BY <2>4, ReaderPollRefines, SetHeadRefines DEF ReaderStep
  <2>5. CASE SetExit \/ UNCHANGED vars
    <3>1. UNCHANGED <<head, tail, buffer, producer, consumer>>
      BY <2>5 DEF SetExit, vars, shared
    <3>2. Called' /\ Copied' /\ Straight'
      BY <3>1 DEF RInv, Called, Copied, Straight, Offset, producer, consumer
    <3>3. UNCHANGED <<Queue, lastWrite, lastRead>>
      BY <3>1 DEF Queue, Size, Offset, producer, consumer
    <3>4. CASE SetExit
      BY <3>2, <3>3, <3>4 DEF SetExit, Stream!Next, Stream!Exit, Queue
    <3>5. CASE UNCHANGED vars
      BY <3>2, <3>3, <3>5 DEF vars, shared, Stream!vars, Queue
    <3> QED BY <2>5, <3>4, <3>5
  <2> QED BY <2>1, <2>2, <2>3, <2>4, <2>5 DEF Next
<1> QED
  BY <1>1, <1>2, InductiveInvariant, PTL DEF Spec, ImplementsStream, Stream!Spec
=============================================================================
