----------------------------- MODULE RingBuffer -----------------------------
(***************************************************************************)
(* The single-producer single-consumer ring in shared memory through which *)
(* the guest and the host halves of Vortek and Gladio exchange requests    *)
(* and replies (ring_buffer.c, ring_buffer.h).  The counters head and tail *)
(* are 32-bit numbers that wrap; the cell of a counter is found by masking *)
(* it with bufferSize - 1.  One thread writes, one thread reads, and both  *)
(* poll the other's counter: each load of the other thread's counter, each *)
(* byte of a memcpy and each store of a counter is a step of its own.      *)
(* The counters are stored with release and loaded with acquire order, so  *)
(* interleaving these steps is what the C11 memory model allows.           *)
(***************************************************************************)
EXTENDS Integers, Sequences

CONSTANTS Byte,        \* the values of one byte
          BufferSize,  \* ring->bufferSize, in bytes: a power of two
          CounterMod,  \* 2^32 in the code: the counters are uint32_t
          Payloads,    \* what the producer may pass to RingBuffer_write
          ReadSizes,   \* the sizes the consumer may pass to RingBuffer_read
          BorrowSizes, \* the sizes it may pass to RING_READ_BEGIN
          WriteLimit   \* bound: the producer starts no write past this count

ASSUME SizeAssumption == /\ BufferSize \in Nat \ {0}
                         /\ CounterMod \in Nat
                         /\ 2 * BufferSize <= CounterMod
                         /\ CounterMod % BufferSize = 0

ASSUME CallAssumption == /\ Payloads \subseteq Seq(Byte)
                         /\ ReadSizes \subseteq Nat
                         /\ BorrowSizes \subseteq Nat
                         /\ WriteLimit \in Nat

\* RING_READ_END publishes the new head only when it is greater than zero, so
\* a borrowed read that ends where the counter wraps to zero frees nothing.
\* The model lets the consumer borrow only in runs whose counters do not wrap.
ASSUME BorrowAssumption == BorrowSizes = {} \/ WriteLimit < CounterMod

VARIABLES head, tail,  \* the shared counters
          buffer,      \* the shared cells
          exit,        \* RING_STATUS_EXIT in the shared status word
          wpc, wdata,  \* the producer: where it is, what it writes
          wcopied,     \*   and how many of its bytes are in the ring
          rpc, rsize,  \* the consumer: where it is, how much it reads,
          rborrow,     \*   whether in place, between the two macros,
          rdata,       \*   and the bytes it has taken out of the ring
          lastWrite, lastRead  \* what the last call that returned did

shared   == <<head, tail, buffer, exit>>
producer == <<wpc, wdata, wcopied, lastWrite>>
consumer == <<rpc, rsize, rborrow, rdata, lastRead>>
vars     == <<shared, producer, consumer>>
-----------------------------------------------------------------------------
Cells == 0 .. BufferSize - 1

\* Mutant: an addition that does not wrap.
PlusUnbounded(a, b) == a + b

\* uint32_t addition and subtraction, for operands below CounterMod.
Plus(a, b)  == IF a + b < CounterMod THEN a + b ELSE a + b - CounterMod
Minus(a, b) == IF b <= a THEN a - b ELSE a - b + CounterMod

\* counter & (bufferSize - 1), the byte i places after it: bufferSize is a
\* power of two, so the mask is a remainder and copies wrap at the last cell.
Offset(counter, i) == (counter + i) % BufferSize

Size      == Minus(tail, head)   \* RingBuffer_size
FreeSpace == BufferSize - Size   \* RingBuffer_freeSpace

\* A call that has not happened yet, and the records of finished calls.
NoCall == [data |-> <<>>, size |-> 0, ok |-> TRUE]
Wrote(data, ok) == [data |-> data, size |-> Len(data), ok |-> ok]
HasRead(data, size, ok) == [data |-> data, size |-> size, ok |-> ok]

\* RingBuffer_create clears the shared memory, so the cells hold one value.
Init == /\ head = 0 /\ tail = 0 /\ exit = FALSE
        /\ \E zero \in Byte : buffer = [c \in Cells |-> zero]
        /\ wpc = "idle" /\ wdata = <<>> /\ wcopied = 0 /\ lastWrite = NoCall
        /\ rpc = "idle" /\ rsize = 0 /\ rborrow = FALSE /\ rdata = <<>>
        /\ lastRead = NoCall
-----------------------------------------------------------------------------
\* RingBuffer_write: a size above the ring's is refused at once.
Write(data) ==
    /\ wpc = "idle"
    /\ tail + Len(data) <= WriteLimit
    /\ IF Len(data) > BufferSize
         THEN /\ lastWrite' = Wrote(data, FALSE)
              /\ UNCHANGED <<wpc, wdata, wcopied>>
         ELSE /\ wpc' = "wait" /\ wdata' = data /\ wcopied' = 0
              /\ UNCHANGED lastWrite
    /\ UNCHANGED <<shared, consumer>>

\* Mutant: the writer takes one byte more than there is room for.
WriterSeesMoreRoom ==
    /\ wpc = "wait" /\ FreeSpace + 1 >= Len(wdata)
    /\ wpc' = "copy"
    /\ UNCHANGED <<shared, consumer, wdata, wcopied, lastWrite>>

\* RingBuffer_waitForWrite finds room for the whole message.
WriterSeesRoom ==
    /\ wpc = "wait" /\ FreeSpace >= Len(wdata)
    /\ wpc' = "copy"
    /\ UNCHANGED <<shared, consumer, wdata, wcopied, lastWrite>>

\* It does not, and waits before it looks at the status word.
WriterSeesFull ==
    /\ wpc = "wait" /\ FreeSpace < Len(wdata)
    /\ wpc' = "check"
    /\ UNCHANGED <<shared, consumer, wdata, wcopied, lastWrite>>

WriterChecksExit ==
    /\ wpc = "check"
    /\ IF exit THEN wpc' = "idle" /\ lastWrite' = Wrote(wdata, FALSE)
               ELSE wpc' = "wait" /\ UNCHANGED lastWrite
    /\ UNCHANGED <<shared, consumer, wdata, wcopied>>

\* The memcpy of RingBuffer_write, in two parts when it meets the last cell.
CopyIn ==
    /\ wpc = "copy" /\ wcopied < Len(wdata)
    /\ buffer' = [buffer EXCEPT ![Offset(tail, wcopied)] = wdata[wcopied + 1]]
    /\ wcopied' = wcopied + 1
    /\ UNCHANGED <<head, tail, exit, consumer, wpc, wdata, lastWrite>>

\* Mutant: the message is published before it is copied.
SetTailEarly ==
    /\ wpc = "copy"
    /\ tail' = Plus(tail, Len(wdata))
    /\ wpc' = "idle" /\ lastWrite' = Wrote(wdata, TRUE)
    /\ UNCHANGED <<head, buffer, exit, consumer, wdata, wcopied>>

\* RingBuffer_setTail publishes the message.
SetTail ==
    /\ wpc = "copy" /\ wcopied = Len(wdata)
    /\ tail' = Plus(tail, Len(wdata))
    /\ wpc' = "idle" /\ lastWrite' = Wrote(wdata, TRUE)
    /\ UNCHANGED <<head, buffer, exit, consumer, wdata, wcopied>>

WriterStep == \/ WriterSeesRoom \/ WriterSeesFull \/ WriterChecksExit
              \/ CopyIn \/ SetTail
-----------------------------------------------------------------------------
\* RingBuffer_read: a size above the ring's is refused at once.
Read(size) ==
    /\ rpc = "idle"
    /\ IF size > BufferSize
         THEN /\ lastRead' = HasRead(<<>>, size, FALSE)
              /\ UNCHANGED <<rpc, rsize, rborrow, rdata>>
         ELSE /\ rpc' = "wait" /\ rsize' = size /\ rborrow' = FALSE
              /\ rdata' = <<>>
              /\ UNCHANGED lastRead
    /\ UNCHANGED <<shared, producer>>

\* RING_READ_BEGIN: nothing to do for size 0, and no check of the size.
BorrowRead(size) ==
    /\ rpc = "idle"
    /\ IF size = 0
         THEN /\ lastRead' = HasRead(<<>>, 0, TRUE)
              /\ UNCHANGED <<rpc, rsize, rborrow, rdata>>
         ELSE /\ rpc' = "wait" /\ rsize' = size /\ rborrow' = TRUE
              /\ rdata' = <<>>
              /\ UNCHANGED lastRead
    /\ UNCHANGED <<shared, producer>>

\* Mutant: the reader waits for one byte more than it reads.
ReaderMissesLastByte ==
    /\ rpc = "wait" /\ Size > rsize
    /\ rpc' = "copy"
    /\ UNCHANGED <<shared, producer, rsize, rborrow, rdata, lastRead>>

\* RingBuffer_waitForRead finds the whole message.
ReaderSeesData ==
    /\ rpc = "wait" /\ Size >= rsize
    /\ rpc' = "copy"
    /\ UNCHANGED <<shared, producer, rsize, rborrow, rdata, lastRead>>

ReaderSeesShort ==
    /\ rpc = "wait" /\ Size < rsize
    /\ rpc' = "check"
    /\ UNCHANGED <<shared, producer, rsize, rborrow, rdata, lastRead>>

\* Mutant: a reader that never looks at the status word.
ReaderIgnoresExit ==
    /\ rpc = "check" /\ rpc' = "wait"
    /\ UNCHANGED <<shared, producer, rsize, rborrow, rdata, lastRead>>

\* On exit a read fails; a borrowed one goes on with no data and, its ringHead
\* being zero, RING_READ_END moves nothing.
ReaderChecksExit ==
    /\ rpc = "check"
    /\ IF exit THEN rpc' = "idle" /\ lastRead' = HasRead(<<>>, rsize, FALSE)
               ELSE rpc' = "wait" /\ UNCHANGED lastRead
    /\ UNCHANGED <<shared, producer, rsize, rborrow, rdata>>

\* The memcpy of RingBuffer_read, or the caller's use of a borrowed byte.
CopyOut ==
    /\ rpc = "copy" /\ Len(rdata) < rsize
    /\ rdata' = Append(rdata, buffer[Offset(head, Len(rdata))])
    /\ UNCHANGED <<shared, producer, rpc, rsize, rborrow, lastRead>>

\* Mutant: the cells are freed before the last of them is read.
SetHeadEarly ==
    /\ rpc = "copy"
    /\ head' = Plus(head, rsize)
    /\ rpc' = "idle" /\ lastRead' = HasRead(rdata, rsize, TRUE)
    /\ UNCHANGED <<tail, buffer, exit, producer, rsize, rborrow, rdata>>

\* RingBuffer_setHead frees the cells; RING_READ_END skips it for a zero head.
SetHead ==
    /\ rpc = "copy" /\ Len(rdata) = rsize
    /\ LET newHead == Plus(head, rsize)
       IN  head' = IF rborrow /\ newHead = 0 THEN head ELSE newHead
    /\ rpc' = "idle" /\ lastRead' = HasRead(rdata, rsize, TRUE)
    /\ UNCHANGED <<tail, buffer, exit, producer, rsize, rborrow, rdata>>

ReaderStep == \/ ReaderSeesData \/ ReaderSeesShort \/ ReaderChecksExit
              \/ CopyOut \/ SetHead
-----------------------------------------------------------------------------
\* RingBuffer_setStatus(ring, RING_STATUS_EXIT), by a thread that tears the
\* ring down while the other two may be anywhere in a call.
SetExit == /\ exit' = TRUE
           /\ UNCHANGED <<head, tail, buffer, producer, consumer>>

Next == \/ \E data \in Payloads : Write(data)
        \/ WriterStep
        \/ \E size \in ReadSizes : Read(size)
        \/ \E size \in BorrowSizes : BorrowRead(size)
        \/ ReaderStep
        \/ SetExit

Spec == Init /\ [][Next]_vars

\* A thread inside a call is scheduled again and again; nothing makes a
\* thread start a call.
Fairness == WF_vars(WriterStep) /\ WF_vars(ReaderStep)

FairSpec == Spec /\ Fairness
-----------------------------------------------------------------------------
\* Every counter, cell and local variable has its type, a copy never runs past
\* its message, and a message is never longer than the ring.
CallRecord == [data : Seq(Byte), size : Nat, ok : BOOLEAN]
Places     == {"idle", "wait", "check", "copy"}

SharedOK == /\ head \in 0 .. CounterMod - 1 /\ tail \in 0 .. CounterMod - 1
            /\ buffer \in [Cells -> Byte] /\ exit \in BOOLEAN

ProducerOK == /\ wpc \in Places /\ lastWrite \in CallRecord
              /\ wdata \in Seq(Byte) /\ Len(wdata) <= BufferSize
              /\ wcopied \in 0 .. Len(wdata)

ConsumerOK == /\ rpc \in Places /\ lastRead \in CallRecord
              /\ rsize \in Nat /\ rborrow \in BOOLEAN
              /\ rdata \in Seq(Byte) /\ Len(rdata) <= rsize

TypeOK == SharedOK /\ ProducerOK /\ ConsumerOK

\* The room a producer saw is still there, and the bytes a consumer saw are
\* still there, when they act on it, however far the counters have wrapped.
Claims ==
    /\ Size <= BufferSize
    /\ wpc = "copy" => Len(wdata) <= FreeSpace
    /\ rpc = "copy" => rsize <= Size

Unread  == {Offset(head, i) : i \in 0 .. Size - 1}
Claimed == IF wpc = "copy" THEN {Offset(tail, i) : i \in 0 .. Len(wdata) - 1} ELSE {}

\* The two memcpys never meet: no cell the producer is filling holds a byte
\* that was not read yet, so neither side needs a lock.
NoSharedCell == Unread \cap Claimed = {}

\* The ring is the bounded byte stream it replaces: what was published and not
\* yet freed is the queue, read in order from the cell of head.
Stream == INSTANCE ByteStream WITH
            Capacity <- BufferSize,
            Messages <- Payloads,
            Sizes <- ReadSizes \cup BorrowSizes,
            queue <- [i \in 1 .. Size |-> buffer[Offset(head, i - 1)]]

ImplementsStream == Stream!Spec

\* Once RING_STATUS_EXIT is set, a thread blocked in the ring comes out of it:
\* destroyVkContext and destroyGLContext join the thread that reads the ring.
ExitReleasesThreads ==
    /\ (exit /\ wpc # "idle") ~> wpc = "idle"
    /\ (exit /\ rpc # "idle") ~> rpc = "idle"

\* A reader whose message is complete returns it, and a writer that fits
\* writes it, unless the ring is told to exit: waitForRead and waitForWrite
\* fail on EXIT without a second look at the size.  A copy that was begun is
\* finished and succeeds, exit or not.  No wake-up is needed, none can be lost.
ServedWhenPossible ==
    /\ (rpc # "idle" /\ rsize <= Size)
         ~> (rpc = "idle" /\ (lastRead.ok \/ exit))
    /\ (wpc # "idle" /\ Len(wdata) <= FreeSpace)
         ~> (wpc = "idle" /\ (lastWrite.ok \/ exit))
    /\ rpc = "copy" ~> (rpc = "idle" /\ lastRead.ok)
    /\ wpc = "copy" ~> (wpc = "idle" /\ lastWrite.ok)
=============================================================================
