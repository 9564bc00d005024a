----------------------------- MODULE ByteStream -----------------------------
(***************************************************************************)
(* What a ring of ring_buffer.c promises the two threads that share it: a  *)
(* bounded FIFO of bytes.  A write that succeeds appends all of its bytes  *)
(* at one instant; a read that succeeds removes exactly the bytes it       *)
(* returns, the oldest ones, at one instant; either call fails only when   *)
(* it asks for more than the ring can hold or when the ring was told to    *)
(* exit, and a call that fails leaves the stream as it was.  The module    *)
(* RingBuffer is shown to implement this one.                              *)
(***************************************************************************)
EXTENDS Naturals, Sequences

CONSTANTS Capacity, \* how many unread bytes the stream holds
          Messages, \* the byte sequences that may be written
          Sizes     \* the sizes that may be read

VARIABLES queue,     \* the bytes written and not yet read
          exit,      \* RING_STATUS_EXIT
          lastWrite, \* arguments and result of the last write that returned
          lastRead   \* arguments and result of the last read that returned

vars == <<queue, exit, lastWrite, lastRead>>

\* A call that has not happened yet: an empty call that succeeded.
NoCall == [data |-> <<>>, size |-> 0, ok |-> TRUE]

Init == /\ queue = <<>>
        /\ exit = FALSE
        /\ lastWrite = NoCall
        /\ lastRead = NoCall

Put(data) == /\ Len(queue) + Len(data) <= Capacity
             /\ queue' = queue \o data
             /\ lastWrite' = [data |-> data, size |-> Len(data), ok |-> TRUE]
             /\ UNCHANGED <<exit, lastRead>>

PutFails(data) == /\ exit \/ Len(data) > Capacity
                  /\ lastWrite' = [data |-> data, size |-> Len(data), ok |-> FALSE]
                  /\ UNCHANGED <<queue, exit, lastRead>>

Get(size) == /\ size <= Len(queue)
             /\ queue' = SubSeq(queue, size + 1, Len(queue))
             /\ lastRead' = [data |-> SubSeq(queue, 1, size), size |-> size, ok |-> TRUE]
             /\ UNCHANGED <<exit, lastWrite>>

GetFails(size) == /\ exit \/ size > Capacity
                  /\ lastRead' = [data |-> <<>>, size |-> size, ok |-> FALSE]
                  /\ UNCHANGED <<queue, exit, lastWrite>>

Exit == /\ exit' = TRUE
        /\ UNCHANGED <<queue, lastWrite, lastRead>>

Next == \/ \E data \in Messages : Put(data) \/ PutFails(data)
        \/ \E size \in Sizes : Get(size) \/ GetFails(size)
        \/ Exit

Spec == Init /\ [][Next]_vars
=============================================================================
