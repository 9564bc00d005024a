--------------------------- MODULE VortekSession ---------------------------
(***************************************************************************)
(* One Vortek context: the threads of a guest process that call Vulkan     *)
(* (vortek/src/vulkan_calls.c), the request handler thread that executes   *)
(* their calls (request_handler.c), its pool of workers, and the connector *)
(* thread that serves the context's socket and destroys the context        *)
(* (vk_context.c, VortekRendererComponent.java).                           *)
(* The two rings are FIFOs of whole messages (RingBuffer implements them), *)
(* the pool is a list and a set of tasks (ThreadPool), and a call is known *)
(* by its number.  Vulkan is external: a submission that succeeds advances *)
(* one timeline semaphore at once, a wait for one of its values returns    *)
(* when the value is reached or the device is lost.                        *)
(***************************************************************************)
EXTENDS Integers, Sequences, FiniteSets

CONSTANTS Thread,    \* the threads of the guest process
          NoThread,  \* the owner of a free vt_call_mutex
          Op,        \* the calls the guest makes, of the kinds below
          RingSize,  \* requests the server ring holds
          NumThreads,\* THREAD_POOL_NUM_THREADS
          Decoder,   \* the device needs a TextureDecoder
          MayLose,   \* the driver may report VK_ERROR_DEVICE_LOST
          FdsMayFail,\* eventfd, pipe and sendmsg may fail on the host
          MaxValue,  \* bound: the values of the semaphore the guest waits for
          MaxCalls   \* bound: calls the guest makes

\* vkQueueSubmit, vkCreateImage, vkSignalSemaphore, vkDestroyImage, a call whose
\* arguments do not fit in the ring, vkWaitSemaphores, vkCreate*Pipelines.
Ops == {"submit", "create", "signal", "destroy", "big", "waitSem", "pipeline"}
ASSUME OpAssumption    == Op \subseteq Ops
ASSUME BoundAssumption == /\ RingSize \in Nat \ {0} /\ NumThreads \in Nat \ {0}
                          /\ MaxCalls \in Nat /\ MaxValue \in Nat
                          /\ Decoder \in BOOLEAN /\ MayLose \in BOOLEAN
                          /\ FdsMayFail \in BOOLEAN
ASSUME ThreadAssumption == NoThread \notin Thread

VARIABLES lock,       \* the owner of vt_call_mutex
          pc, call,   \* where each guest thread is, and in which call
          calls,      \* calls made so far
          serverRing, clientRing,      \* requests to the host, replies to the guest
          waitStatus, exitStatus,      \* RING_STATUS_WAIT, RING_STATUS_EXIT
          socket, fds,         \* extra data to the host, descriptors to the guest
          extraDataRequests,   \* context->extraDataRequests
          status,     \* context->status is not negative
          hpc, request, clientWaiting, \* the request handler thread
          tasks, running,      \* the pool: waiting and running tasks
          notified,   \* the calls whose event descriptor was written
          semaphore, deviceLost,       \* the driver's state
          epc         \* the connector thread: serving, or how far it has come with
                      \* closing the socket and in destroyVkContext

guest   == <<lock, pc, call, calls>>
rings   == <<serverRing, clientRing, waitStatus, exitStatus>>
sockets == <<socket, fds, extraDataRequests>>
handler == <<hpc, request, clientWaiting>>
pool    == <<tasks, running, notified>>
driver  == <<semaphore, deviceLost>>
vars    == <<guest, rings, sockets, status, handler, pool, driver, epc>>
-----------------------------------------------------------------------------
NoCall == [op |-> "none", id |-> 0, expects |-> "nothing", value |-> 0]
Task(kind, c) == [kind |-> kind, id |-> c.id, value |-> c.value]
Goto(t, place) == pc' = [pc EXCEPT ![t] = place] /\ UNCHANGED call
Return(t) == pc' = [pc EXCEPT ![t] = "idle"] /\ call' = [call EXCEPT ![t] = NoCall]

Init == /\ lock = NoThread /\ pc = [t \in Thread |-> "idle"]
        /\ call = [t \in Thread |-> NoCall] /\ calls = 0
        /\ serverRing = <<>> /\ clientRing = <<>>
        /\ waitStatus = FALSE /\ exitStatus = FALSE
        /\ socket = <<>> /\ fds = <<>> /\ extraDataRequests = {}
        /\ status = TRUE
        /\ hpc = "loop" /\ request = NoCall /\ clientWaiting = FALSE
        /\ tasks = <<>> /\ running = {} /\ notified = {}
        /\ semaphore = 0 /\ deviceLost = FALSE
        /\ epc = "serving"
-----------------------------------------------------------------------------
\* VT_CALL_LOCK, and the arguments of the call: for a wait, the value.
Begin(t, op, value) ==
    /\ pc[t] = "idle" /\ lock = NoThread /\ calls < MaxCalls
    /\ lock' = t /\ calls' = calls + 1
    /\ call' = [call EXCEPT ![t] = [op |-> op, id |-> calls + 1,
                                    expects |-> "nothing", value |-> value]]
    /\ pc' = [pc EXCEPT ![t] = "locked"]
    /\ UNCHANGED <<rings, sockets, status, handler, pool, driver, epc>>

\* What the guest's code does after the request is sent.  For a submission it
\* is decided now, by RING_STATUS_WAIT in the client ring.
Expectation(op) == CASE op = "submit"  -> IF waitStatus THEN "reply" ELSE "nothing"
                     [] op = "destroy" -> "nothing"
                     [] op \in {"waitSem", "pipeline"} -> "fd"
                     [] OTHER -> "reply"

Prepare(t) ==
    /\ pc[t] = "locked"
    /\ call' = [call EXCEPT ![t].expects = Expectation(call[t].op)]
    /\ pc' = [pc EXCEPT ![t] = IF call[t].op = "big" THEN "extra" ELSE "send"]
    /\ UNCHANGED <<lock, calls, rings, sockets, status, handler, pool, driver, epc>>

\* The host has closed the context's socket.
Closed == epc # "serving"

\* vt_send of too large a request: the data goes through the socket first.
SendExtraData(t) ==
    /\ pc[t] = "extra" /\ ~Closed
    /\ socket' = Append(socket, call[t].id)
    /\ Goto(t, "send")
    /\ UNCHANGED <<lock, calls, rings, fds, extraDataRequests, status, handler,
                   pool, driver, epc>>

\* VT_SEND_CHECKED fails: the data cannot be written.
SendExtraFails(t) ==
    /\ pc[t] = "extra" /\ Closed
    /\ lock' = NoThread /\ Return(t)
    /\ UNCHANGED <<calls, rings, sockets, status, handler, pool, driver, epc>>

\* Mutant: a wait that gives up vt_call_mutex before it receives its descriptor.
UnlocksBeforeFds(t) == call[t].expects # "reply"

\* The mutex is kept until the answer of the request is in.
UnlocksAfterSend(t) == call[t].expects = "nothing"

\* Mutant: a writer that does not wait for room.
RoomAlways == TRUE

RoomInRing == Len(serverRing) < RingSize

\* vt_send: the request is in the ring.
Send(t) ==
    /\ pc[t] = "send" /\ RoomInRing
    /\ serverRing' = Append(serverRing, call[t])
    /\ lock' = IF UnlocksAfterSend(t) THEN NoThread ELSE lock
    /\ IF call[t].expects = "nothing" THEN Return(t) ELSE Goto(t, call[t].expects)
    /\ UNCHANGED <<calls, clientRing, waitStatus, exitStatus, sockets, status,
                   handler, pool, driver, epc>>

\* VT_SEND_CHECKED fails: the ring is full and the host has gone away.
SendFails(t) ==
    /\ pc[t] = "send" /\ Len(serverRing) = RingSize /\ exitStatus
    /\ lock' = NoThread /\ Return(t)
    /\ UNCHANGED <<calls, rings, sockets, status, handler, pool, driver, epc>>

\* VT_RECV_CHECKED and VT_CALL_UNLOCK, with a reply or without one.
ReceiveReply(t) ==
    /\ pc[t] = "reply"
    /\ \/ clientRing # <<>> /\ clientRing' = Tail(clientRing)
       \/ clientRing = <<>> /\ exitStatus /\ UNCHANGED clientRing
    /\ lock' = NoThread /\ Return(t)
    /\ UNCHANGED <<calls, serverRing, waitStatus, exitStatus, sockets, status,
                   handler, pool, driver, epc>>

\* recv_fds and VT_CALL_UNLOCK; then the guest reads the descriptor.  Without
\* one, because pipe() failed or the host has closed the socket, a pipeline has
\* failed; a wait reads a descriptor that was never set, which fails or blocks.
ReceiveFd(t) ==
    /\ pc[t] = "fd"
    /\ \/ /\ fds # <<>> /\ fds' = Tail(fds)
          /\ IF Head(fds).ok THEN Goto(t, "event") ELSE Return(t)
       \/ /\ fds = <<>> /\ Closed /\ UNCHANGED fds
          /\ \/ Return(t)
             \/ call[t].op = "waitSem" /\ Goto(t, "event")
    /\ lock' = IF lock = t THEN NoThread ELSE lock
    /\ UNCHANGED <<calls, rings, socket, extraDataRequests, status, handler, pool,
                   driver, epc>>

ReadEvent(t) ==
    /\ pc[t] = "event" /\ call[t].id \in notified
    /\ Return(t)
    /\ UNCHANGED <<lock, calls, rings, sockets, status, handler, pool, driver, epc>>

GuestStep(t) == \/ Prepare(t) \/ SendExtraData(t) \/ SendExtraFails(t)
                \/ Send(t) \/ SendFails(t) \/ ReceiveReply(t)
                \/ ReceiveFd(t) \/ ReadEvent(t)

\* The process ends, wherever its threads are: they take no more steps.  It is
\* killed, or exits, and then terminationCallback sets RING_STATUS_EXIT in both
\* rings.
GuestDies ==
    /\ \E t \in Thread : pc[t] # "dead"
    /\ pc' = [t \in Thread |-> "dead"]
    /\ UNCHANGED exitStatus \/ exitStatus' = TRUE
    /\ UNCHANGED <<lock, call, calls, serverRing, clientRing, waitStatus, sockets,
                   status, handler, pool, driver, epc>>
-----------------------------------------------------------------------------
\* requestHandlerThread: the test of its loop.
Loop == /\ hpc = "loop"
        /\ hpc' = IF status THEN "recv" ELSE "done"
        /\ UNCHANGED <<guest, rings, sockets, status, request, clientWaiting, pool, driver, epc>>

\* vt_recv: a request, or RING_STATUS_EXIT and no request.
Receive ==
    /\ hpc = "recv" /\ serverRing # <<>>
    /\ request' = Head(serverRing) /\ serverRing' = Tail(serverRing)
    /\ hpc' = IF Head(serverRing).op = "big" THEN "extra" ELSE "handle"
    /\ UNCHANGED <<guest, clientRing, waitStatus, exitStatus, sockets, status,
                   clientWaiting, pool, driver, epc>>

ReceiveFails ==
    /\ hpc = "recv" /\ serverRing = <<>> /\ exitStatus
    /\ hpc' = "done"
    /\ UNCHANGED <<guest, rings, sockets, status, request, clientWaiting, pool, driver, epc>>

\* waitForExtraDataRequest polls the list until its entry is there.
FindExtraData ==
    /\ hpc = "extra" /\ status /\ request.id \in extraDataRequests
    /\ extraDataRequests' = extraDataRequests \ {request.id}
    /\ hpc' = "handle"
    /\ UNCHANGED <<guest, rings, socket, fds, status, request, clientWaiting, pool, driver, epc>>

ExtraDataFails ==
    /\ hpc = "extra" /\ ~status
    /\ hpc' = "done"
    /\ UNCHANGED <<guest, rings, sockets, status, request, clientWaiting, pool, driver, epc>>

\* vt_handle_vkCreateImage: RING_STATUS_WAIT is set before the reply is sent.
HandleCreate ==
    /\ hpc = "handle" /\ request.op = "create"
    /\ \/ Decoder /\ waitStatus' = TRUE \* the format is decoded on the host
       \/ UNCHANGED waitStatus
    /\ hpc' = "reply"
    /\ UNCHANGED <<guest, serverRing, clientRing, exitStatus, sockets, status, request,
                   clientWaiting, pool, driver, epc>>

\* A call that waits for its result; vkSignalSemaphore advances the semaphore.
HandleSync ==
    /\ hpc = "handle" /\ request.op \in {"signal", "big"}
    /\ semaphore' = IF request.op = "signal" THEN semaphore + 1 ELSE semaphore
    /\ hpc' = "reply"
    /\ UNCHANGED <<guest, rings, sockets, status, request, clientWaiting, pool, deviceLost, epc>>

HandleDestroy ==
    /\ hpc = "handle" /\ request.op = "destroy"
    /\ hpc' = "loop"
    /\ UNCHANGED <<guest, rings, sockets, status, request, clientWaiting, pool, driver, epc>>

\* send_fds, whose failure nobody looks at: the guest waits on.
SendDescriptor(ok) ==
    \/ ~Closed /\ fds' = Append(fds, [id |-> request.id, ok |-> ok])
    \/ (FdsMayFail \/ Closed) /\ UNCHANGED fds

\* vt_handle_vkWaitSemaphores and AsyncPipelineCreator_create: the descriptor
\* is sent, then a worker is given the rest; without a pipe, the guest is told
\* and there is no task.
SendFd ==
    /\ hpc = "handle" /\ request.op \in {"waitSem", "pipeline"}
    /\ \/ SendDescriptor(TRUE) /\ hpc' = "run"
       \/ /\ FdsMayFail /\ request.op = "pipeline"
          /\ SendDescriptor(FALSE) /\ hpc' = "loop"
    /\ UNCHANGED <<guest, rings, socket, extraDataRequests, status, request,
                   clientWaiting, pool, driver, epc>>

RunTask ==
    /\ hpc = "run"
    /\ tasks' = Append(tasks, Task(request.op, request))
    /\ hpc' = "loop"
    /\ UNCHANGED <<guest, rings, sockets, status, request, clientWaiting, running,
                   notified, driver, epc>>

\* Mutant: a submission the handler never answers.
NeverWaiting == FALSE

\* RingBuffer_hasStatus(context->clientRing, RING_STATUS_WAIT).
ClientWaiting == waitStatus

\* vt_handle_vkQueueSubmit: is the client waiting; then decode the textures.
HandleSubmit ==
    /\ hpc = "handle" /\ request.op = "submit"
    /\ clientWaiting' = ClientWaiting
    /\ hpc' = IF Decoder THEN "decode" ELSE "submit"
    /\ UNCHANGED <<guest, rings, sockets, status, request, pool, driver, epc>>

\* BCDecoder_decode gives the pool its tasks; images that are small, cached or
\* not there need none.
DecodeAll ==
    /\ hpc = "decode"
    /\ \/ tasks' = Append(tasks, Task("decode", request)) /\ hpc' = "decoding"
       \/ UNCHANGED tasks /\ hpc' = "early"
    /\ UNCHANGED <<guest, rings, sockets, status, request, clientWaiting, running,
                   notified, driver, epc>>

\* ThreadPool_wait waits for every task of the pool, not only for its own.
DecodeDone ==
    /\ hpc = "decoding" /\ tasks = <<>> /\ running = {}
    /\ hpc' = "early"
    /\ UNCHANGED <<guest, rings, sockets, status, request, clientWaiting, pool, driver, epc>>

\* Mutant: the client is answered now and answered again after the submission.
StaysWaiting == clientWaiting

\* `if (clientWaiting && !(clientWaiting = false))`
AfterEarlyReply == FALSE

Reply(result) == clientRing' = Append(clientRing, [id |-> request.id, ok |-> result])

EarlyReply ==
    /\ hpc = "early"
    /\ IF clientWaiting THEN Reply(TRUE) ELSE UNCHANGED clientRing
    /\ clientWaiting' = AfterEarlyReply
    /\ hpc' = "submit"
    /\ UNCHANGED <<guest, serverRing, waitStatus, exitStatus, sockets, status, request,
                   pool, driver, epc>>

\* The driver's vkQueueSubmit.
Submit ==
    /\ hpc = "submit"
    /\ \/ ~deviceLost /\ semaphore' = semaphore + 1 /\ UNCHANGED <<deviceLost, status>>
       \/ MayLose /\ deviceLost' = TRUE /\ status' = FALSE /\ UNCHANGED semaphore
    /\ hpc' = IF clientWaiting THEN "reply" ELSE "loop"
    /\ UNCHANGED <<guest, rings, sockets, request, clientWaiting, pool, epc>>

SendReply ==
    /\ hpc = "reply"
    /\ Reply(~deviceLost)
    /\ hpc' = "loop"
    /\ UNCHANGED <<guest, serverRing, waitStatus, exitStatus, sockets, status, request,
                   clientWaiting, pool, driver, epc>>

HandlerStep == \/ Loop \/ Receive \/ ReceiveFails \/ FindExtraData \/ ExtraDataFails
               \/ HandleCreate \/ HandleSync \/ HandleDestroy \/ SendFd \/ RunTask
               \/ HandleSubmit \/ DecodeAll \/ DecodeDone \/ EarlyReply \/ Submit
               \/ SendReply
-----------------------------------------------------------------------------
WorkerFree == Cardinality(running) < NumThreads

StartTask ==
    /\ tasks # <<>> /\ WorkerFree
    /\ running' = running \cup {Head(tasks)} /\ tasks' = Tail(tasks)
    /\ UNCHANGED <<guest, rings, sockets, status, handler, notified, driver, epc>>

\* waitSemaphoresThread is inside vkWaitSemaphores until the value is reached.
Blocked(k) == k.kind = "waitSem" /\ semaphore < k.value /\ ~deviceLost

\* Mutant: a semaphore wait whose descriptor is closed and not written.
NotifiesPipelines(k) == k.kind = "pipeline"

Notifies(k) == k.kind \in {"waitSem", "pipeline"}

FinishTask(k) ==
    /\ k \in running /\ ~Blocked(k)
    /\ running' = running \ {k}
    /\ notified' = IF Notifies(k) THEN notified \cup {k.id} ELSE notified
    /\ UNCHANGED <<guest, rings, sockets, status, handler, tasks, driver, epc>>
-----------------------------------------------------------------------------
\* handleExtraDataRequest, on the connector thread.
ReadExtraData ==
    /\ epc = "serving" /\ socket # <<>>
    /\ extraDataRequests' = extraDataRequests \cup {Head(socket)}
    /\ socket' = Tail(socket)
    /\ UNCHANGED <<guest, rings, fds, status, handler, pool, driver, epc>>

\* killConnection closes the socket: the guest hung up, or the component is
\* being stopped.
BeginDestroy ==
    /\ epc = "serving"
    /\ epc' = "status"
    /\ UNCHANGED <<guest, rings, sockets, status, handler, pool, driver>>

\* destroyVkContext
SetStatus ==
    /\ epc = "status"
    /\ status' = FALSE /\ epc' = "exit"
    /\ UNCHANGED <<guest, rings, sockets, handler, pool, driver>>

\* Mutants: EXIT is not set in the server ring; the thread is not joined.
ExitForgotten == exitStatus
NotJoined     == TRUE

ExitSet == TRUE
Joined  == hpc = "done"

SetExit ==
    /\ epc = "exit"
    /\ exitStatus' = ExitSet /\ epc' = "join"
    /\ UNCHANGED <<guest, serverRing, clientRing, waitStatus, sockets, status, handler,
                   pool, driver>>

JoinHandler ==
    /\ epc = "join" /\ Joined
    /\ epc' = "pool"
    /\ UNCHANGED <<guest, rings, sockets, status, handler, pool, driver>>

\* ThreadPool_destroy drops the tasks nobody took and waits for the others.
DropTasks ==
    /\ epc = "pool"
    /\ tasks' = <<>> /\ epc' = "wait"
    /\ UNCHANGED <<guest, rings, sockets, status, handler, running, notified, driver>>

FreeContext ==
    /\ epc = "wait" /\ running = {} /\ tasks = <<>>
    /\ extraDataRequests' = {} /\ epc' = "freed"
    /\ UNCHANGED <<guest, rings, socket, fds, status, handler, pool, driver>>

DestroyStep == SetStatus \/ SetExit \/ JoinHandler \/ DropTasks \/ FreeContext
-----------------------------------------------------------------------------
Next == \/ \E t \in Thread, op \in Op \ {"waitSem"} : Begin(t, op, 0)
        \/ \E t \in Thread, value \in 1 .. MaxValue : "waitSem" \in Op /\ Begin(t, "waitSem", value)
        \/ \E t \in Thread : GuestStep(t)
        \/ GuestDies
        \/ HandlerStep
        \/ StartTask \/ \E k \in running : FinishTask(k)
        \/ ReadExtraData \/ BeginDestroy \/ DestroyStep

Spec == Init /\ [][Next]_vars

\* Every thread inside a call or a loop is scheduled, and a guest that has hung
\* up is noticed.  Nothing makes the guest call, die, or the host stop.
Fairness == /\ \A t \in Thread : WF_vars(GuestStep(t))
            /\ WF_vars(HandlerStep)
            /\ WF_vars(StartTask) /\ WF_vars(\E k \in running : FinishTask(k))
            /\ WF_vars(ReadExtraData) /\ WF_vars(DestroyStep)
            /\ WF_vars(BeginDestroy /\ \A t \in Thread : pc[t] = "dead")

FairSpec == Spec /\ Fairness
-----------------------------------------------------------------------------
CallOK(c) == /\ c.op \in Ops \cup {"none"} /\ c.id \in 0 .. MaxCalls
             /\ c.expects \in {"nothing", "reply", "fd"} /\ c.value \in 0 .. MaxValue

\* Every variable has its type, and the ring and the pool keep their limits.
TypeOK ==
    /\ lock \in Thread \cup {NoThread} /\ calls \in 0 .. MaxCalls
    /\ pc \in [Thread -> {"idle", "locked", "extra", "send", "reply", "fd", "event", "dead"}]
    /\ \A t \in Thread : CallOK(call[t])
    /\ Len(serverRing) <= RingSize /\ \A i \in DOMAIN serverRing : CallOK(serverRing[i])
    /\ CallOK(request) /\ clientWaiting \in BOOLEAN
    /\ waitStatus \in BOOLEAN /\ exitStatus \in BOOLEAN /\ status \in BOOLEAN
    /\ Cardinality(running) <= NumThreads
    /\ notified \subseteq 1 .. MaxCalls /\ extraDataRequests \subseteq 1 .. MaxCalls
    /\ semaphore \in 0 .. MaxCalls /\ deviceLost \in BOOLEAN

\* A reply in the client ring is for the call that holds vt_call_mutex and
\* waits for it, and is the only one: the guest's and the host's reading of
\* RING_STATUS_WAIT never disagree about a submission.  (Once the context is
\* being destroyed a call may give up and leave its reply behind.)
RepliesMatch ==
    (clientRing # <<>> /\ ~exitStatus) =>
        /\ Len(clientRing) = 1
        /\ \E t \in Thread : /\ Head(clientRing).id = call[t].id
                             /\ pc[t] \in {"reply", "dead"} /\ lock = t

\* A descriptor on its way to the guest is for the call that waits for it:
\* no thread can take another thread's fence, pipeline or semaphore.
FdsMatch ==
    fds # <<>> =>
        /\ Len(fds) = 1
        /\ \E t \in Thread : Head(fds).id = call[t].id /\ pc[t] \in {"fd", "dead"} /\ lock = t

\* destroyVkContext frees a context that no thread of the host uses any more.
SafeTeardown == epc = "freed" => hpc = "done" /\ running = {} /\ tasks = <<>>

\* What the host's design cannot answer: the handler waits for the whole pool
\* before a submission, while a worker waits for a value that only a later
\* request can reach.
WaitStuck   == \E k \in running : Blocked(k)
DecodeStuck == hpc = "decoding" /\ WaitStuck

\* vt_call_mutex is always given up again, so every call that waits for the
\* host under it returns: unless the device is lost (the handler then ends and
\* sets no RING_STATUS_EXIT), or a descriptor cannot be sent (FdsMayFail), or the
\* decoder is stuck behind a semaphore wait, or the guest dies with it or the
\* host ends the context.
CallsReturn ==
    \/ <>(deviceLost \/ epc # "serving") \/ <>[]DecodeStuck
    \/ lock # NoThread ~> lock = NoThread

\* A wait or a pipeline handed to the pool is answered too, unless values that
\* nobody reaches keep workers of the pool for ever.
EventsArrive ==
    \/ <>(deviceLost \/ epc # "serving") \/ <>[]WaitStuck
    \/ \A t \in Thread : pc[t] = "event" ~> pc[t] # "event"

\* The connector thread, which serves the other contexts too, comes back from
\* destroyVkContext, unless a worker is left in a wait that nothing ends.
TeardownEnds == <>[]WaitStuck \/ (epc # "serving" ~> epc = "freed")
=============================================================================
