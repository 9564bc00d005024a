# A formal model of the Winlator runtime

This directory holds TLA+ specifications of the parts of this repository that
move requests between processes and threads, or that must survive a kill: what
they do, what they promise, model-checking instances for TLC and proofs for
TLAPS. Every definition that stands for code is listed with its lines in
`PROJECT.json` ("map").

## 1. The system

The application runs Windows programs under Box64 and Wine in a root file
system of its own. The *guest* is the set of Linux processes in that file
system; the *host* is the Android application that starts them, shows their
windows, plays their sound and executes their graphics calls. The two talk
over Unix sockets and shared memory.

| Component | Code | State | Operations | Interacts through |
|---|---|---|---|---|
| Shared-memory ring | `winlator/src/ring_buffer.c`, `include/ring_buffer.h` | head, tail, status, cells, in memory both processes map | create, read, write, read in place, set status, free | polling of the other side's counter |
| Thread pool | `winlator/include/thread_pool.h` | task list, worker counts, two mutexes, two conditions | init, run, wait, destroy | one owner thread; tasks are callbacks |
| Vortek (Vulkan) | guest `vortek/src`, host `vortekrenderer` | per context: two rings, a socket, extra-data list, pool, decoder | hundreds of calls of five shapes: reply, no reply, descriptor, descriptor and pool task, too large for the ring | ring, socket descriptors, pool, connector callbacks |
| Gladio (OpenGL) | guest `gladio`, host `gladiorenderer` | as Vortek, without a pool | as Vortek; reads requests in place | ring, socket |
| Socket connector | `winlator/src/xconnector_epoll.c`, `xconnector/` | epoll set, clients, their threads | accept, serve, kill, destroy | JNI callbacks to each component |
| X server core | `xserver/` | windows, pixmaps, clients, ids, focus, grabs, selections, pointer, keyboard | the requests of `XClientRequestHandler` | named locks, listeners, events |
| X extensions | `xserver/extensions` | fences, Present registrations, shared segments | their requests | X server core |
| SysV shared memory | `sysvshared_memory.c`, `sysvshm/` | segments, sizes, attach counts | get, attach, detach, delete | socket; X server's MIT-SHM |
| ALSA server | `alsaserver/` | one stream per client: format, buffers, play state | start, write, pause, release, drain | socket, shared buffer, AAudio |
| Windows handler | `winhandler/` | queue of actions, pending callback, gamepad state | exec, list processes, query a path, gamepad and MIDI input | UDP with the guest |
| Containers | `container/`, `core/FileUtils.java` | directories `xuser-N` with `.container`, the list in memory | load, create, duplicate, import, export, remove, save, activate | disk |
| Environment, installer | `xenvironment/` | components started | start, stop in order; unpack files | all of the above |
| User interface, controls, renderer | activities, `inputcontrols/`, `renderer/` | Android views | toolkit callbacks | X server, WinHandler |
| Vendored | `virglrenderer`, `libadrenotools`, `fluidsynth`, ALSA headers | | | |

Where the hard behaviour is:

* *two threads without a lock*: the ring; both sides decide from a counter
  that the other side is changing;
* *locks and conditions*: the pool; and the fact that Vortek uses one pool for
  tasks that never block, tasks that block for a while, and a barrier over both;
* *pairing of requests with answers*: a Vulkan call is answered through the
  client ring, by a descriptor on the socket, or not at all, and whether a
  submission is answered is decided on both sides from one status bit;
* *teardown*: the guest may die anywhere in a call, and the thread that notices
  it must get the others out of what they are blocked in, before it frees it;
* *kills and failed writes*: a container is many files, made in several steps;
* *single threads that serve everybody*: the X server's and each connector's.

What makes each component correct, modelled or planned: a ring is a FIFO byte
stream; a pool loses no task and its wait is a barrier; a call gets its own
answer and comes back; a container is never harmed by an operation on another;
a connector tells its owner once about each client that went away; the X
server's references (focus, grab, selection, listeners) never name something
destroyed; a segment lives exactly as long as somebody holds it; a blocking
query ends with the answer or the time limit. The list of hazards, line by line,
is in `PROJECT.json`.

## 2. The modules

### `ByteStream` and `RingBuffer`

`ByteStream` is the abstract specification: a bounded queue of bytes, a write
that appends all its bytes at once, a read that removes exactly what it
returns, failures only for a size above the capacity or after exit.

`RingBuffer` is the code. `head`, `tail`, `buffer` and `exit` are the shared
words; `wpc`, `wdata`, `wcopied` are the producer's locals, `rpc`, `rsize`,
`rborrow`, `rdata` the consumer's; `lastWrite` and `lastRead` record what the
last call returned. One step is one load of the other side's counter
(`WriterSeesRoom`, `WriterSeesFull`, ...), one look at the status word, one
byte of a `memcpy` (`CopyIn`, `CopyOut`) or one store of a counter (`SetTail`,
`SetHead`). The counters are release/acquire atomics, so interleaving these
steps covers what C11 allows. `CounterMod` is 2^32 in the code; the masks are
remainders because sizes are powers of two. Each thread may load its *own*
counter together with its next step, since nobody else writes it.
The library exists in two copies of the same source, one linked in the guest
and one in the host; there is one producer and one consumer per ring.

`BorrowAssumption` is a limit of the code, stated as an assumption: a read in
place that ends exactly where the counter wraps to zero is not published
(`ring_buffer.h:66`), so the refinement is checked for such reads only before
the first wrap, 4 GiB of requests in the code.

### `ThreadPool`

One action per critical section or per point where a thread can block, for
the workers (`Loop` ... `Exit`) and for the one thread that owns the pool
(`CallRun`, `CallWait`, `CallDestroy` and their steps). A mutex is a variable
that names its owner; a condition is the set of threads asleep on it; signal
removes one of them, chosen arbitrarily. `SpuriousWakeup` removes one for no
reason. `task`, `finished`, `dropped` and `submitted` are the ledger of tasks
that the properties speak about. After `Free` a new pool may be made, so
state left over from the old one would show.

One owner is what the code has: `ThreadPool_run` and `ThreadPool_wait` are
called by the request handler of the context, and `ThreadPool_destroy` by the
connector thread after it has joined that handler.

### `VortekSession`

One context, composed of the threads that take part in it: the guest's threads
(`GuestStep`), the request handler (`HandlerStep`), the pool's workers
(`StartTask`, `FinishTask`) and the connector thread (`ReadExtraData`,
`BeginDestroy`, `DestroyStep`). The rings are sequences of whole messages and
the pool is a list and a set of running tasks: what `RingBuffer` and
`ThreadPool` show of them. Only the server ring can be full; a reply always has
room, because a guest that waits for one has read those before it.

Vulkan calls are represented by one call of each shape:

| kind | stands for | shape |
|---|---|---|
| `create` | calls with a result | request, reply; may set `RING_STATUS_WAIT` |
| `signal` | the same, and advances the semaphore | request, reply |
| `destroy` | calls without a result | request |
| `submit` | `vkQueueSubmit`, `vkQueueSubmit2` | request, reply only if the status word says so; textures decoded first |
| `big` | a call whose arguments exceed the ring | extra data on the socket, request, reply |
| `waitSem` | `vkWaitSemaphores` | request, descriptor, pool task, event |
| `pipeline` | `vkCreateGraphicsPipelines`, `vkCreateComputePipelines` | the same |

The driver is external: one timeline semaphore, advanced by a submission or by
`vkSignalSemaphore`; a submission may report the device lost.

What can fail on the way is modelled where the code meets it. `eventfd`, `pipe`
and `sendmsg` may fail on the host (`FdsMayFail`): a pipeline without a pipe is
told to the guest and gets no task, everything else is not looked at, and the
guest goes on waiting. Once the host has closed the socket (`Closed`), which
`killConnection` does before `destroyVkContext` begins, extra data cannot be
written and `recv_fds` returns nothing: a pipeline has then failed, a wait reads
a descriptor that was never set. The guest is killed, or leaves through
`terminationCallback`, which sets `RING_STATUS_EXIT` in both rings; its exit is
one step. The handler goes on using the number of the closed socket until it is
joined; that the number may be given to another file meanwhile is not modelled
(section 6).

### `FenceWait`

`vkWaitForFences` is the one call whose answer the guest computes itself: the
host exports the fences as descriptors, sends them and is free again, and the
guest polls. `host` follows the handler (`Export`, `SendFds`, `SendFails`,
`CloseFds`, or `Query` for a timeout of 0), `guest` the caller; `exit` is
`RING_STATUS_EXIT`, which releases a guest that reads the ring, as the end of the
connection releases one in `recv_fds` (`Released`); `slots` is the
handler's array, in which an entry is a descriptor, -1 or never written (and then
closed all the same, whatever descriptor of the host it happens to be); `wire`
is the answer under way. `wait` holds the locals of `waitForEvents`: `polled`
is `pfds`, `remaining` its bound, `seen` the array `signaled`. One step is one
return of `poll` with the loop over its results (`PollReturns`), which touches
nothing but locals; `Repacked` is `pfds` for the next round, whose entry `k` is
the `k`-th that was not ready (`Kth`); `Tick` is a millisecond spent in `poll`.
Fences signal at any moment and stay signalled during the call. Conversions of
the timeout are modelled with their widths: nanoseconds to milliseconds, which
cuts off the fraction, then to an `int`. `send_fds` has room for `MaxFds` = 32
descriptors; what a call with more fences does is not modelled.
The call mutex and the rest of the session are `VortekSession`'s.

### `ContainerManager`

The disk (`config`, `complete`), the list in memory (`containers`,
`maxContainerId`) and the operation in progress (`op`), with the steps at which
a kill leaves something different behind: directory made, files half written,
configuration truncated, written, registered; files deleted, directory deleted.
Operations do not overlap: the interface shows a dialog that cannot be
cancelled while one runs (`PreloaderDialog.java:23`, `ContainersFragment.java`).
`Kill` ends the application in an operation, `Quit` between two of them;
A failed write (`WriteFails`), a delete that stops part way (`DeleteFails`: a
removed container then stays in the list, half deleted, and a failed creation or
import leaves its directory) and a `JSONException` of `createContainer` after
`mkdirs` (`CreateThrows`: the empty directory stays) are counted in `faults`
together with the kills, and `MaxFaults` bounds them.
`Load` is the constructor, which stops at the first configuration it cannot
read, in whatever order the file system lists the directories.
`complete` remembers which directories hold a container that was once listed
and has lost no file: the user's data.

### `XConnector`

`XConnectorEpoll` with a thread per client, which only the ALSA server asks
for. `ui` is the thread that calls `destroy()` (`Stop`, `Free`, `Forget`),
`epoll` the thread that accepts and, at its end, kills what is left
(`KillIsEmpty` ... `KillEnd`), `pc[c]` the thread of a client (`ClientStart` ...
`ClientLeaves`). `list` is the Java list of clients: `ArrayList.remove(0)`, which
the epoll thread calls without the monitor, reads the list in `KillTake` and
writes it back in `KillStore`; `remove(Object)` finds an index in `ClientTells`
and removes there in `ClientRemoves`, inside the monitor (`MonitorFree`). An index
or a list that is stale by then does to the list what the code does. `poll` may
be interrupted (`ClientPollFails`): that client tells the handler and leaves,
but nobody closes its descriptors. Accepting, `eventfd` and `pthread_create` do not fail in the model; requests have no
content.

### `XServerCore`

The state that the X server's clients share: clients with their id bases and
resources (`status`, `base`, `idBases`, `resources`), the tree (`windows`,
`parent`, `mapped`), event selections as both sides remember them (`listeners` in
the window, `selected` in the client), focus, pointer, grab and one selection. A
request or an input event is one action, since each holds the window manager's
lock throughout; `XClient.freeResources` is a loop of actions that exclude the
others, as it holds every lock. What is visible and what is below a window are
defined by paths from the root (`Reachable`) without recursion. Geometry is
abstracted: the pointer may be over any viewable window. A destroyed window keeps
its listeners, as `XClient.onFreeResource` only forgets the client's entry; a
grab that outlives it sends a press to all of them (`OrphanListener`), those of
clients that left included. `escaped` says that an
exception left a handler, after which the model stops.

### `WinHandler`

The application's end of the datagrams exchanged with `winhandler.exe`. `x`
follows `getExecutablePath` on the X server's thread, `ui` the user interface's
thread in `addAction` and `stop`, `sender` and `receiver` the two threads of
`start`. `monitor` is the monitor of `actions` as far as it is held from one step
to the next, `callbackLock` that of the callback. A request whose rest comes in a
second datagram is handled in two steps inside the monitor (`HandleHead`,
`ReceiveBody`), one that is empty in one (`HandleEmpty`: an answer without a path,
a `PRE_EXEC` without a program). The guest is external: it answers queries in order, another
process sends requests of its own, and any datagram may be lost. `late`, `lost`
and `missed` remember what the properties except.

## 3. The runs

| Run | Instance | Shows |
|---|---|---|
| `ring_safety` | 4 cells, counters modulo 8, messages of 1, 3 and 5 bytes, reads of 1, 3, 5 | the ring implements `ByteStream`; claims hold; no shared cell |
| `ring_borrow` | reads in place of 0, 3 and 6 bytes, writes up to the last byte before the wrap | the same with `RING_READ_BEGIN`; exit releases both threads; a complete message is read unless the ring is told to exit (the code then fails without looking at the size again), a copy once begun succeeds |
| `pool` | 2 workers, 3 tasks, 2 spurious wake-ups | counts, tasks, barrier, no use after free, every call returns |
| `vortek_safety` | 2 guest threads, 3 calls of all 7 kinds, 2 workers, ring of 2 | replies and descriptors reach their call; teardown is safe |
| `vortek_liveness` | 2 guest threads, 3 calls of 5 kinds (without `signal` and `destroy`), one value to wait for, 1 worker, ring of 1 | calls return, events arrive, teardown ends |
| `fences` | 3 fences, timeouts of 0, under 1 ms, 1 to 3 ms, more than an `int` holds, endless | a true outcome; a limited wait takes at most its timeout per fence and `VK_TIMEOUT` is early by less than a millisecond; descriptors closed |
| `xserver_tree` | 2 clients, 2 windows, all focus modes, a selection | references, ids, the end of a grab |
| `xserver_events` | 2 clients, 2 windows and the root, events on one of them, masks with and without an exclusive event | listeners, exclusive selections |
| `xconnector` | 3 clients | shutdown told once, clients end before the connector is freed, destroy returns, with interrupted waits |
| `winhandler` | 2 queries, 1 request, 1 request of another process, buffer of 2 | answers match, the monitor comes free, stop is heard |
| `containers` | 3 directories, 2 faults (kills, failed writes and deletes, JSON exceptions) | ids and other containers whatever fails; list and disk agree as long as nothing failed |
| `containers_import` | the same, 1 fault | a violation, see section 6 |

**Bounds.** The ring is checked for unboundedly long runs: the counters wrap,
so the state space is finite without a limit on the number of writes. Counters
modulo twice the size are the tightest that the code's assumptions allow. Two
byte values tell any two positions of the stream apart; a message of three in a
ring of four makes copies straddle the end at every offset. Two workers are
enough for one to take a task while the other falls asleep, ends or is
signalled in vain, and three tasks for one to be queued behind two running; a
third worker adds no new pair of places. In the Vortek runs three calls by two
threads give one call in progress, one waiting for the mutex and one that has
already given it up; one worker with two waits is the smallest pool that can be
exhausted. Three fences are the fewest for which a round of the poll loop can
find some but not all, in the middle or at an end, and be followed by a round
that does so again; an `int` of three bits makes some timeouts wrap to a
negative and some to a shorter one. Two X clients give one
that acts on the windows of another and one that comes after another is gone,
with two id bases so that the second has one or takes a freed one; with one base
(`xserver_events`) a second client beside the first has none. Two windows make a chain,
two siblings, and windows of different clients below each other; for events
(`EventWindows`) one window with listeners and one that can hide it are enough
for a grab to outlive its window, which takes a window that is moved below one
that is not mapped and is destroyed with it. Three connector clients let one be
killed while one leaves by itself and one comes, so that a list of three is
changed from both sides. Two queries are what a late answer needs, and one
foreign request of two datagrams what mixing needs. For the containers three ids give one below, one at and one above
the highest listed one, and two faults an interrupted recovery from an
interrupted operation.

**Deadlock** is checked except in the Vortek runs, where a guest that died and
a context that was freed are the end, in `fences`, where a behaviour is one
call, and in `winhandler`, where the application ends, or hangs when a datagram
was lost (section 6). In `XServerCore` and `XConnector` the end is a step of
its own (`Stopped`, `Over`), so that any other deadlock is found.

**Fairness.** `RingBuffer`: weak fairness of each thread inside a call: the
threads spin with `sched_yield` and `usleep` and are scheduled by the kernel;
no fairness makes a thread call. `ThreadPool`: weak fairness of the owner inside
a call and of every worker; that a task returns is part of it, and a mutex need
not be fair, because no thread can take it again and again while another
waits. `VortekSession`: weak fairness of each thread in a call or loop, of the
workers, and of the connector's noticing that the guest hung up, which `epoll`
reports. Nothing makes the guest call or die or the host stop. `FenceWait`: weak
fairness of the handler, of the calling thread and of time; no fence has to
signal. `XConnector`: weak fairness of `destroy` once called, of the epoll
thread, except that nobody has to connect or interrupt it, and of each client's
thread, whose peer need not send. `XServerCore` and `WinHandler` are checked for
safety only: a request of the X server is one step, and the two ways in which a
thread of `WinHandler` can be left asleep or blocked are stated as states that
are not reached.

**What the liveness properties except.** `CallsReturn`, `EventsArrive` and
`TeardownEnds` name the situations in which the design cannot give an answer: a
lost device (the handler ends without setting exit), a decoder stuck behind a
semaphore wait in the same pool (`DecodeStuck`), and a worker left in a wait
for a value nobody signals (`WaitStuck`). TLC finds a counterexample when any one of these exceptions is left out
(for the first, with `MayLose` set, which the run does not), and when
`FdsMayFail` is set: a descriptor that cannot be sent leaves the guest in
`recv_fds` with `vt_call_mutex` until the host ends the context. `CallReturns` of
`FenceWait` starts from an answer on the wire (or the end of the ring or the connection it comes through), since a
`sendmsg` that fails sends none, and promises an end without signals only for
the timeouts that survive their conversion (`Limited`).

**What the safety properties except.** `ClientsEndFirst` excepts a client's
thread that changes the list while the connector is being shut down (`raced`),
and, of what an ended client has given back, the descriptors of one whose `poll`
failed (`pollFailed`);
`AnswersMatch` what follows a query that gave up before its answer (`late`) or
`stop()`; `MonitorComesFree` a lost datagram (`lost`); `StopIsHeard` a sender
between its test and its wait (`missed`); `ExclusiveUnlessDeselected` a client that had
stopped selecting the event (`deselected`); `ListenersAreConnected` the
listeners that destroyed windows keep; `NothingLeftBehind` the clients beyond the
id bases; `GrabEndsWithView` windows that are moved in the tree. Each is a case in which the code does break what the property says,
listed in section 6, and TLC shows it when the exception is left out.

Every property of every passing run has at least one mutant in
`PROJECT.json`: a plausible bug in a definition it depends on (a dropped test,
an early publication, a forgotten count) under which TLC finds it violated.

## 4. The proofs

Every safety invariant and every action property that a passing run checks, and
the refinement of `ByteStream`, is also a theorem, proved by TLAPS for every
value of the constants. Each component has a proof module named after it
(`RingBufferProofs`, `ThreadPoolProofs`, ...), laid out alike: the parts of the
inductive invariant, lemmas about the operators, one lemma per action or group
of actions that it keeps the invariant, `InductiveInvariant`
(`Spec => []IInv`), and the theorems that follow from it. TLC checked each
`IInv` on the instances of section 3 before it was proved.

The only hypotheses are the assumptions the modules name:

| Module | Assumed |
|---|---|
| `RingBuffer` | `SizeAssumption`: the size divides the counters' modulus, which is at least twice as large (in the code, powers of two and 2^32); `CallAssumption`: types; `BorrowAssumption`: see section 2 |
| `ThreadPool` | workers are finite, there is one, and the owner is not among them |
| `VortekSession` | at least one slot in the ring and one worker; `NoThread` is no thread |
| `FenceWait` | 1 to 32 fences (`MAX_FDS`); milliseconds have a length; the width of an `int` is even |
| `XServerCore` | ids are numbers, masks and focus modes are those of the code, `EventWindows` are windows, `NoClient` is no client |
| `XConnector` | clients are finite and `NoClient` is none |
| `WinHandler`, `ContainerManager` | the bounds are natural numbers, the inbox holds a datagram |

The bounds on calls, queries, faults, windows and tasks are constants, so the
theorems hold for each of them.

### The ring

`TypeCorrect`, `ClaimsHold` (`Claims`), `RaceFree` (`NoSharedCell`) and
`Refinement` (`ImplementsStream`).

`NoSharedCell` alone is not inductive, since a producer about to
copy must know that the room it saw is still there. `Claims` says so: the ring
holds at most `BufferSize` bytes; a producer that copies fits in the free space;
a consumer that copies finds its bytes. A step of the other thread can only make
more room (`SetHead` subtracts from the size what the consumer claimed) or more
data (`SetTail` adds what the producer claimed), and both stay within the ring
by the other thread's claim. `IInv == TypeOK /\ Claims` is inductive.
The arithmetic of wrapping counters is in lemmas: the
size after a store is the old size plus or minus the amount. `RaceFree` then
follows without temporal reasoning: the unread cells start at `head` and number
`Size`, the claimed ones start at `tail = head + Size` and number at most
`BufferSize - Size`, and two offsets less than `BufferSize` apart differ
modulo `BufferSize` (`CellsDiffer`).

For `Refinement` the invariant grows by `Called` (a call keeps its arguments and
starts at their first byte), `Copied` (what is copied so far, in either
direction, is what is to be copied) and `Straight` (counters that do not wrap
are in order, where reads in place are made). Each action then maps to one
action of `ByteStream` or to a stutter: `CopyIn` and `CopyOut` to stutters,
since the cell written is apart from every unread one; `SetTail` to `Put`, since
the cell `i` places after `tail` is `Size + i` places after `head`; `SetHead` to
`Get`; a refused call or one that saw the exit to `PutFails` or `GetFails`.
`Straight` is used once, for `RING_READ_END` with a new head of zero: it is the
only step whose refinement fails without `BorrowAssumption`.

### The thread pool

`ExactCounts` (`CountsExact`), `TasksOnce` (`EveryTaskOnce`), `FreedLast`
(`NoUseAfterFree`) and `Barrier` (`WaitIsBarrier`), for any finite set of
workers.

The invariant is `Locks` (a mutex is owned by the thread inside its sections),
`Sleepers`, `Lifetime` (which calls are possible, and that all workers are gone
before the free), `Counts` (the two numbers are the cardinalities of the busy and
of the living workers), `Holding` (a worker has its own task from `Take` to its
return) and `Order` (tasks taken, queued and dropped are consecutive numbers).
`CountsExact` is not inductive without `Locks`: `Take` changes the list and the
count in one step only because both mutexes are held. The barrier
follows from `Order` and `Counts`: an empty list and no busy worker leave no
task that is neither finished nor dropped.

### The Vortek session

`TypeCorrect` (`TypeOK`), `OwnReplies` (`RepliesMatch`), `OwnDescriptors`
(`FdsMatch`) and `TeardownSafe` (`SafeTeardown`), for any number of guest
threads, calls, workers and slots, with and without a decoder.

`RepliesMatch` speaks of the reply in the ring; the invariant has to follow an
answer from the guest's decision to expect it. `AtOnePlace` says that it is in at
most one place: in the last request of the ring, owed by the handler, or sent;
and that its call holds the mutex and waits. It is used twice, for replies
(`ReplyPath`) and descriptors (`FdPath`): the first until `exit`, because a
handler that was told to exit leaves its reply behind, the second until the
socket is closed, after which a thread gives up its place; a descriptor that was
sent before is for its thread even then.
`SameStatus` is what makes a submission safe: the guest read `RING_STATUS_WAIT`
when it sent the request, the host reads it when it executes it, and in between
no other request can change it. `Expected` says what calls of each kind wait for,
`SemaphoreBound` bounds the timeline by the calls that were made, and `Teardown`
orders what `destroyVkContext` has ended.

### The fence wait

`TimeBound` (`TimeHonoured`), `NoLeak` (`DescriptorsClosed`) and `TrueOutcome`
(`OutcomeIsTrue`, an action property), for up to `MaxFds` fences and any width of
an `int`. `TimeHonoured` compares the time of the wait with the time asked for
(`Quotient`, `Scale`), not with the truncated one.

The heart is `Remaining`: the first `remaining` entries of `pfds` are the
descriptors not seen ready, each exactly once. That it survives
`waitForEvents`' compaction needs the `k`-th element of a set: `KthCounts` and
`LeftBounds` are proved by induction over the naturals, for a set, from the
library's well-foundedness of `<` (`LeastElement`, `SetInduction`). `Timing`
bounds the time by the rounds: each round that is not the last has seen a fence
more, so the total is at most `(NumFences - remaining)` limits and the current
round. `Exchange` and `Closes` follow the one answer and the descriptors through
both processes.

### The X server

`TypeCorrect` (`TypeOK`), `References` (`NoDanglingReference`), `CleanExit`
(`NothingLeftBehind`), `ListenersConnected` (`ListenersAreConnected`),
`Exclusive` (`ExclusiveUnlessDeselected`) and `GrabFollowsView`
(`GrabEndsWithView`, an action property), for any number of clients and windows.

That every window is reached from the root is not inductive: `Reachable` is the
greatest set closed under parents, which a cycle of windows would also satisfy.
`TopFirst` rules it out: of any set of windows, one is the root or has its parent
outside. From it follow that the subtree destroyed with a window contains
neither its parent nor the root, and that a window without children may take one
as its parent. `StaleEntries` relates the client's table of selections to the
window's: they differ only where the client deselected.

### The connector

`TypeCorrect` (`TypeOK`, which includes that a shutdown is told once at most) and
`EndedFirst` (`ClientsEndFirst`), for any finite set of clients.

`Heard` ties the tag and the number of calls of the handler to where the client's
thread is. `Lists` says that no client is listed twice, although the epoll thread
writes back a list it read before; its length is then at most the number of
clients (`ListFits`). `OneRemoves` and `Found` keep an index that was looked up
right until it is used. `Alone` is what holds without a race: a client that
started is in the list and serves, is the one being killed, or has ended; so that
an empty list, at which `killAllConnections` stops, means that all have ended.

### The Windows handler

`OwnAnswers` (`AnswersMatch`), `MonitorFreed` (`MonitorComesFree`) and
`StopHeard` (`StopIsHeard`), for any number of queries and datagrams.

`OnePlace` says that, until a query gives up, there is one query between its
caller and its answer, in one of four places: among the actions, with the guest,
in the inbox, or with the receiver; `OwnPath` that what the receiver reads as its
path is its own or one that was mixed with another process's datagram.
`Pairs` says that the second datagram of every first one is behind it, still to
be sent, or lost, and `MonitorOwned`, `SocketLife` and `Callback` relate monitor,
socket and callback to where the threads are.

### Containers

`TypeCorrect` (`TypeOK`), `NewIdsFree` (`NewIdsAreFree`), `ListIsDisk`
(`ListMatchesDisk`) and `WholeStay` (`WholeContainersStay`, an action property),
for any number of directories and faults: kills, failed writes and deletes, and
JSON exceptions. `ListMatchesDisk` is about the time before the first of them.

`OpShape` says what the operation in progress works on (a new id is one above the
greatest), `DirsAreThere` that whole and listed containers have directories, on
which `mkdirs` fails, and `OnlyOpDiffers` what is true of list and disk *inside*
an operation, which `ListMatchesDisk` says only between two.

### Model-checked only

The liveness properties `ExitReleasesThreads`, `ServedWhenPossible`,
`CallsReturn` and `TasksRun` (pool), `CallsReturn`, `EventsArrive` and
`TeardownEnds` (Vortek), `CallReturns` (fences) and `DestroyReturns`
(connector): they rest on fairness and `ENABLED`, which this prover does not
handle. `ImportIsNew` is violated (section 6). The library's induction theorems
take an operator as a parameter and cannot be used by the provers at hand;
where induction was needed, it is over a set of naturals.

## 5. What is not modelled

`PROJECT.json` lists every component with its status. Outside the models so
far: the handshake that creates a context (and with it the ring's double
initialisation), object tables and
payloads of Vulkan calls, the export and activation of containers; of the
connector, its single-threaded mode and the streams; of the X server, pixmaps,
graphics contexts, cursors, properties, the keyboard, the relative mouse mode
and the extensions; of the Windows handler, gamepads and MIDI; sound and SysV
shared memory. A Java or C failure to allocate memory is nowhere modelled.

## 6. Observations about the code

Confirmed by a run:

* `importContainer` may extract into, and on failure delete, a container that
  exists. `containers_import`: the configuration of a listed container is lost
  by an interrupted or failed write, the next start stops loading there, its id
  looks free, and only `createContainer` and `duplicateContainer` refuse a
  directory that exists. The comment above the method promises the opposite.

Met while modelling, each at its line in the list of hazards: waiting for the
pool before a submission can wait for that submission (`bc_decoder.h:228`); a
context whose pool is in an endless semaphore wait blocks the connector thread
(`vk_context.c:141`); a lost device leaves guest threads waiting
(`vk_context.c:49`); a missing `.container` prevents every later start
(`ContainerManager.java:58`), and a `JSONException` of `createContainer`
(`ContainerManager.java:206`) or a delete that stops half way (`:247`) leaves such
a directory; descriptors of fences that are never sent leave
the guest in `recv_fds` (`request_handler.c:568`), and those sent with a failure
stay open (`vulkan_calls.c:606`); an `eventfd` or a descriptor that cannot be
sent leaves the guest there too (`timeline_semaphore.c:37-40`), and a wait whose
socket was closed reads an uninitialised descriptor (`vulkan_calls.c:2510-2515`);
the connector closes the socket of a client before the handler that writes to it
is joined (`xconnector_epoll.c:176`, `vk_context.c:139`); a short or very long timeout becomes an
endless wait (`vulkan_calls.c:607`); a read in place is not published at a wrap
(`ring_buffer.h:66`). Outside the models: `vkGetSemaphoreCounterValue` replies
with a handle (`request_handler.c:2705`).

In the X server: a grab survives its client, and the next event for it is sent
to a client without an output stream (`GrabManager.java`); a grab that outlives
its window, moved below a hidden one and destroyed with it, sends a press to the
listeners that the window kept, of clients that have left too
(`XClient.java:154`, `InputDeviceManager.java:173`); the same happens to
the event for the former owner of a selection (`SelectionManager.java`);
`DestroySubwindows` changes the list it walks and destroys one window or throws
(`WindowRequests.java:119`); a client that stops selecting an event is still
believed to select it (`XClient.java:47`); any client ends the grab of another;
a window can be moved below itself; a client beyond the id bases gets the base
-1 and leaves it in the pool. In the connector: a client that was accepted but
not yet in the list when it is destroyed lives on with a freed connector;
`killAllConnections` can meet a list emptied since it looked
(`XConnectorEpoll.java:93`); an interrupted `epoll_wait` ends the connector
(`xconnector_epoll.c:231`); the thread of a client that hung up is never joined,
and one whose `poll` is interrupted leaves its descriptors open (`:107`).
In the Windows handler: the receiver waits for a second datagram inside the
monitor and takes any for it (`WinHandler.java:397`); a query that gave up
leaves its answer to the next one, or to none (`:400`); `stop()` may not be heard
by the sender (`:286`) and makes a send or receive under way fail with a null
socket (`:299`); after a failed answer to `PRE_EXEC` every request is sent with
its one byte (`:70`). Outside the models: a gamepad client that is released
while a state is queued for it can silence the gamepad for good
(`GamepadHandler.java:225`); two X segments of one SysV segment share a mapping
that the first detach removes (`SysVSharedMemory.java:75`).

## 7. Plan

Done: the models `ByteStream`, `RingBuffer`, `ThreadPool`, `VortekSession`,
`FenceWait`, `ContainerManager`, `XServerCore`, `XConnector`, `WinHandler`, and
for each of the eight components the proofs of all its safety properties and of
the refinement it states.

Left to model: the X server's SYNC and Present extensions on top of
`XServerCore`; SysV shared memory with the guest's C library; the ALSA stream;
the accounting of `resource_memory.c` and the swapchain.

Left to prove: that the exceptions of section 3 are exact, as far as they are
safety (what holds of a state in which one applies); the safety half of the
liveness arguments, such as that no thread of `ThreadPool` sleeps on a condition
with something to do; abstract specifications of a pool, of a session and of the
connector's callbacks, and that the modules implement them.
