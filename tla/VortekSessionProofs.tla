------------------------ MODULE VortekSessionProofs ------------------------
(***************************************************************************)
(* Theorems about VortekSession for any number of guest threads, calls,    *)
(* workers and ring slots, on every kind of device: a reply and a          *)
(* descriptor reach the call they are for, and a context is freed only     *)
(* when nothing of the host uses it.                                       *)
(***************************************************************************)
EXTENDS VortekSession, FiniteSetTheorems, TLAPS

CallSet == [op : Ops \cup {"none"}, id : 0 .. MaxCalls,
            expects : {"nothing", "reply", "fd"}, value : 0 .. MaxValue]
Made(c)  == c.id \in 1 .. MaxCalls
Requests == {c \in CallSet : Made(c)}
Answers  == [id : 1 .. MaxCalls, ok : BOOLEAN]

TaskSet == [kind : {"waitSem", "pipeline", "decode"}, id : 1 .. MaxCalls, value : 0 .. MaxValue]

HandlerPlaces == {"loop", "recv", "extra", "handle", "run", "decode", "decoding",
                  "early", "submit", "reply", "done"}
Handling == hpc \in HandlerPlaces \ {"loop", "recv", "done"}

\* The types of everything the other invariants speak of, for the guest, the
\* channels, the handler and the pool with the driver.
GuestTypes ==
    /\ lock \in Thread \cup {NoThread} /\ calls \in 0 .. MaxCalls
    /\ pc \in [Thread -> {"idle", "locked", "extra", "send", "reply", "fd", "event", "dead"}]
    /\ call \in [Thread -> CallSet]
    /\ \A t \in Thread : pc[t] \notin {"idle", "dead"} => Made(call[t])
RingTypes ==
    /\ serverRing \in Seq(Requests) /\ Len(serverRing) <= RingSize
    /\ clientRing \in Seq(Answers)
    /\ waitStatus \in BOOLEAN /\ exitStatus \in BOOLEAN
    /\ socket \in Seq(1 .. MaxCalls) /\ fds \in Seq(Answers)
    /\ extraDataRequests \subseteq 1 .. MaxCalls
HandlerTypes ==
    /\ hpc \in HandlerPlaces /\ request \in CallSet /\ (Handling => Made(request))
    /\ clientWaiting \in BOOLEAN
PoolTypes ==
    /\ tasks \in Seq(TaskSet) /\ running \subseteq TaskSet
    /\ IsFiniteSet(running) /\ Cardinality(running) <= NumThreads
    /\ notified \subseteq 1 .. MaxCalls
DriverTypes ==
    /\ semaphore \in Nat /\ deviceLost \in BOOLEAN /\ status \in BOOLEAN
    /\ epc \in {"serving", "status", "exit", "join", "pool", "wait", "freed"}
Types == GuestTypes /\ RingTypes /\ HandlerTypes /\ PoolTypes /\ DriverTypes

\* vt_call_mutex is held from VT_CALL_LOCK to the answer.
UnderLock == {"locked", "extra", "send", "reply", "fd"}
LockHeld == \A t \in Thread : pc[t] \in UnderLock => lock = t

\* What the guest expects after a call of each kind.
Expects(c) == /\ c.op \in {"waitSem", "pipeline"} <=> c.expects = "fd"
              /\ c.op \in {"create", "signal", "big"} => c.expects = "reply"
              /\ c.op = "destroy" => c.expects = "nothing"
Expected == /\ \A t \in Thread : pc[t] \in {"extra", "send"} => Expects(call[t])
            /\ \A t \in Thread : pc[t] = "extra" => call[t].op = "big"
            /\ \A i \in DOMAIN serverRing : Expects(serverRing[i])
            /\ hpc \in {"extra", "handle"} => Expects(request)
            /\ hpc = "extra" => request.op = "big"
            /\ hpc = "run" => request.op \in {"waitSem", "pipeline"}

\* The semaphore's value is reached by calls that were made and handled: the
\* calls made are those, the ones in the ring, and at most one at either end.
InGuest   == IF \E t \in Thread : pc[t] \in {"locked", "extra", "send"} THEN 1 ELSE 0
InHandler == IF hpc \in {"extra", "handle", "decode", "decoding", "early", "submit"} THEN 1 ELSE 0
SemaphoreBound == semaphore + Len(serverRing) + InHandler + InGuest <= calls

\* The call id has the mutex and waits for its reply or descriptor (or died so).
Waits(id, answer) ==
    \E t \in Thread : lock = t /\ pc[t] \in {answer, "dead"} /\ call[t].id = id

\* An answer of the kind is at one place at most: in its request in the ring,
\* with the handler that owes it, or on its way (to the call of id first); and
\* its call waits for it.
AtOnePlace(answer, owed, sent, first) ==
    /\ \A i \in DOMAIN serverRing :
          serverRing[i].expects = answer =>
            /\ i = Len(serverRing) /\ ~owed /\ sent = <<>>
            /\ Waits(serverRing[i].id, answer)
    /\ owed => serverRing = <<>> /\ sent = <<>> /\ Waits(request.id, answer)
    /\ sent # <<>> => serverRing = <<>> /\ Len(sent) = 1 /\ Waits(first, answer)

FdOwed    == hpc = "handle" /\ request.expects = "fd"
ReplyOwed == \/ hpc \in {"extra", "handle"} /\ request.expects = "reply"
             \/ hpc \in {"decode", "decoding", "early", "submit"} /\ clientWaiting
             \/ hpc = "reply"

\* A closed socket takes no more descriptors, and who waits for one gives up.
FdPath    == /\ ~Closed => AtOnePlace("fd", FdOwed, fds, Head(fds).id)
             /\ fds # <<>> => Len(fds) = 1 /\ Waits(Head(fds).id, "fd")
ReplyPath == ~exitStatus => AtOnePlace("reply", ReplyOwed, clientRing, Head(clientRing).id)

\* Guest and host read the same RING_STATUS_WAIT about a submission: it cannot
\* change between the guest's reading and the host's.
Agrees(c) == c.op = "submit" => (c.expects = "reply" <=> waitStatus)
SameStatus ==
    ~exitStatus => /\ \A t \in Thread : pc[t] = "send" => Agrees(call[t])
                   /\ \A i \in DOMAIN serverRing : Agrees(serverRing[i])
                   /\ hpc = "handle" => Agrees(request)

\* How far destroyVkContext is, and what is over by then.
Teardown == /\ epc \in {"pool", "wait", "freed"} => hpc = "done"
            /\ epc \in {"wait", "freed"} => tasks = <<>>
            /\ epc = "freed" => running = {}

\* The inductive invariant.
IInv == /\ Types /\ LockHeld /\ Expected /\ SemaphoreBound
        /\ FdPath /\ ReplyPath /\ SameStatus /\ Teardown
-----------------------------------------------------------------------------
\* Taking the first of a sequence, and adding one to its end.
LEMMA Taken ==
  ASSUME NEW S, NEW s \in Seq(S), s # <<>>
  PROVE  /\ Head(s) \in S /\ Head(s) = s[1] /\ Tail(s) \in Seq(S)
         /\ 1 \in DOMAIN s /\ DOMAIN s \subseteq 1 .. Len(s) /\ Len(s) \in DOMAIN s
         /\ \A i \in DOMAIN Tail(s) : i + 1 \in DOMAIN s /\ Tail(s)[i] = s[i + 1]
         /\ Len(Tail(s)) = Len(s) - 1 /\ Len(s) \in Nat
         /\ Len(s) = 1 => Tail(s) = <<>>
<1>1. \A q \in Seq(S) : Len(q) = 0 => q = <<>>
  OBVIOUS
<1>2. Len(s) \in Nat /\ Len(s) > 0 /\ Tail(s) \in Seq(S) /\ Len(Tail(s)) = Len(s) - 1
  OBVIOUS
<1>3. /\ Head(s) \in S /\ Head(s) = s[1] /\ DOMAIN s = 1 .. Len(s)
      /\ \A i \in DOMAIN Tail(s) : i + 1 \in DOMAIN s /\ Tail(s)[i] = s[i + 1]
  OBVIOUS
<1> QED BY <1>1, <1>2, <1>3

LEMMA Added ==
  ASSUME NEW S, NEW s \in Seq(S), NEW e \in S
  PROVE  /\ Append(s, e) \in Seq(S) /\ Len(Append(s, e)) = Len(s) + 1
         /\ Append(s, e) # <<>> /\ (s = <<>> => Head(Append(s, e)) = e)
         /\ (s = <<>> <=> Len(s) = 0) /\ Len(s) \in Nat
         /\ DOMAIN Append(s, e) = DOMAIN s \cup {Len(s) + 1}
         /\ DOMAIN s \subseteq 1 .. Len(s)
         /\ \A i \in DOMAIN s : Append(s, e)[i] = s[i]
         /\ Append(s, e)[Len(s) + 1] = e
  OBVIOUS

LEMMA NoneIn == \A S : <<>> \in Seq(S)
  OBVIOUS

\* The constants of the bounds.
LEMMA Bounds == /\ MaxCalls \in Nat /\ MaxValue \in Nat /\ RingSize \in Nat \ {0} /\ NumThreads \in Nat \ {0}
                /\ \A n \in 1 .. MaxCalls : n \in 0 .. MaxCalls
  BY BoundAssumption

LEMMA NoCallIn == NoCall \in CallSet
<1>1. 0 \in 0 .. MaxCalls /\ 0 \in 0 .. MaxValue
  BY Bounds
<1> QED BY <1>1 DEF CallSet, NoCall

LEMMA InitIInv == Init => IInv
<1> SUFFICES ASSUME Init PROVE IInv
  OBVIOUS
<1> USE DEF Init
<1>1. NoCall \in CallSet /\ 0 \in 0 .. MaxCalls
  BY Bounds, NoCallIn
<1> HIDE DEF NoCall
<1>4. GuestTypes /\ DriverTypes
  BY <1>1 DEF GuestTypes, DriverTypes
<1>5. RingTypes /\ HandlerTypes
  <2>1. Len(serverRing) <= RingSize
    BY Bounds
  <2>2. RingTypes
    BY <2>1, NoneIn DEF RingTypes
  <2>3. HandlerTypes
    BY <1>1 DEF HandlerTypes, HandlerPlaces, Handling
  <2> QED BY <2>2, <2>3
<1>6. PoolTypes
  BY NoneIn, Bounds, FS_EmptySet DEF PoolTypes
<1>2. LockHeld /\ Expected /\ SemaphoreBound
  BY DEF LockHeld, UnderLock, Expected, SemaphoreBound, InGuest, InHandler
<1>3. FdPath /\ ReplyPath /\ SameStatus /\ Teardown
  BY DEF FdPath, ReplyPath, AtOnePlace, FdOwed, ReplyOwed, SameStatus, Teardown
<1> QED BY <1>4, <1>5, <1>6, <1>2, <1>3 DEF IInv, Types

\* The variables that a step of the handler, the workers or the connector leaves
\* alone, and those that a step of the guest does.
LEMMA HostLeavesGuest ==
  HandlerStep \/ StartTask \/ (\E k \in running : FinishTask(k)) \/ ReadExtraData
  \/ BeginDestroy \/ DestroyStep => UNCHANGED guest
  BY DEF HandlerStep, Loop, Receive, ReceiveFails, FindExtraData, ExtraDataFails, HandleCreate,
         HandleSync, HandleDestroy, SendFd, RunTask, HandleSubmit, DecodeAll, DecodeDone,
         EarlyReply, Submit, SendReply, StartTask, FinishTask, ReadExtraData, BeginDestroy,
         DestroyStep, SetStatus, SetExit, JoinHandler, DropTasks, FreeContext

LEMMA GuestLeavesHost ==
  (\E t \in Thread : GuestStep(t) \/ \E op \in Op, v \in 0 .. MaxValue : Begin(t, op, v)) \/ GuestDies
  => UNCHANGED <<handler, pool, driver, status, epc>>
  BY DEF GuestStep, Prepare, SendExtraData, Send, SendExtraFails, SendFails, ReceiveReply, ReceiveFd, ReadEvent,
         Begin, GuestDies

LEMMA WorkersLeaveRings ==
  StartTask \/ (\E k \in running : FinishTask(k))
  => UNCHANGED <<rings, sockets, handler, driver, status, epc>>
  BY DEF StartTask, FinishTask

LEMMA ConnectorLeavesHandler ==
  ReadExtraData \/ BeginDestroy \/ DestroyStep
  => UNCHANGED <<serverRing, clientRing, waitStatus, fds, handler, driver, running, notified>>
  BY DEF ReadExtraData, BeginDestroy, DestroyStep, SetStatus, SetExit, JoinHandler, DropTasks, FreeContext,
         rings, sockets, pool

\* The steps of the system, grouped by who takes them.
LEMMA Steps ==
  ASSUME [Next]_vars
  PROVE  \/ UNCHANGED vars
         \/ \E t \in Thread, op \in Op, v \in 0 .. MaxValue : Begin(t, op, v)
         \/ \E t \in Thread : GuestStep(t)
         \/ GuestDies
         \/ HandlerStep
         \/ StartTask \/ \E k \in running : FinishTask(k)
         \/ ReadExtraData \/ BeginDestroy \/ DestroyStep
<1>1. 0 \in 0 .. MaxValue /\ \A v \in 1 .. MaxValue : v \in 0 .. MaxValue
  BY Bounds
<1>2. \A t \in Thread, v \in 1 .. MaxValue : "waitSem" \in Op /\ Begin(t, "waitSem", v)
                                   => \E op \in Op, w \in 0 .. MaxValue : Begin(t, op, w)
  BY <1>1
<1> QED BY <1>1, <1>2 DEF Next

\* What a guest thread's call is made of.
LEMMA NewCall ==
  ASSUME Types, calls < MaxCalls, NEW op \in Op, NEW v \in 0 .. MaxValue
  PROVE  /\ calls + 1 \in 1 .. MaxCalls
         /\ [op |-> op, id |-> calls + 1, expects |-> "nothing", value |-> v] \in Requests
  BY OpAssumption, Bounds DEF Types, GuestTypes, CallSet, Made, Requests

LEMMA CallPrepared ==
  ASSUME Types, NEW t \in Thread, Prepare(t)
  PROVE  /\ call' \in [Thread -> CallSet]
         /\ \A u \in Thread : call'[u].id = call[u].id /\ (u # t => call'[u] = call[u])
         /\ call'[t].op = call[t].op /\ call'[t].expects = Expectation(call[t].op)
<1>1. Expectation(call[t].op) \in {"nothing", "reply", "fd"}
  BY DEF Expectation
<1>2. call' = [call EXCEPT ![t].expects = Expectation(call[t].op)] /\ call \in [Thread -> CallSet]
  BY DEF Prepare, Types, GuestTypes
<1> QED BY <1>1, <1>2 DEF CallSet

LEMMA GuestTypesKept == Types /\ [Next]_vars => GuestTypes'
<1> SUFFICES ASSUME Types, [Next]_vars PROVE GuestTypes'
  OBVIOUS
<1>1. CASE UNCHANGED guest
  BY <1>1 DEF guest, Types, GuestTypes
<1>2. ASSUME NEW t \in Thread, NEW op \in Op, NEW v \in 0 .. MaxValue, Begin(t, op, v)
      PROVE  GuestTypes'
  <2>1. calls < MaxCalls /\ calls' = calls + 1
    BY <1>2 DEF Begin
  <2>2. calls' \in 0 .. MaxCalls
    BY <2>1, NewCall, Bounds
  <2>3. call' \in [Thread -> CallSet] /\ Made(call'[t]) /\ \A u \in Thread \ {t} : call'[u] = call[u]
    BY <1>2, <2>1, NewCall DEF Begin, Types, GuestTypes, Requests
  <2> HIDE DEF Made
  <2> QED BY <1>2, <2>2, <2>3 DEF Begin, Types, GuestTypes, Goto, Return
<1>3. ASSUME NEW t \in Thread, GuestStep(t)
      PROVE  GuestTypes'
  <2>1. CASE Prepare(t)
    <3> QED BY <2>1, CallPrepared DEF Prepare, Types, GuestTypes, Goto, Return, Made
  <2>2. CASE SendExtraData(t) \/ SendExtraFails(t) \/ SendFails(t) \/ ReceiveReply(t) \/ ReceiveFd(t)
             \/ ReadEvent(t) \/ Send(t)
    <3>1. call[t].expects \in {"nothing", "reply", "fd"}
      BY DEF Types, GuestTypes, CallSet
    <3>2. /\ lock' \in Thread \cup {NoThread} /\ calls' = calls /\ pc[t] # "idle"
          /\ Return(t) \/ \E place \in {"send", "reply", "fd", "event"} : Goto(t, place)
      BY <2>2, <3>1 DEF SendExtraData, SendExtraFails, SendFails, ReceiveReply, ReceiveFd, ReadEvent,
         Send, Types, GuestTypes
    <3>3. pc[t] # "dead"
      BY <2>2 DEF SendExtraData, SendExtraFails, SendFails, ReceiveReply, ReceiveFd, ReadEvent, Send
    <3>4. CASE Return(t)
      <4> HIDE DEF NoCall
      <4> QED BY <3>2, <3>4, NoCallIn DEF Return, Types, GuestTypes
    <3>5. CASE \E place \in {"send", "reply", "fd", "event"} : Goto(t, place)
      BY <3>2, <3>3, <3>5 DEF Goto, Types, GuestTypes
    <3> QED BY <3>2, <3>4, <3>5
  <2> QED BY <1>3, <2>1, <2>2 DEF GuestStep
<1>4. CASE GuestDies
  BY <1>4 DEF GuestDies, Types, GuestTypes
<1> QED BY <1>1, <1>2, <1>3, <1>4, Steps, HostLeavesGuest DEF vars

LEMMA RingTypesKept == Types /\ [Next]_vars => RingTypes'
<1> SUFFICES ASSUME Types, [Next]_vars PROVE RingTypes'
  OBVIOUS
<1> USE DEF rings, sockets, Types
<1>1. CASE UNCHANGED <<rings, sockets>>
  BY <1>1 DEF RingTypes
<1>2. ASSUME NEW t \in Thread, GuestStep(t)
      PROVE  RingTypes'
  <2>1. CASE SendExtraData(t)
    <3>1. socket' \in Seq(1 .. MaxCalls)
      BY <2>1, Added DEF SendExtraData, RingTypes, GuestTypes, Made
    <3> QED BY <2>1, <3>1 DEF SendExtraData, RingTypes
  <2>2. CASE Send(t)
    <3>1. call[t] \in Requests
      BY <2>2 DEF Send, GuestTypes, Requests
    <3>2. serverRing' \in Seq(Requests) /\ Len(serverRing') = Len(serverRing) + 1
          /\ Len(serverRing) \in Nat
      BY <2>2, <3>1, Added DEF Send, RingTypes
    <3> QED BY <2>2, <3>2, Bounds DEF Send, RoomInRing, RingTypes
  <2>3. CASE ReceiveReply(t)
    <3>1. clientRing' \in Seq(Answers)
      BY <2>3, Taken DEF ReceiveReply, RingTypes
    <3> QED BY <2>3, <3>1 DEF ReceiveReply, RingTypes
  <2>4. CASE ReceiveFd(t)
    <3>1. fds' \in Seq(Answers)
      BY <2>4, Taken DEF ReceiveFd, RingTypes
    <3> QED BY <2>4, <3>1 DEF ReceiveFd, RingTypes
  <2>5. CASE Prepare(t) \/ SendExtraFails(t) \/ SendFails(t) \/ ReadEvent(t)
    BY <1>1, <2>5 DEF Prepare, SendExtraFails, SendFails, ReadEvent
  <2> QED BY <1>2, <2>1, <2>2, <2>3, <2>4, <2>5 DEF GuestStep
<1>3. CASE HandlerStep
  <2>1. CASE Receive
    <3>1. serverRing' \in Seq(Requests) /\ Len(serverRing') = Len(serverRing) - 1
          /\ Len(serverRing) \in Nat
      BY <2>1, Taken DEF Receive, RingTypes
    <3> QED BY <2>1, <3>1, Bounds DEF Receive, RingTypes
  <2>2. CASE SendFd
    <3>1. \A ok \in BOOLEAN : [id |-> request.id, ok |-> ok] \in Answers
      BY <2>2 DEF SendFd, HandlerTypes, Handling, HandlerPlaces, Made, Answers
    <3>2. \A a \in Answers : Append(fds, a) \in Seq(Answers)
      BY Added DEF RingTypes
    <3>3. fds' \in Seq(Answers)
      BY <2>2, <3>1, <3>2 DEF SendFd, SendDescriptor, RingTypes
    <3> QED BY <2>2, <3>3 DEF SendFd, RingTypes
  <2>3. CASE EarlyReply \/ SendReply
    <3>1. \A ok \in BOOLEAN : [id |-> request.id, ok |-> ok] \in Answers
      BY <2>3 DEF EarlyReply, SendReply, HandlerTypes, Handling, HandlerPlaces, Made, Answers
    <3>2. \A r \in Answers : Append(clientRing, r) \in Seq(Answers)
      BY Added DEF RingTypes
    <3>3. (~deviceLost) \in BOOLEAN
      BY DEF DriverTypes
    <3>4. clientRing' \in Seq(Answers)
      BY <2>3, <3>1, <3>2, <3>3 DEF EarlyReply, SendReply, Reply, RingTypes
    <3> QED BY <2>3, <3>4 DEF EarlyReply, SendReply, RingTypes
  <2>4. CASE FindExtraData \/ HandleCreate
    BY <2>4 DEF FindExtraData, HandleCreate, RingTypes
  <2>5. CASE Loop \/ ReceiveFails \/ ExtraDataFails \/ HandleSync \/ HandleDestroy \/ RunTask
             \/ HandleSubmit \/ DecodeAll \/ DecodeDone \/ Submit
    BY <1>1, <2>5 DEF Loop, ReceiveFails, ExtraDataFails, HandleSync, HandleDestroy, RunTask,
       HandleSubmit, DecodeAll, DecodeDone, Submit
  <2> QED BY <1>3, <2>1, <2>2, <2>3, <2>4, <2>5 DEF HandlerStep
<1>4. CASE ReadExtraData
  <2>1. Head(socket) \in 1 .. MaxCalls /\ socket' \in Seq(1 .. MaxCalls)
    BY <1>4, Taken DEF ReadExtraData, RingTypes
  <2> QED BY <1>4, <2>1 DEF ReadExtraData, RingTypes
<1>5. CASE BeginDestroy \/ DestroyStep
  BY <1>5 DEF BeginDestroy, DestroyStep, SetStatus, SetExit, ExitSet, JoinHandler, DropTasks, FreeContext,
     RingTypes
<1>6. (\E t \in Thread, op \in Op, v \in 0 .. MaxValue : Begin(t, op, v)) => UNCHANGED <<rings, sockets>>
  BY DEF Begin
<1>7. CASE GuestDies
  BY <1>7 DEF GuestDies, RingTypes
<1> QED BY <1>1, <1>2, <1>3, <1>4, <1>5, <1>6, <1>7, Steps, WorkersLeaveRings DEF vars

LEMMA HandlerTypesKept == Types /\ [Next]_vars => HandlerTypes'
<1> SUFFICES ASSUME Types, [Next]_vars PROVE HandlerTypes'
  OBVIOUS
<1> USE DEF handler, Types, Handling
<1>1. CASE UNCHANGED handler
  BY <1>1 DEF HandlerTypes
<1>2. CASE HandlerStep
  <2>1. CASE Receive
    <3>1. Head(serverRing) \in CallSet /\ Made(Head(serverRing))
      BY <2>1, Taken DEF Receive, RingTypes, Requests
    <3> QED BY <2>1, <3>1 DEF Receive, HandlerTypes, HandlerPlaces
  <2>2. CASE HandleSubmit \/ EarlyReply
    BY <2>2 DEF HandleSubmit, EarlyReply, AfterEarlyReply, ClientWaiting, RingTypes, HandlerTypes,
       HandlerPlaces
  <2>3. CASE Loop \/ ReceiveFails \/ FindExtraData \/ ExtraDataFails \/ HandleCreate \/ HandleSync
    BY <2>3 DEF Loop, ReceiveFails, FindExtraData, ExtraDataFails, HandleCreate, HandleSync,
       HandlerTypes, HandlerPlaces
  <2>4. CASE HandleDestroy \/ SendFd \/ RunTask \/ DecodeAll \/ DecodeDone \/ Submit \/ SendReply
    BY <2>4 DEF HandleDestroy, SendFd, RunTask, DecodeAll, DecodeDone, Submit, SendReply,
       HandlerTypes, HandlerPlaces
  <2> QED BY <1>2, <2>1, <2>2, <2>3, <2>4 DEF HandlerStep
<1> QED BY <1>1, <1>2, Steps, GuestLeavesHost, WorkersLeaveRings, ConnectorLeavesHandler DEF vars

LEMMA PoolTypesKept == Types /\ Expected /\ [Next]_vars => PoolTypes'
<1> SUFFICES ASSUME Types, Expected, [Next]_vars PROVE PoolTypes'
  OBVIOUS
<1> USE DEF pool, Types
<1>1. CASE UNCHANGED pool
  BY <1>1 DEF PoolTypes
<1>2. CASE HandlerStep
  <2>1. CASE RunTask \/ DecodeAll
    <3>1. \A kind \in {"waitSem", "pipeline", "decode"} : Task(kind, request) \in TaskSet
      BY <2>1 DEF RunTask, DecodeAll, HandlerTypes, Handling, HandlerPlaces, Made, Task, TaskSet,
         CallSet
    <3>2. \A k \in TaskSet : Append(tasks, k) \in Seq(TaskSet)
      BY Added DEF PoolTypes
    <3>3. tasks' \in Seq(TaskSet) /\ UNCHANGED <<running, notified>>
      BY <2>1, <3>1, <3>2 DEF RunTask, DecodeAll, Expected, PoolTypes
    <3> QED BY <3>3 DEF PoolTypes
  <2>2. UNCHANGED pool \/ RunTask \/ DecodeAll
    BY <1>2 DEF HandlerStep, Loop, Receive, ReceiveFails, FindExtraData, ExtraDataFails,
       HandleCreate, HandleSync, HandleDestroy, SendFd, HandleSubmit, DecodeDone, EarlyReply,
       Submit, SendReply
  <2> QED BY <1>1, <2>1, <2>2
<1>3. CASE StartTask
  <2>1. Head(tasks) \in TaskSet /\ tasks' \in Seq(TaskSet)
    BY <1>3, Taken DEF StartTask, PoolTypes
  <2>2. IsFiniteSet(running') /\ Cardinality(running') <= Cardinality(running) + 1
    <3>1. IsFiniteSet(running) /\ running' = running \cup {Head(tasks)}
      BY <1>3 DEF StartTask, PoolTypes
    <3>2. Cardinality(running) \in Nat
      BY <3>1, FS_CardinalityType
    <3>3. IsFiniteSet(running') /\ Cardinality(running') \in {Cardinality(running), Cardinality(running) + 1}
      BY <3>1, FS_AddElement
    <3> QED BY <3>2, <3>3
  <2>3. Cardinality(running') \in Nat /\ Cardinality(running) \in Nat
    BY <2>2, FS_CardinalityType DEF PoolTypes
  <2> QED BY <1>3, <2>1, <2>2, <2>3, Bounds DEF StartTask, WorkerFree, PoolTypes
<1>4. ASSUME NEW k \in running, FinishTask(k)
      PROVE  PoolTypes'
  <2>1. IsFiniteSet(running') /\ Cardinality(running') <= Cardinality(running)
    <3>1. IsFiniteSet(running) /\ running' \subseteq running
      BY <1>4 DEF FinishTask, PoolTypes
    <3> QED BY <3>1, FS_Subset
  <2>2. Cardinality(running') \in Nat /\ Cardinality(running) \in Nat
    BY <2>1, FS_CardinalityType DEF PoolTypes
  <2>3. k.id \in 1 .. MaxCalls
    BY <1>4 DEF PoolTypes, TaskSet
  <2>4. Cardinality(running') <= NumThreads
    BY <2>1, <2>2, Bounds DEF PoolTypes
  <2>5. notified' \subseteq 1 .. MaxCalls
    BY <1>4, <2>3 DEF FinishTask, PoolTypes
  <2> QED BY <1>4, <2>1, <2>4, <2>5 DEF FinishTask, PoolTypes
<1>5. CASE ReadExtraData \/ BeginDestroy \/ DestroyStep
  <2>1. UNCHANGED <<running, notified>>
    BY <1>5, ConnectorLeavesHandler
  <2>2. tasks' \in {tasks, <<>>}
    BY <1>5 DEF ReadExtraData, BeginDestroy, DestroyStep, SetStatus, SetExit, JoinHandler, DropTasks, FreeContext
  <2> QED BY <2>1, <2>2, NoneIn DEF PoolTypes
<1> QED BY <1>1, <1>2, <1>3, <1>4, <1>5, Steps, GuestLeavesHost DEF vars

LEMMA DriverTypesKept == Types /\ [Next]_vars => DriverTypes'
<1> SUFFICES ASSUME Types, [Next]_vars PROVE DriverTypes'
  OBVIOUS
<1> USE DEF driver, Types
<1>1. CASE UNCHANGED <<driver, status, epc>>
  BY <1>1 DEF DriverTypes
<1>2. CASE HandleSync \/ Submit
  <2>1. semaphore' \in {semaphore, semaphore + 1} /\ semaphore \in Nat
    BY <1>2 DEF HandleSync, Submit, DriverTypes
  <2>2. semaphore' \in Nat
    BY <2>1
  <2> QED BY <1>2, <2>2 DEF HandleSync, Submit, DriverTypes
<1>3. HandlerStep => UNCHANGED <<driver, status, epc>> \/ HandleSync \/ Submit
  BY DEF HandlerStep, Loop, Receive, ReceiveFails, FindExtraData, ExtraDataFails, HandleCreate,
     HandleDestroy, SendFd, RunTask, HandleSubmit, DecodeAll, DecodeDone, EarlyReply, SendReply
<1>4. CASE ReadExtraData \/ BeginDestroy \/ DestroyStep
  BY <1>4 DEF ReadExtraData, BeginDestroy, DestroyStep, SetStatus, SetExit, JoinHandler, DropTasks,
     FreeContext, DriverTypes
<1> QED BY <1>1, <1>2, <1>3, <1>4, Steps, GuestLeavesHost, WorkersLeaveRings DEF vars

LEMMA TypesKept == Types /\ Expected /\ [Next]_vars => Types'
  BY GuestTypesKept, RingTypesKept, HandlerTypesKept, PoolTypesKept, DriverTypesKept DEF Types

\* The steps that leave the rings, the calls and the handler's request alone.
LEMMA BackgroundLeaves ==
  StartTask \/ (\E k \in running : FinishTask(k)) \/ ReadExtraData \/ BeginDestroy \/ DestroyStep
  => UNCHANGED <<guest, serverRing, clientRing, waitStatus, fds, handler, semaphore>>
  BY HostLeavesGuest, WorkersLeaveRings, ConnectorLeavesHandler DEF rings, sockets, driver, guest,
     handler

LEMMA LockKept == Types /\ LockHeld /\ [Next]_vars => LockHeld'
<1> SUFFICES ASSUME Types, LockHeld, [Next]_vars PROVE LockHeld'
  OBVIOUS
<1> USE DEF UnderLock
<1>1. CASE UNCHANGED guest
  BY <1>1 DEF guest, LockHeld
<1>2. ASSUME NEW t \in Thread, NEW op \in Op, NEW v \in 0 .. MaxValue, Begin(t, op, v)
      PROVE  LockHeld'
  BY <1>2, ThreadAssumption DEF Begin, LockHeld, Types, GuestTypes, Goto, Return
<1>3. ASSUME NEW t \in Thread, GuestStep(t)
      PROVE  LockHeld'
  <2>1. CASE Send(t)
    <3>1. call[t].expects \in {"nothing", "reply", "fd"}
      BY DEF Types, GuestTypes, CallSet
    <3> QED BY <2>1, <3>1 DEF Send, UnlocksAfterSend, LockHeld, Types, GuestTypes, Goto, Return
  <2>2. CASE Prepare(t) \/ SendExtraData(t) \/ SendExtraFails(t) \/ SendFails(t) \/ ReceiveReply(t) \/ ReceiveFd(t)
             \/ ReadEvent(t)
    BY <2>2 DEF Prepare, SendExtraData, SendExtraFails, SendFails, ReceiveReply, ReceiveFd, ReadEvent, LockHeld,
       Types, GuestTypes, Goto, Return
  <2> QED BY <1>3, <2>1, <2>2 DEF GuestStep
<1>4. CASE GuestDies
  BY <1>4 DEF GuestDies, LockHeld
<1> QED BY <1>1, <1>2, <1>3, <1>4, Steps, HostLeavesGuest DEF vars

LEMMA ExpectedKept == Types /\ LockHeld /\ Expected /\ [Next]_vars => Expected'
<1> SUFFICES ASSUME Types, LockHeld, Expected, [Next]_vars PROVE Expected'
  OBVIOUS
<1> USE DEF Types
<1>1. CASE UNCHANGED <<guest, serverRing, handler>>
  BY <1>1 DEF guest, handler, Expected
<1>2. ASSUME NEW t \in Thread, NEW op \in Op, NEW v \in 0 .. MaxValue, Begin(t, op, v)
      PROVE  Expected'
  BY <1>2 DEF Begin, Expected, GuestTypes, Goto, Return, rings, handler
<1>3. ASSUME NEW t \in Thread, GuestStep(t)
      PROVE  Expected'
  <2>1. CASE Prepare(t)
    <3>1. Expects(call'[t])
      BY <2>1, CallPrepared DEF Expects, Expectation
    <3>2. /\ pc' = [pc EXCEPT ![t] = IF call[t].op = "big" THEN "extra" ELSE "send"]
          /\ UNCHANGED <<serverRing, hpc, request>>
      BY <2>1 DEF Prepare, Goto, Return, rings, handler
    <3>3. \A u \in Thread : /\ call'[u].op = call[u].op
                            /\ u # t => call'[u] = call[u] /\ pc'[u] = pc[u]
      BY <2>1, <3>2, CallPrepared DEF GuestTypes
    <3>4. pc'[t] = "extra" => call'[t].op = "big"
      <4>1. pc'[t] = IF call[t].op = "big" THEN "extra" ELSE "send"
        BY <3>2 DEF GuestTypes
      <4> QED BY <3>3, <4>1
    <3>5. \A u \in Thread : /\ pc'[u] \in {"extra", "send"} => Expects(call'[u])
                            /\ pc'[u] = "extra" => call'[u].op = "big"
      <4> SUFFICES ASSUME NEW u \in Thread
                   PROVE  /\ pc'[u] \in {"extra", "send"} => Expects(call'[u])
                          /\ pc'[u] = "extra" => call'[u].op = "big"
        OBVIOUS
      <4>1. CASE u = t
        BY <3>1, <3>4, <4>1
      <4>2. CASE u # t
        BY <3>3, <4>2 DEF Expected
      <4> QED BY <4>1, <4>2
    <3> QED BY <3>2, <3>5 DEF Expected
  <2>2. CASE Send(t)
    <3>1. call[t] \in Requests /\ Expects(call[t])
      BY <2>2 DEF Send, GuestTypes, Requests, Expected
    <3>2. \A i \in DOMAIN serverRing' : Expects(serverRing'[i])
      BY <2>2, <3>1, Added DEF Send, RingTypes, Expected
    <3>3. \A u \in Thread : pc'[u] \in {"extra", "send"} => pc'[u] = pc[u] /\ call'[u] = call[u]
      <4>1. call[t].expects \notin {"extra", "send"}
        BY <3>1 DEF Requests, CallSet
      <4> QED BY <2>2, <4>1 DEF Send, GuestTypes, Goto, Return
    <3>4. UNCHANGED <<hpc, request>>
      BY <2>2 DEF Send, handler
    <3> QED BY <3>2, <3>3, <3>4 DEF Expected
  <2>3. CASE SendExtraData(t) \/ SendExtraFails(t) \/ SendFails(t) \/ ReceiveReply(t) \/ ReceiveFd(t) \/ ReadEvent(t)
    BY <2>3 DEF SendExtraData, SendExtraFails, SendFails, ReceiveReply, ReceiveFd, ReadEvent, Expected, GuestTypes,
       Goto, Return, rings, handler
  <2> QED BY <1>3, <2>1, <2>2, <2>3 DEF GuestStep
<1>4. CASE GuestDies
  BY <1>4 DEF GuestDies, Expected, rings, handler
<1>5. CASE HandlerStep
  <2>1. CASE Receive
    <3>1. /\ Expects(Head(serverRing)) /\ request' = Head(serverRing)
          /\ \A i \in DOMAIN serverRing' : Expects(serverRing'[i])
      BY <2>1, Taken DEF Receive, RingTypes, Expected
    <3> QED BY <2>1, <3>1 DEF Receive, Expected, guest
  <2>2. CASE SendFd \/ RunTask \/ HandleSubmit \/ DecodeAll \/ DecodeDone \/ EarlyReply \/ Submit \/ SendReply
    BY <2>2 DEF SendFd, RunTask, HandleSubmit, DecodeAll, DecodeDone, EarlyReply, Submit,
       SendReply, Expected, guest, rings
  <2>3. CASE Loop \/ ReceiveFails \/ FindExtraData \/ ExtraDataFails \/ HandleCreate \/ HandleSync
             \/ HandleDestroy
    BY <2>3 DEF Loop, ReceiveFails, FindExtraData, ExtraDataFails, HandleCreate, HandleSync,
       HandleDestroy, Expected, guest, rings
  <2> QED BY <1>5, <2>1, <2>2, <2>3 DEF HandlerStep
<1> QED BY <1>1, <1>2, <1>3, <1>4, <1>5, Steps, BackgroundLeaves DEF vars, rings
-----------------------------------------------------------------------------
\* Who waits for an answer goes on waiting until it takes it.
LEMMA WaitsKept ==
  ASSUME Types, LockHeld, [Next]_vars, NEW id, NEW answer \in {"reply", "fd"}, Waits(id, answer),
         \A t \in Thread : pc[t] = answer => pc'[t] \in {answer, "dead"}
  PROVE  Waits(id, answer)'
<1> USE DEF Types, GuestTypes
<1>1. PICK u \in Thread : lock = u /\ pc[u] \in {answer, "dead"} /\ call[u].id = id
  BY DEF Waits
<1>2. CASE UNCHANGED guest
  BY <1>1, <1>2 DEF guest, Waits
<1>3. ASSUME NEW t \in Thread, NEW op \in Op, NEW v \in 0 .. MaxValue, Begin(t, op, v)
      PROVE  Waits(id, answer)'
  BY <1>1, <1>3, ThreadAssumption DEF Begin
<1>4. ASSUME NEW t \in Thread, GuestStep(t)
      PROVE  Waits(id, answer)'
  <2>1. pc[t] = "event" \/ (pc[t] \in UnderLock /\ lock = t)
    BY <1>4 DEF GuestStep, Prepare, SendExtraData, Send, SendExtraFails, SendFails, ReceiveReply, ReceiveFd,
       ReadEvent, LockHeld, UnderLock
  <2>2. CASE pc[t] = "event"
    <3>1. ReadEvent(t)
      BY <1>4, <2>2 DEF GuestStep, Prepare, SendExtraData, Send, SendExtraFails, SendFails,
         ReceiveReply, ReceiveFd
    <3> QED BY <1>1, <2>2, <3>1 DEF ReadEvent, Return, Waits
  <2>3. CASE pc[t] # "event"
    <3>1. t = u /\ (ReceiveReply(t) \/ ReceiveFd(t))
      BY <1>1, <1>4, <2>1, <2>3 DEF GuestStep, Prepare, SendExtraData, Send, SendExtraFails, SendFails, ReadEvent
    <3>2. pc[t] = answer => pc'[t] # "idle" /\ pc'[t] # "event"
      OBVIOUS
    <3>3. /\ ReceiveFd(t) => pc[t] = "fd" /\ pc'[t] \in {"event", "idle"}
          /\ ReceiveReply(t) => pc[t] = "reply" /\ pc'[t] = "idle"
      BY DEF ReceiveFd, ReceiveReply, Goto, Return
    <3> QED BY <1>1, <3>1, <3>2, <3>3
  <2> QED BY <2>2, <2>3
<1>5. CASE GuestDies
  BY <1>1, <1>5 DEF GuestDies, Waits
<1> QED BY <1>2, <1>3, <1>4, <1>5, Steps, HostLeavesGuest DEF vars

\* A thread that is in a section of the mutex is not waiting for anything.
LEMMA NobodyWaits ==
  ASSUME LockHeld, NEW t \in Thread, NEW answer \in {"reply", "fd"}, NEW id,
         pc[t] \in UnderLock \ {answer}
  PROVE  ~Waits(id, answer)
  BY DEF LockHeld, UnderLock, Waits

\* The steps of the handler that only go on with a request leave the ring, the
\* descriptors and the guest alone, and owe no descriptor that was not owed.
LEMMA FdNarrows ==
  ASSUME FdPath, Closed => Closed', UNCHANGED <<serverRing, fds>>,
         FdOwed' => FdOwed /\ request' = request,
         \A id : Waits(id, "fd") => Waits(id, "fd")'
  PROVE  FdPath'
  BY DEF FdPath, AtOnePlace

\* The socket is never opened again, and only the connector closes it.
LEMMA ClosedStays == [Next]_vars /\ Closed => Closed'
<1>1. UNCHANGED epc \/ ReadExtraData \/ BeginDestroy \/ DestroyStep \/ ~[Next]_vars
  <2>1. HandlerStep => UNCHANGED epc
    BY DEF HandlerStep, Loop, Receive, ReceiveFails, FindExtraData, ExtraDataFails, HandleCreate,
           HandleSync, HandleDestroy, SendFd, RunTask, HandleSubmit, DecodeAll, DecodeDone,
           EarlyReply, Submit, SendReply
  <2> QED BY <2>1, Steps, GuestLeavesHost, WorkersLeaveRings DEF vars
<1> QED BY <1>1 DEF Closed, ReadExtraData, BeginDestroy, DestroyStep, SetStatus, SetExit,
               JoinHandler, DropTasks, FreeContext

LEMMA FdPathKept ==
  Types /\ LockHeld /\ Expected /\ FdPath /\ [Next]_vars => FdPath'
<1> SUFFICES ASSUME Types, LockHeld, Expected, FdPath, [Next]_vars PROVE FdPath'
  OBVIOUS
<1> USE DEF Types
<1>0. Closed => Closed'
  BY ClosedStays
<1>1. ASSUME \A t \in Thread : pc[t] = "fd" => pc'[t] \in {"fd", "dead"}
      PROVE  \A id : Waits(id, "fd") => Waits(id, "fd")'
  BY <1>1, WaitsKept
<1>2. ASSUME UNCHANGED <<serverRing, fds>>, FdOwed' => FdOwed /\ request' = request,
             \A t \in Thread : pc[t] = "fd" => pc'[t] \in {"fd", "dead"}
      PROVE  FdPath'
  BY <1>0, <1>1, <1>2, FdNarrows
<1>3. ASSUME NEW t \in Thread, pc[t] \in UnderLock \ {"fd"}
      PROVE  /\ ~Closed => ~FdOwed /\ \A i \in DOMAIN serverRing : serverRing[i].expects # "fd"
             /\ fds = <<>>
  BY <1>3, NobodyWaits DEF FdPath, AtOnePlace
<1>4. ASSUME NEW t \in Thread, GuestStep(t)
      PROVE  FdPath'
  <2>1. CASE Send(t)
    <3>1. call[t] \in Requests /\ lock = t
      BY <2>1 DEF Send, GuestTypes, Requests, LockHeld, UnderLock
    <3>2. ~Closed => \A i \in DOMAIN serverRing : serverRing[i].expects # "fd"
      BY <1>3, <2>1 DEF Send, UnderLock
    <3>3. (~Closed => ~FdOwed') /\ fds' = <<>>
      BY <1>3, <2>1 DEF Send, UnderLock, FdOwed, handler, sockets
    <3>4. call[t].expects = "fd" => Waits(call[t].id, "fd")'
      BY <2>1, <3>1 DEF Send, UnlocksAfterSend, Goto, GuestTypes, Waits
    <3>5. ~Closed => \A i \in DOMAIN serverRing' :
             serverRing'[i].expects = "fd" => i = Len(serverRing') /\ serverRing'[i] = call[t]
      BY <2>1, <3>1, <3>2, Added DEF Send, RingTypes
    <3>6. call[t].expects = "fd" => call' = call
      BY <2>1 DEF Send, Goto
    <3>7. ~Closed => \A i \in DOMAIN serverRing' : serverRing'[i].expects = "fd" =>
                        /\ i = Len(serverRing')
                        /\ lock' = t /\ pc'[t] = "fd" /\ call'[t].id = serverRing'[i].id
      BY <2>1, <3>1, <3>5, <3>6 DEF Send, UnlocksAfterSend, Goto, GuestTypes
    <3>8. ~Closed => \A i \in DOMAIN serverRing' : serverRing'[i].expects = "fd" =>
                        /\ i = Len(serverRing') /\ ~FdOwed' /\ fds' = <<>>
                        /\ \E u \in Thread : /\ lock' = u /\ pc'[u] \in {"fd", "dead"}
                                            /\ call'[u].id = serverRing'[i].id
      BY <3>3, <3>7
    <3> QED BY <1>0, <3>3, <3>8 DEF FdPath, AtOnePlace, Waits
  <2>2. CASE ReceiveFd(t)
    <3>1. CASE fds # <<>>
      <4>1. Len(fds) = 1 /\ (~Closed => serverRing = <<>> /\ ~FdOwed)
        BY <3>1 DEF FdPath, AtOnePlace
      <4>2. fds' = <<>> /\ serverRing' = serverRing /\ FdOwed' = FdOwed
        BY <2>2, <3>1, <4>1, Taken DEF ReceiveFd, RingTypes, rings, FdOwed, handler
      <4> QED BY <1>0, <4>1, <4>2 DEF FdPath, AtOnePlace
    <3>2. CASE fds = <<>>
      <4>1. fds' = <<>> /\ Closed
        BY <2>2, <3>2 DEF ReceiveFd
      <4> QED BY <1>0, <4>1 DEF FdPath
    <3> QED BY <3>1, <3>2
  <2>3. CASE Prepare(t) \/ SendExtraData(t) \/ SendExtraFails(t) \/ SendFails(t) \/ ReceiveReply(t) \/ ReadEvent(t)
    <3>1. UNCHANGED <<serverRing, fds, handler>>
      BY <2>3 DEF Prepare, SendExtraData, SendExtraFails, SendFails, ReceiveReply, ReadEvent, rings, sockets
    <3>2. \A u \in Thread : pc[u] = "fd" => pc'[u] \in {"fd", "dead"}
      BY <2>3 DEF Prepare, SendExtraData, SendExtraFails, SendFails, ReceiveReply, ReadEvent, Goto, Return, GuestTypes
    <3> QED BY <1>2, <3>1, <3>2 DEF handler, FdOwed
  <2> QED BY <1>4, <2>1, <2>2, <2>3 DEF GuestStep
<1>5. CASE HandlerStep
  <2>1. \A u \in Thread : pc[u] = "fd" => pc'[u] \in {"fd", "dead"}
    BY <1>5, HostLeavesGuest DEF guest
  <2>5. ASSUME Closed, fds' = fds
        PROVE  FdPath'
    BY <1>0, <1>1, <2>1, <2>5 DEF FdPath
  <2>2. CASE Receive /\ ~Closed
    <3> DEFINE r == Head(serverRing)
    <3>1. request' = r /\ serverRing' = Tail(serverRing) /\ fds' = fds /\ fds = <<>> /\ ~FdOwed
      BY <2>2 DEF Receive, sockets, FdPath, AtOnePlace, FdOwed
    <3>2. CASE r.expects = "fd"
      <4>1. PICK id : id = r.id
        OBVIOUS
      <4>2. Len(serverRing) = 1 /\ Waits(id, "fd")
        BY <2>2, <3>2, <4>1, Taken DEF Receive, RingTypes, FdPath, AtOnePlace
      <4>3. serverRing' = <<>>
        BY <2>2, <3>1, <4>2, Taken DEF Receive, RingTypes
      <4>4. Waits(id, "fd")' /\ request'.id = id
        BY <1>1, <2>1, <3>1, <4>1, <4>2
      <4> QED BY <3>1, <4>3, <4>4 DEF FdPath, AtOnePlace, Waits
    <3>3. CASE r.expects # "fd"
      <4>1. ~FdOwed'
        BY <3>1, <3>3 DEF FdOwed
      <4>2. \A i \in DOMAIN serverRing' : serverRing'[i].expects = "fd" =>
               i = Len(serverRing') /\ Waits(serverRing'[i].id, "fd")
        <5> SUFFICES ASSUME NEW i \in DOMAIN serverRing', serverRing'[i].expects = "fd"
                     PROVE  i = Len(serverRing') /\ Waits(serverRing'[i].id, "fd")
          OBVIOUS
        <5>1. /\ i + 1 \in DOMAIN serverRing /\ serverRing'[i] = serverRing[i + 1]
              /\ Len(serverRing') = Len(serverRing) - 1 /\ Len(serverRing) \in Nat
              /\ i \in Nat
          BY <2>2, <3>1, Taken DEF Receive, RingTypes
        <5> QED BY <2>2, <5>1 DEF FdPath, AtOnePlace
      <4> QED BY <1>1, <2>1, <3>1, <4>1, <4>2 DEF FdPath, AtOnePlace
    <3> QED BY <3>2, <3>3
  <2>3. CASE SendFd /\ ~Closed
    <3>1. FdOwed
      BY <2>3 DEF SendFd, FdOwed, Expected, Expects
    <3>2. /\ serverRing = <<>> /\ fds = <<>> /\ Waits(request.id, "fd")
          /\ serverRing' = serverRing /\ ~FdOwed'
      BY <2>3, <3>1 DEF SendFd, rings, FdPath, AtOnePlace, FdOwed
    <3>3. fds' = <<>> \/ (Len(fds') = 1 /\ Head(fds').id = request.id)
      <4>1. PICK ok \in BOOLEAN : SendDescriptor(ok)
        BY <2>3 DEF SendFd
      <4>2. fds' = <<>> \/ fds' = <<[id |-> request.id, ok |-> ok]>>
        BY <3>2, <4>1 DEF SendDescriptor
      <4> QED BY <4>2
    <3> QED BY <1>1, <2>1, <3>2, <3>3 DEF FdPath, AtOnePlace
  <2>4. CASE ~Receive /\ ~SendFd
    <3>1. UNCHANGED <<serverRing, fds>> /\ (FdOwed' => FdOwed /\ request' = request)
      BY <1>5, <2>4 DEF HandlerStep, Loop, ReceiveFails, FindExtraData, ExtraDataFails,
         HandleCreate, HandleSync, HandleDestroy, RunTask, HandleSubmit, DecodeAll, DecodeDone,
         EarlyReply, Submit, SendReply, rings, sockets, FdOwed, Expected, Expects
    <3> QED BY <1>2, <2>1, <3>1
  <2>6. CASE (Receive \/ SendFd) /\ Closed
    BY <2>5, <2>6 DEF Receive, SendFd, SendDescriptor, sockets
  <2> QED BY <2>2, <2>3, <2>4, <2>6
<1>6. CASE GuestDies \/ UNCHANGED vars \/ \E t \in Thread, op \in Op, v \in 0 .. MaxValue : Begin(t, op, v)
  <2>1. UNCHANGED <<serverRing, fds, handler>>
    BY <1>6 DEF GuestDies, Begin, vars, rings, sockets
  <2>2. \A u \in Thread : pc[u] = "fd" => pc'[u] \in {"fd", "dead"}
    BY <1>6 DEF GuestDies, Begin, vars, guest, Goto, Return, GuestTypes
  <2> QED BY <1>2, <2>1, <2>2 DEF handler, FdOwed
<1>7. CASE StartTask \/ (\E k \in running : FinishTask(k)) \/ ReadExtraData \/ BeginDestroy
           \/ DestroyStep
  <2>1. UNCHANGED <<serverRing, fds, handler>>
    BY <1>7, BackgroundLeaves
  <2>2. \A u \in Thread : pc[u] = "fd" => pc'[u] \in {"fd", "dead"}
    BY <1>7, HostLeavesGuest DEF guest
  <2> QED BY <1>2, <2>1, <2>2 DEF handler, FdOwed
<1> QED BY <1>4, <1>5, <1>6, <1>7, Steps
-----------------------------------------------------------------------------
LEMMA ReplyNarrows ==
  ASSUME ReplyPath, exitStatus => exitStatus', UNCHANGED <<serverRing, clientRing>>,
         ~exitStatus /\ ReplyOwed' => ReplyOwed /\ request' = request,
         \A id : Waits(id, "reply") => Waits(id, "reply")'
  PROVE  ReplyPath'
  BY DEF ReplyPath, AtOnePlace

\* RING_STATUS_EXIT is never taken back.
LEMMA ExitStays == [Next]_vars /\ exitStatus => exitStatus'
<1> SUFFICES ASSUME [Next]_vars, exitStatus PROVE exitStatus'
  OBVIOUS
<1>1. CASE HandlerStep
  BY <1>1 DEF HandlerStep, Loop, Receive, ReceiveFails, FindExtraData, ExtraDataFails, HandleCreate,
         HandleSync, HandleDestroy, SendFd, RunTask, HandleSubmit, DecodeAll, DecodeDone,
         EarlyReply, Submit, SendReply, rings
<1>2. ASSUME NEW t \in Thread, GuestStep(t)
      PROVE  exitStatus'
  BY <1>2 DEF GuestStep, Prepare, SendExtraData, Send, SendExtraFails, SendFails, ReceiveReply, ReceiveFd,
         ReadEvent, rings
<1>3. CASE UNCHANGED vars \/ GuestDies \/ \E t \in Thread, op \in Op, v \in 0 .. MaxValue : Begin(t, op, v)
  BY <1>3 DEF vars, GuestDies, Begin, rings
<1>4. CASE StartTask \/ (\E k \in running : FinishTask(k)) \/ ReadExtraData \/ BeginDestroy
           \/ DestroyStep
  BY <1>4 DEF StartTask, FinishTask, ReadExtraData, BeginDestroy, DestroyStep, SetStatus, SetExit, ExitSet,
         JoinHandler, DropTasks, FreeContext, rings
<1> QED BY <1>1, <1>2, <1>3, <1>4, Steps

LEMMA ReplyPathKept ==
  Types /\ LockHeld /\ Expected /\ SameStatus /\ ReplyPath /\ [Next]_vars => ReplyPath'
<1> SUFFICES ASSUME Types, LockHeld, Expected, SameStatus, ReplyPath, [Next]_vars, ~exitStatus'
             PROVE  ReplyPath'
  BY DEF ReplyPath
<1> USE DEF Types
<1>0. ~exitStatus
  BY ExitStays
<1>1. ASSUME \A t \in Thread : pc[t] = "reply" => pc'[t] \in {"reply", "dead"}
      PROVE  \A id : Waits(id, "reply") => Waits(id, "reply")'
  BY <1>1, WaitsKept
<1>2. ASSUME UNCHANGED <<serverRing, clientRing>>, ReplyOwed' => ReplyOwed /\ request' = request,
             \A t \in Thread : pc[t] = "reply" => pc'[t] \in {"reply", "dead"}
      PROVE  ReplyPath'
  BY <1>0, <1>1, <1>2, ReplyNarrows
<1>3. ASSUME NEW t \in Thread, pc[t] \in UnderLock \ {"reply"}
      PROVE  /\ \A i \in DOMAIN serverRing : serverRing[i].expects # "reply"
             /\ ~ReplyOwed /\ clientRing = <<>>
  BY <1>0, <1>3, NobodyWaits DEF ReplyPath, AtOnePlace
<1>4. ASSUME NEW t \in Thread, GuestStep(t)
      PROVE  ReplyPath'
  <2>1. CASE Send(t)
    <3>1. call[t] \in Requests /\ lock = t
      BY <2>1 DEF Send, GuestTypes, Requests, LockHeld, UnderLock
    <3>2. \A i \in DOMAIN serverRing : serverRing[i].expects # "reply"
      BY <1>3, <2>1 DEF Send, UnderLock
    <3>3. ~ReplyOwed' /\ clientRing' = <<>>
      BY <1>3, <2>1 DEF Send, UnderLock, ReplyOwed, handler
    <3>4. call[t].expects = "reply" => Waits(call[t].id, "reply")'
      BY <2>1, <3>1 DEF Send, UnlocksAfterSend, Goto, Return, GuestTypes, Waits
    <3>5. \A i \in DOMAIN serverRing' :
             serverRing'[i].expects = "reply" => i = Len(serverRing') /\ serverRing'[i] = call[t]
      BY <2>1, <3>1, <3>2, Added DEF Send, RingTypes
    <3>6. \A i \in DOMAIN serverRing' : serverRing'[i].expects = "reply" =>
             /\ i = Len(serverRing')
             /\ lock' = t /\ pc'[t] = "reply" /\ call'[t].id = serverRing'[i].id
      BY <2>1, <3>1, <3>5 DEF Send, UnlocksAfterSend, Goto, GuestTypes
    <3>7. \A i \in DOMAIN serverRing' : serverRing'[i].expects = "reply" =>
             /\ i = Len(serverRing') /\ ~ReplyOwed' /\ clientRing' = <<>>
             /\ \E u \in Thread : /\ lock' = u /\ pc'[u] \in {"reply", "dead"}
                                 /\ call'[u].id = serverRing'[i].id
      BY <3>3, <3>6
    <3> QED BY <3>3, <3>7 DEF ReplyPath, AtOnePlace, Waits
  <2>2. CASE ReceiveReply(t)
    <3>1. Len(clientRing) = 1 /\ serverRing = <<>> /\ ~ReplyOwed
      BY <1>0, <2>2 DEF ReceiveReply, ReplyPath, AtOnePlace
    <3>2. clientRing' = <<>> /\ serverRing' = <<>> /\ ~ReplyOwed'
      BY <1>0, <2>2, <3>1, Taken DEF ReceiveReply, RingTypes, ReplyOwed, handler
    <3> QED BY <3>2 DEF ReplyPath, AtOnePlace
  <2>3. CASE Prepare(t) \/ SendExtraData(t) \/ SendExtraFails(t) \/ SendFails(t) \/ ReceiveFd(t) \/ ReadEvent(t)
    <3>1. UNCHANGED <<serverRing, clientRing, handler>>
      BY <2>3 DEF Prepare, SendExtraData, SendExtraFails, SendFails, ReceiveFd, ReadEvent, rings
    <3>2. \A u \in Thread : pc[u] = "reply" => pc'[u] \in {"reply", "dead"}
      BY <2>3 DEF Prepare, SendExtraData, SendExtraFails, SendFails, ReceiveFd, ReadEvent, Goto, Return, GuestTypes
    <3> QED BY <1>2, <3>1, <3>2 DEF handler, ReplyOwed
  <2> QED BY <1>4, <2>1, <2>2, <2>3 DEF GuestStep
<1>5. CASE HandlerStep
  <2>1. \A u \in Thread : pc[u] = "reply" => pc'[u] \in {"reply", "dead"}
    BY <1>5, HostLeavesGuest DEF guest
  <2>2. CASE Receive
    <3> DEFINE r == Head(serverRing)
    <3>1. request' = r /\ serverRing' = Tail(serverRing) /\ clientRing' = <<>> /\ ~ReplyOwed
      BY <1>0, <2>2 DEF Receive, ReplyPath, AtOnePlace, ReplyOwed
    <3>2. CASE r.expects = "reply"
      <4>1. PICK id : id = r.id
        OBVIOUS
      <4>2. Len(serverRing) = 1 /\ Waits(id, "reply")
        BY <1>0, <2>2, <3>2, <4>1, Taken DEF Receive, RingTypes, ReplyPath, AtOnePlace
      <4>3. serverRing' = <<>>
        BY <2>2, <3>1, <4>2, Taken DEF Receive, RingTypes
      <4>4. Waits(id, "reply")' /\ request'.id = id
        BY <1>1, <2>1, <3>1, <4>1, <4>2
      <4> QED BY <3>1, <4>3, <4>4 DEF ReplyPath, AtOnePlace, Waits
    <3>3. CASE r.expects # "reply"
      <4>1. ~ReplyOwed'
        BY <2>2, <3>1, <3>3 DEF Receive, ReplyOwed
      <4>2. \A i \in DOMAIN serverRing' : serverRing'[i].expects = "reply" =>
               i = Len(serverRing') /\ Waits(serverRing'[i].id, "reply")
        <5> SUFFICES ASSUME NEW i \in DOMAIN serverRing', serverRing'[i].expects = "reply"
                     PROVE  i = Len(serverRing') /\ Waits(serverRing'[i].id, "reply")
          OBVIOUS
        <5>1. /\ i + 1 \in DOMAIN serverRing /\ serverRing'[i] = serverRing[i + 1]
              /\ Len(serverRing') = Len(serverRing) - 1 /\ Len(serverRing) \in Nat
              /\ i \in Nat
          BY <2>2, <3>1, Taken DEF Receive, RingTypes
        <5> QED BY <1>0, <5>1 DEF ReplyPath, AtOnePlace
      <4> QED BY <1>1, <2>1, <3>1, <4>1, <4>2 DEF ReplyPath, AtOnePlace
    <3> QED BY <3>2, <3>3
  <2>3. CASE SendReply \/ (EarlyReply /\ clientWaiting)
    <3>1. ReplyOwed
      BY <2>3 DEF SendReply, EarlyReply, ReplyOwed
    <3>2. PICK ok \in BOOLEAN : clientRing' = Append(clientRing, [id |-> request.id, ok |-> ok])
      BY <2>3 DEF SendReply, EarlyReply, Reply, DriverTypes
    <3>3. /\ serverRing = <<>> /\ clientRing = <<>> /\ Waits(request.id, "reply")
          /\ serverRing' = serverRing /\ ~ReplyOwed'
      BY <1>0, <2>3, <3>1 DEF SendReply, EarlyReply, AfterEarlyReply, ReplyPath, AtOnePlace, ReplyOwed
    <3>4. Len(clientRing') = 1 /\ Head(clientRing') = [id |-> request.id, ok |-> ok]
      <4> DEFINE m == [id |-> request.id, ok |-> ok]
      <4>1. \A x : Len(Append(<<>>, x)) = 1 /\ Head(Append(<<>>, x)) = x
        OBVIOUS
      <4>2. clientRing' = Append(<<>>, m)
        BY <3>2, <3>3
      <4> HIDE DEF m
      <4>3. Len(clientRing') = 1 /\ Head(clientRing') = m
        BY <4>1, <4>2
      <4> QED BY <4>3 DEF m
    <3>5. Head(clientRing').id = request.id
      BY <3>4
    <3>6. request' = request
      BY <2>3 DEF SendReply, EarlyReply
    <3> QED BY <1>1, <2>1, <3>3, <3>4, <3>5, <3>6 DEF ReplyPath, AtOnePlace
  <2>4. CASE ~Receive /\ ~SendReply /\ ~(EarlyReply /\ clientWaiting)
    <3>1. HandleSubmit => (ClientWaiting => request.expects = "reply")
      BY <1>0 DEF HandleSubmit, SameStatus, Agrees, ClientWaiting
    <3>2. UNCHANGED <<serverRing, clientRing>>
      BY <1>5, <2>4 DEF HandlerStep, Loop, ReceiveFails, FindExtraData, ExtraDataFails,
         HandleCreate, HandleSync, HandleDestroy, SendFd, RunTask, HandleSubmit, DecodeAll,
         DecodeDone, EarlyReply, Submit, rings
    <3>3. ReplyOwed' => ReplyOwed /\ request' = request
      <4>1. CASE HandleSubmit \/ EarlyReply \/ DecodeAll \/ DecodeDone \/ Submit
        BY <2>4, <3>1, <4>1 DEF HandleSubmit, EarlyReply, AfterEarlyReply, DecodeAll, DecodeDone,
           Submit, ReplyOwed
      <4>2. CASE HandleCreate \/ HandleSync \/ FindExtraData
        BY <4>2 DEF HandleCreate, HandleSync, FindExtraData, ReplyOwed, Expected, Expects
      <4>3. CASE Loop \/ ReceiveFails \/ ExtraDataFails \/ HandleDestroy \/ SendFd \/ RunTask
        BY <4>3 DEF Loop, ReceiveFails, ExtraDataFails, HandleDestroy, SendFd, RunTask, ReplyOwed
      <4> QED BY <1>5, <2>4, <4>1, <4>2, <4>3 DEF HandlerStep
    <3> QED BY <1>2, <2>1, <3>2, <3>3
  <2> QED BY <2>2, <2>3, <2>4
<1>6. CASE GuestDies \/ UNCHANGED vars \/ \E t \in Thread, op \in Op, v \in 0 .. MaxValue : Begin(t, op, v)
  <2>1. UNCHANGED <<serverRing, clientRing, handler>>
    BY <1>6 DEF GuestDies, Begin, vars, rings
  <2>2. \A u \in Thread : pc[u] = "reply" => pc'[u] \in {"reply", "dead"}
    BY <1>6 DEF GuestDies, Begin, vars, guest, Goto, Return, GuestTypes
  <2> QED BY <1>2, <2>1, <2>2 DEF handler, ReplyOwed
<1>7. CASE StartTask \/ (\E k \in running : FinishTask(k)) \/ ReadExtraData \/ BeginDestroy
           \/ DestroyStep
  <2>1. UNCHANGED <<serverRing, clientRing, handler>>
    BY <1>7, BackgroundLeaves
  <2>2. \A u \in Thread : pc[u] = "reply" => pc'[u] \in {"reply", "dead"}
    BY <1>7, HostLeavesGuest DEF guest
  <2> QED BY <1>2, <2>1, <2>2 DEF handler, ReplyOwed
<1> QED BY <1>4, <1>5, <1>6, <1>7, Steps

LEMMA SameStatusKept ==
  Types /\ LockHeld /\ Expected /\ ReplyPath /\ SameStatus /\ [Next]_vars => SameStatus'
<1> SUFFICES ASSUME Types, LockHeld, Expected, ReplyPath, SameStatus, [Next]_vars, ~exitStatus'
             PROVE  SameStatus'
  BY DEF SameStatus
<1> USE DEF Types
<1>0. ~exitStatus
  BY ExitStays
<1>1. CASE UNCHANGED <<guest, serverRing, waitStatus, handler>>
  BY <1>0, <1>1 DEF guest, handler, SameStatus, Agrees
<1>2. ASSUME NEW t \in Thread, NEW op \in Op, NEW v \in 0 .. MaxValue, Begin(t, op, v)
      PROVE  SameStatus'
  BY <1>0, <1>2 DEF Begin, SameStatus, Agrees, GuestTypes, Goto, Return, rings, handler
<1>3. ASSUME NEW t \in Thread, GuestStep(t)
      PROVE  SameStatus'
  <2>1. CASE Prepare(t)
    <3>1. UNCHANGED <<serverRing, waitStatus, hpc, request>>
      BY <2>1 DEF Prepare, rings, handler
    <3>2. Agrees(call'[t])
      BY <2>1, CallPrepared DEF Agrees, Expectation
    <3>3. \A u \in Thread \ {t} : call'[u] = call[u] /\ pc'[u] = pc[u]
      BY <2>1, CallPrepared DEF Prepare, Goto, Return, GuestTypes
    <3>4. \A u \in Thread : pc'[u] = "send" => Agrees(call'[u])
      BY <1>0, <3>2, <3>3 DEF SameStatus
    <3> QED BY <1>0, <3>1, <3>4 DEF SameStatus, Agrees
  <2>2. CASE Send(t)
    <3>1. call[t] \in Requests /\ Agrees(call[t])
      BY <1>0, <2>2 DEF Send, GuestTypes, Requests, SameStatus
    <3>2. \A i \in DOMAIN serverRing' : Agrees(serverRing'[i])
      BY <1>0, <2>2, <3>1, Added DEF Send, RingTypes, SameStatus
    <3>3. \A u \in Thread : pc'[u] = "send" => pc[u] = "send" /\ call'[u] = call[u]
      <4>1. call[t].expects # "send"
        BY <3>1 DEF Requests, CallSet
      <4> QED BY <2>2, <4>1 DEF Send, GuestTypes, Goto, Return
    <3>4. UNCHANGED <<hpc, request, waitStatus>>
      BY <2>2 DEF Send, handler
    <3> QED BY <1>0, <3>2, <3>3, <3>4 DEF SameStatus, Agrees
  <2>3. CASE SendExtraData(t)
    <3>1. UNCHANGED <<serverRing, waitStatus, hpc, request, call>>
      BY <2>3 DEF SendExtraData, rings, handler, Goto
    <3>2. Agrees(call[t]) /\ \A u \in Thread \ {t} : pc'[u] = pc[u]
      BY <2>3 DEF SendExtraData, Agrees, Expected, Goto, Return, GuestTypes
    <3> QED BY <1>0, <3>1, <3>2 DEF SameStatus, Agrees
  <2>4. CASE SendExtraFails(t) \/ SendFails(t) \/ ReceiveReply(t) \/ ReceiveFd(t) \/ ReadEvent(t)
    BY <1>0, <2>4 DEF SendExtraFails, SendFails, ReceiveReply, ReceiveFd, ReadEvent, SameStatus, Agrees,
       GuestTypes, Goto, Return, rings, handler
  <2> QED BY <1>3, <2>1, <2>2, <2>3, <2>4 DEF GuestStep
<1>4. CASE GuestDies
  BY <1>0, <1>4 DEF GuestDies, SameStatus, Agrees, rings, handler
<1>5. CASE HandlerStep
  <2>1. CASE Receive
    <3>1. /\ Agrees(Head(serverRing)) /\ request' = Head(serverRing)
          /\ \A i \in DOMAIN serverRing' : Agrees(serverRing'[i])
      BY <1>0, <2>1, Taken DEF Receive, RingTypes, SameStatus
    <3>2. UNCHANGED <<pc, call, waitStatus>>
      BY <2>1 DEF Receive, guest
    <3> QED BY <1>0, <3>1, <3>2 DEF SameStatus, Agrees
  <2>2. CASE HandleCreate
    <3>1. ReplyOwed
      BY <2>2 DEF HandleCreate, ReplyOwed, Expected, Expects
    <3>2. serverRing = <<>> /\ Waits(request.id, "reply")
      BY <1>0, <3>1 DEF ReplyPath, AtOnePlace
    <3>3. \A u \in Thread : pc[u] # "send"
      BY <3>2 DEF Waits, LockHeld, UnderLock
    <3> QED BY <2>2, <3>2, <3>3 DEF HandleCreate, guest, SameStatus
  <2>3. CASE ~Receive /\ ~HandleCreate
    <3>1. UNCHANGED <<guest, serverRing, waitStatus>>
          /\ (hpc' = "handle" => (hpc' = hpc /\ request' = request) \/ request'.op = "big")
      BY <1>5, <2>3 DEF HandlerStep, Loop, ReceiveFails, FindExtraData, ExtraDataFails,
         HandleSync, HandleDestroy, SendFd, RunTask, HandleSubmit, DecodeAll, DecodeDone,
         EarlyReply, Submit, SendReply, rings, Expected
    <3> QED BY <1>0, <3>1 DEF SameStatus, Agrees, guest
  <2> QED BY <2>1, <2>2, <2>3
<1> QED BY <1>1, <1>2, <1>3, <1>4, <1>5, Steps, BackgroundLeaves DEF vars, rings
-----------------------------------------------------------------------------
LEMMA SemaphoreBoundKept ==
  Types /\ LockHeld /\ SemaphoreBound /\ [Next]_vars => SemaphoreBound'
<1> SUFFICES ASSUME Types, LockHeld, SemaphoreBound, [Next]_vars PROVE SemaphoreBound'
  OBVIOUS
<1> USE DEF Types
<1>0. /\ semaphore \in Nat /\ calls \in Nat /\ Len(serverRing) \in Nat
      /\ InGuest \in {0, 1} /\ InHandler \in {0, 1} /\ InGuest' \in {0, 1} /\ InHandler' \in {0, 1}
  <2>1. Len(serverRing) \in Nat
    BY DEF RingTypes
  <2> QED BY <2>1, Bounds DEF GuestTypes, DriverTypes, InGuest, InHandler
<1>1. ASSUME UNCHANGED <<serverRing, handler, semaphore, calls>>,
             \A t \in Thread : pc'[t] \in {"locked", "extra", "send"}
                                => \E u \in Thread : pc[u] \in {"locked", "extra", "send"}
      PROVE  SemaphoreBound'
  <2>1. InHandler' = InHandler /\ InGuest' <= InGuest
    BY <1>1 DEF handler, InHandler, InGuest
  <2> QED BY <1>0, <1>1, <2>1 DEF SemaphoreBound
<1>2. ASSUME NEW t \in Thread, NEW op \in Op, NEW v \in 0 .. MaxValue, Begin(t, op, v)
      PROVE  SemaphoreBound'
  <2>1. InGuest = 0
    BY <1>2, ThreadAssumption DEF Begin, InGuest, LockHeld, UnderLock
  <2>2. InHandler' = InHandler /\ UNCHANGED <<serverRing, semaphore>> /\ calls' = calls + 1
    BY <1>2 DEF Begin, InHandler, rings, handler, driver
  <2> QED BY <1>0, <2>1, <2>2 DEF SemaphoreBound
<1>3. ASSUME NEW t \in Thread, GuestStep(t)
      PROVE  SemaphoreBound'
  <2>1. CASE Send(t)
    <3>1. call[t] \in Requests
      BY <2>1 DEF Send, GuestTypes, Requests
    <3>2. Len(serverRing') = Len(serverRing) + 1
      BY <2>1, <3>1, Added DEF Send, RingTypes
    <3>3. InGuest = 1 /\ InGuest' = 0
      <4>1. call[t].expects \notin {"locked", "extra", "send"}
        BY <3>1 DEF Requests, CallSet
      <4> QED BY <2>1, <4>1 DEF Send, InGuest, LockHeld, UnderLock, GuestTypes, Goto, Return
    <3>4. InHandler' = InHandler /\ UNCHANGED <<semaphore, calls>>
      BY <2>1 DEF Send, InHandler, handler, driver
    <3> QED BY <1>0, <3>2, <3>3, <3>4 DEF SemaphoreBound
  <2>2. CASE Prepare(t) \/ SendExtraData(t) \/ SendExtraFails(t) \/ SendFails(t) \/ ReceiveReply(t) \/ ReceiveFd(t)
             \/ ReadEvent(t)
    <3>1. UNCHANGED <<serverRing, handler, semaphore, calls>>
      BY <2>2 DEF Prepare, SendExtraData, SendExtraFails, SendFails, ReceiveReply, ReceiveFd, ReadEvent, rings,
         driver
    <3>2. \A w \in Thread : pc'[w] \in {"locked", "extra", "send"}
                            => \E u \in Thread : pc[u] \in {"locked", "extra", "send"}
      BY <2>2 DEF Prepare, SendExtraData, SendExtraFails, SendFails, ReceiveReply, ReceiveFd, ReadEvent, Goto, Return,
         GuestTypes
    <3> QED BY <1>1, <3>1, <3>2
  <2> QED BY <1>3, <2>1, <2>2 DEF GuestStep
<1>4. CASE GuestDies \/ UNCHANGED vars
  BY <1>1, <1>4 DEF GuestDies, vars, guest, rings, driver
<1>5. CASE HandlerStep
  <2>1. InGuest' = InGuest /\ calls' = calls
    BY <1>5, HostLeavesGuest DEF guest, InGuest
  <2>2. CASE Receive
    <3>1. Len(serverRing') = Len(serverRing) - 1
      BY <2>2, Taken DEF Receive, RingTypes
    <3>2. InHandler = 0 /\ semaphore' = semaphore
      BY <2>2 DEF Receive, InHandler, driver
    <3> QED BY <1>0, <2>1, <3>1, <3>2 DEF SemaphoreBound
  <2>3. CASE HandleSync \/ Submit
    <3>1. /\ semaphore' \in {semaphore, semaphore + 1} /\ serverRing' = serverRing
          /\ InHandler = 1 /\ InHandler' = 0
      BY <2>3 DEF HandleSync, Submit, rings, InHandler
    <3> QED BY <1>0, <2>1, <3>1 DEF SemaphoreBound
  <2>4. CASE ~Receive /\ ~HandleSync /\ ~Submit
    <3>1. UNCHANGED <<serverRing, semaphore>>
      BY <1>5, <2>4 DEF HandlerStep, Loop, ReceiveFails, FindExtraData, ExtraDataFails,
         HandleCreate, HandleDestroy, SendFd, RunTask, HandleSubmit, DecodeAll, DecodeDone,
         EarlyReply, SendReply, rings, driver
    <3>2. InHandler' = 1 => InHandler = 1
      BY <1>5, <2>4 DEF HandlerStep, Loop, ReceiveFails, FindExtraData, ExtraDataFails,
         HandleCreate, HandleDestroy, SendFd, RunTask, HandleSubmit, DecodeAll, DecodeDone,
         EarlyReply, SendReply, InHandler
    <3> QED BY <1>0, <2>1, <3>1, <3>2 DEF SemaphoreBound
  <2> QED BY <2>2, <2>3, <2>4
<1>6. CASE StartTask \/ (\E k \in running : FinishTask(k)) \/ ReadExtraData \/ BeginDestroy
           \/ DestroyStep
  BY <1>1, <1>6, BackgroundLeaves DEF guest
<1> QED BY <1>2, <1>3, <1>4, <1>5, <1>6, Steps

LEMMA TeardownKept == Teardown /\ [Next]_vars => Teardown'
<1> SUFFICES ASSUME Teardown, [Next]_vars PROVE Teardown'
  OBVIOUS
<1>1. CASE HandlerStep
  <2>1. hpc # "done" /\ epc' = epc
    BY <1>1 DEF HandlerStep, Loop, Receive, ReceiveFails, FindExtraData, ExtraDataFails,
       HandleCreate, HandleSync, HandleDestroy, SendFd, RunTask, HandleSubmit, DecodeAll,
       DecodeDone, EarlyReply, Submit, SendReply
  <2> QED BY <2>1 DEF Teardown
<1>2. CASE StartTask
  BY <1>2 DEF StartTask, Teardown, handler
<1>3. ASSUME NEW k \in running, FinishTask(k)
      PROVE  Teardown'
  BY <1>3 DEF FinishTask, Teardown, handler
<1>4. CASE ReadExtraData \/ BeginDestroy \/ DestroyStep
  BY <1>4 DEF ReadExtraData, BeginDestroy, DestroyStep, SetStatus, SetExit, JoinHandler, Joined, DropTasks,
     FreeContext, Teardown, handler, pool
<1>5. CASE UNCHANGED <<handler, pool, epc>>
  BY <1>5 DEF handler, pool, Teardown
<1> QED BY <1>1, <1>2, <1>3, <1>4, <1>5, Steps, GuestLeavesHost DEF vars

LEMMA StepKeepsIInv == IInv /\ [Next]_vars => IInv'
  BY TypesKept, LockKept, ExpectedKept, SemaphoreBoundKept, FdPathKept, ReplyPathKept,
     SameStatusKept, TeardownKept DEF IInv
-----------------------------------------------------------------------------
\* The inductive invariant holds in every reachable state.
THEOREM InductiveInvariant == Spec => []IInv
  BY InitIInv, StepKeepsIInv, PTL DEF Spec

\* Every variable has its type, the server ring holds RingSize requests at most,
\* no more than NumThreads workers run, and the timeline semaphore never goes
\* beyond the calls that were made.
THEOREM TypeCorrect == Spec => []TypeOK
<1>1. IInv => TypeOK
  <2> SUFFICES ASSUME IInv PROVE TypeOK
    OBVIOUS
  <2> USE DEF IInv, Types
  <2>1. \A c \in CallSet : CallOK(c)
    BY DEF CallSet, CallOK
  <2>2. \A i \in DOMAIN serverRing : CallOK(serverRing[i])
    <3>1. \A q \in Seq(Requests) : \A i \in DOMAIN q : q[i] \in Requests
      OBVIOUS
    <3> QED BY <2>1, <3>1 DEF RingTypes, Requests
  <2>3. semaphore \in 0 .. MaxCalls
    <3>1. Len(serverRing) \in Nat /\ InGuest \in {0, 1} /\ InHandler \in {0, 1}
      BY DEF RingTypes, InGuest, InHandler
    <3> QED BY <3>1, Bounds DEF SemaphoreBound, GuestTypes, DriverTypes
  <2>4. /\ lock \in Thread \cup {NoThread} /\ calls \in 0 .. MaxCalls
        /\ pc \in [Thread -> {"idle", "locked", "extra", "send", "reply", "fd", "event", "dead"}]
        /\ \A t \in Thread : CallOK(call[t])
    BY <2>1 DEF GuestTypes
  <2> HIDE DEF CallOK
  <2> QED BY <2>1, <2>2, <2>3, <2>4 DEF RingTypes, HandlerTypes, PoolTypes, DriverTypes, TypeOK
<1> QED BY <1>1, InductiveInvariant, PTL

\* A reply in the client ring is the only one and is for the call that waits for
\* it, whatever the threads of the guest, the handler and the connector do.
THEOREM OwnReplies == Spec => []RepliesMatch
<1>1. IInv => RepliesMatch
  BY DEF IInv, ReplyPath, AtOnePlace, Waits, RepliesMatch
<1> QED BY <1>1, InductiveInvariant, PTL

\* A descriptor on its way is the only one and is for the call that waits for it,
\* even while the context is being destroyed.
THEOREM OwnDescriptors == Spec => []FdsMatch
<1>1. IInv => FdsMatch
  BY DEF IInv, FdPath, AtOnePlace, Waits, FdsMatch
<1> QED BY <1>1, InductiveInvariant, PTL

\* When destroyVkContext frees the context, the request handler has ended and the
\* pool has neither a task nor a running worker.
THEOREM TeardownSafe == Spec => []SafeTeardown
<1>1. IInv => SafeTeardown
  BY DEF IInv, Teardown, SafeTeardown
<1> QED BY <1>1, InductiveInvariant, PTL
=============================================================================
