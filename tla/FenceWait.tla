------------------------------ MODULE FenceWait ------------------------------
(***************************************************************************)
(* One vkWaitForFences of a guest thread: the guest sends the request      *)
(* (vulkan_calls.c), the host exports each fence as a descriptor and sends *)
(* the descriptors over the socket (request_handler.c), and the guest      *)
(* polls them itself (waitForEvents of events.h), so that a wait never     *)
(* occupies the host.  A request with timeout 0 is answered by the host.   *)
(*                                                                         *)
(* Fence i, its slot in the host's array and the guest's descriptor for it *)
(* are all written i: the kernel gives the guest distinct descriptors in   *)
(* the order they were sent.  A behaviour is one call.  Time passes in     *)
(* milliseconds and only where the code waits for it, in poll.             *)
(***************************************************************************)
EXTENDS Integers, FiniteSets

CONSTANTS
  NumFences,   \* fenceCount
  Timeouts,    \* the values of timeout, in units of 1 / UnitsPerMs ms
  Forever,     \* UINT64_MAX
  UnitsPerMs,  \* 10^6 in the code
  Modulus      \* 2^32 in the code: an int is a residue of this modulus

\* The room that send_fds and recv_fds have for descriptors: with more fences
\* they write beyond it, and the model says nothing of such calls.
MaxFds == 32

ASSUME FencesAssumption == NumFences \in Nat \ {0} /\ NumFences <= MaxFds
ASSUME TimeoutAssumption ==
  /\ UnitsPerMs \in Nat \ {0} /\ Timeouts \subseteq Nat
  /\ Modulus \in Nat \ {0} /\ Modulus % 2 = 0

VARIABLES
  signalled,  \* the fences that are signalled: reset only between calls
  request,    \* the arguments: timeout and waitAll
  host,       \* where the host's handler is, or that its connection is closed
  exit,       \* RING_STATUS_EXIT, set on both rings
  slots,      \* fds of the handler: what each slot holds
  hostFds,    \* descriptors open in the host
  wire,       \* the answer on its way: at most one message
  guest,      \* where the guest thread is
  guestFds,   \* descriptors open in the guest
  wait,       \* the locals of waitForEvents
  clock,      \* time in this poll, and in all polls of this call
  result      \* what the call returned

hostVars == <<host, exit, slots, hostFds>>
guestVars == <<guest, guestFds, wait, clock, result>>
vars == <<signalled, request, hostVars, wire, guestVars>>

Fence == 1..NumFences
Nothing == [kind |-> "nothing"]
Results == {"success", "timeout", "lost"}
\* A slot holds a descriptor, -1, or whatever the stack held.
SlotValues == {"fd", "none", "garbage"}

\* The condition the caller waits for.
Satisfied == IF request.all THEN signalled = Fence ELSE signalled # {}

-----------------------------------------------------------------------------
(* The timeout: nanoseconds to an int of milliseconds, 0 and less for ever *)

AsInt(n) ==
  LET r == n % Modulus IN IF r < Modulus \div 2 THEN r ELSE r - Modulus
RoundUpMillis(t) == AsInt((t + UnitsPerMs - 1) \div UnitsPerMs)  \* mutant
OneLessMillis(t) == AsInt((t \div UnitsPerMs) - 1)  \* mutant
Millis(t) == IF t = Forever THEN 0 ELSE AsInt(t \div UnitsPerMs)
UncheckedLimit(ms) == ms  \* mutant
NoShortLimit(ms) == IF ms <= 1 THEN -1 ELSE ms  \* mutant
Limit(ms) == IF ms <= 0 THEN -1 ELSE ms

-----------------------------------------------------------------------------
(* One round of the loop of waitForEvents                                  *)

\* The positions poll reports with POLLIN.
Ready == {k \in 1..wait.remaining : wait.polled[k] \in signalled}

\* remaining once positions 1..k were looked at: the loop ends at remaining,
\* which it decrements.
Left ==
  LET left[k \in 0..wait.remaining] ==
        IF k = 0 THEN wait.remaining
        ELSE IF k \in Ready /\ k <= left[k - 1] THEN left[k - 1] - 1
        ELSE left[k - 1]
  IN left

\* The descriptors the loop marks as signalled in this round.
Noticed ==
  {wait.polled[k] : k \in {j \in Ready : j <= Left[j - 1]}}

FirstIsEnough == ~request.all \/ NumFences = 1

NotRepacked(seen) == wait.polled  \* mutant

\* The k-th fence of a set, in the order of the array.
Kth(k, set) == CHOOSE f \in set : Cardinality({g \in set : g <= f}) = k

\* pfds for the next round: what is not signalled yet, moved to the front.
Repacked(seen) ==
  LET rest == Fence \ seen
  IN [k \in Fence |-> IF k <= Cardinality(rest) THEN Kth(k, rest) ELSE wait.polled[k]]

StartOfWait ==
  [limit |-> Limit(Millis(request.timeout)),
   polled |-> [i \in Fence |-> i], remaining |-> NumFences, seen |-> {}]

-----------------------------------------------------------------------------
Init ==
  /\ signalled \in SUBSET Fence
  /\ request = [timeout |-> 0, all |-> FALSE]
  /\ host = "idle"
  /\ exit = FALSE
  /\ slots = [i \in Fence |-> "garbage"]
  /\ hostFds = {}
  /\ wire = Nothing
  /\ guest = "idle"
  /\ guestFds = {}
  /\ wait = StartOfWait
  /\ clock = [round |-> 0, total |-> 0]
  /\ result = "none"

\* The device finishes the work a fence stands for.
Signal(f) ==
  /\ f \notin signalled
  /\ signalled' = signalled \cup {f}
  /\ UNCHANGED <<request, hostVars, wire, guestVars>>

Call(t, all) ==
  /\ guest = "idle"
  /\ request' = [timeout |-> t, all |-> all]
  /\ guest' = "recv"
  /\ host' = IF host = "ended" THEN "ended" ELSE IF t = 0 THEN "query" ELSE "export"
  /\ UNCHANGED <<signalled, exit, slots, hostFds, wire, guestFds, wait, clock,
                 result>>

-----------------------------------------------------------------------------
(* The host: vt_handle_vkWaitForFences                                     *)

\* timeout 0: the driver answers at once, and the answer goes over the ring.
Query ==
  /\ host = "query"
  /\ \E r \in {IF Satisfied THEN "success" ELSE "timeout", "lost"} :
       wire' = [kind |-> "status", result |-> r]
  /\ host' = "idle"
  /\ UNCHANGED <<signalled, request, exit, slots, hostFds, guestVars>>

NextSlot(k) ==
  /\ slots[k] = "garbage"
  /\ \A j \in 1..(k - 1) : slots[j] # "garbage"

\* The driver may export a signalled fence as -1 (VK_KHR_external_fence_fd).
Export(k) ==
  /\ host = "export"
  /\ NextSlot(k)
  /\ \E v \in {"fd"} \cup (IF k \in signalled THEN {"none"} ELSE {}) :
       /\ slots' = [slots EXCEPT ![k] = v]
       /\ hostFds' = IF v = "fd" THEN hostFds \cup {k} ELSE hostFds
  /\ host' = IF k = NumFences THEN "send" ELSE "export"
  /\ UNCHANGED <<signalled, request, exit, wire, guestVars>>

\* The export fails and the loop is left: the rest of the array is whatever
\* it held.
ExportFails ==
  /\ host = "export"
  /\ host' = "send"
  /\ UNCHANGED <<signalled, request, exit, slots, hostFds, wire, guestVars>>

Exported == \A i \in Fence : slots[i] # "garbage"

\* sendmsg passes the descriptors only when every slot is an open one, which
\* a slot that was never written may happen to be.
SendFds ==
  /\ host = "send"
  /\ \A i \in Fence : slots[i] # "none"
  /\ wire' = [kind |-> "fds", result |-> IF Exported THEN "success" ELSE "lost"]
  /\ host' = "close"
  /\ UNCHANGED <<signalled, request, exit, slots, hostFds, guestVars>>

\* Otherwise it fails, and nobody looks at its result.
SendFails ==
  /\ host = "send"
  /\ \E i \in Fence : slots[i] # "fd"
  /\ host' = "close"
  /\ UNCHANGED <<signalled, request, exit, slots, hostFds, wire, guestVars>>

AllButFirst(fds) == fds \cap {1}  \* mutant
Closed(fds) == {}

\* Every slot that is positive is closed, one that was never written as well:
\* it may happen to be any descriptor of the host, the connection's own too.
CloseFds ==
  /\ host = "close"
  /\ hostFds' = Closed(hostFds)
  /\ host' \in {"idle"} \cup (IF Exported THEN {} ELSE {"ended"})
  /\ UNCHANGED <<signalled, request, exit, slots, wire, guestVars>>

\* destroyVkContext starts with RING_STATUS_EXIT; the handler may be anywhere.
SetExit ==
  /\ ~exit
  /\ exit' = TRUE
  /\ UNCHANGED <<signalled, request, host, slots, hostFds, wire, guestVars>>

\* The connection is closed and the handler is gone with its descriptors: the
\* end of destroyVkContext, or the renderer is killed without it.
HostEnds ==
  /\ host # "ended"
  /\ host' = "ended"
  /\ hostFds' = {}
  /\ UNCHANGED <<signalled, request, exit, slots, wire, guestVars>>

-----------------------------------------------------------------------------
(* The guest: vt_call_vkWaitForFences                                      *)

Return(r) ==
  /\ guest' = "done"
  /\ result' = r
  /\ guestFds' = Closed(guestFds)

ReceiveStatus ==
  /\ guest = "recv"
  /\ wire.kind = "status"
  /\ wire' = Nothing
  /\ guest' = "done"
  /\ result' = wire.result
  /\ UNCHANGED <<signalled, request, hostVars, guestFds, wait, clock>>

\* The descriptors are there: wait for them, unless the host reports a
\* failure, when the call returns and the descriptors stay open.
ReceiveFds ==
  /\ guest = "recv"
  /\ wire.kind = "fds"
  /\ wire' = Nothing
  /\ guestFds' = Fence
  /\ \/ /\ wire.result = "success"
        /\ guest' = "poll"
        /\ wait' = StartOfWait
        /\ UNCHANGED result
     \/ /\ wire.result # "success"
        /\ guest' = "done"
        /\ result' = "lost"
        /\ UNCHANGED wait
  /\ UNCHANGED <<signalled, request, hostVars, clock>>

\* What makes the guest give up its answer: it reads a status from the ring,
\* which only RING_STATUS_EXIT ends, and descriptors from the socket.
Released == IF request.timeout = 0 THEN exit ELSE host = "ended"

\* The read of the ring fails, although an answer may have come since it
\* looked; or recv_fds meets the end of the connection, behind any answer.
ReceiveEnd ==
  /\ guest = "recv"
  /\ Released
  /\ request.timeout # 0 => wire = Nothing
  /\ guest' = "done"
  /\ result' = "lost"
  /\ UNCHANGED <<signalled, request, hostVars, wire, guestFds, wait, clock>>

\* poll returns with descriptors that are ready, and the loop looks at them:
\* all but the call itself is local to the thread, so it is one step.
PollReturns ==
  /\ guest = "poll"
  /\ Ready # {}
  /\ LET seen == wait.seen \cup Noticed
         left == Left[wait.remaining]
         over == FirstIsEnough \/ left = 0
     IN /\ wait' = IF over THEN wait
                   ELSE [wait EXCEPT !.remaining = left, !.seen = seen,
                                     !.polled = Repacked(seen)]
        /\ \/ over /\ Return("success")
           \/ ~over /\ UNCHANGED <<guest, guestFds, result>>
  /\ clock' = [clock EXCEPT !.round = 0]
  /\ UNCHANGED <<signalled, request, hostVars, wire>>

Expires ==
  /\ guest = "poll"
  /\ Ready = {}
  /\ wait.limit = clock.round
  /\ Return("timeout")
  /\ UNCHANGED <<signalled, request, hostVars, wire, wait, clock>>

\* poll fails, interrupted by a signal.
PollFails ==
  /\ guest = "poll"
  /\ Return("lost")
  /\ UNCHANGED <<signalled, request, hostVars, wire, wait, clock>>

\* A millisecond passes in poll.  It is not counted in an endless wait.
Tick ==
  /\ guest = "poll"
  /\ Ready = {}
  /\ clock.round < wait.limit
  /\ clock' = [round |-> clock.round + 1, total |-> clock.total + 1]
  /\ UNCHANGED <<signalled, request, hostVars, wire, guest, guestFds, wait,
                 result>>

-----------------------------------------------------------------------------
HostStep ==
  Query \/ (\E k \in Fence : Export(k)) \/ ExportFails
        \/ SendFds \/ SendFails \/ CloseFds

GuestStep ==
  ReceiveStatus \/ ReceiveFds \/ ReceiveEnd \/ PollReturns \/ Expires

Next ==
  \/ \E f \in Fence : Signal(f)
  \/ \E t \in Timeouts, all \in BOOLEAN : Call(t, all)
  \/ HostStep \/ SetExit \/ HostEnds \/ GuestStep \/ PollFails \/ Tick

Spec == Init /\ [][Next]_vars

\* The threads run and time passes; fences need not be signalled, and
\* nothing has to fail.
FairSpec ==
  Spec /\ WF_vars(HostStep) /\ WF_vars(GuestStep) /\ WF_vars(Tick)

-----------------------------------------------------------------------------
(* Properties                                                              *)

\* The states of a call.
TypeOK ==
  /\ signalled \subseteq Fence
  /\ request \in [timeout : Timeouts \cup {0}, all : BOOLEAN]
  /\ host \in {"idle", "query", "export", "send", "close", "ended"}
  /\ exit \in BOOLEAN /\ slots \in [Fence -> SlotValues]
  /\ hostFds \subseteq Fence
  /\ wire \in {Nothing} \cup [kind : {"status", "fds"}, result : Results]
  /\ guest \in {"idle", "recv", "poll", "done"}
  /\ guestFds \subseteq Fence
  /\ wait.polled \in [Fence -> Fence]
  /\ wait.remaining \in Fence /\ wait.seen \subseteq Fence
  /\ wait.limit \in {-1} \cup 1..(Modulus \div 2)
  /\ clock.round \in 0..Modulus /\ clock.total \in clock.round..(NumFences * Modulus)
  /\ result \in Results \cup {"none"}

\* vkWaitForFences returns VK_SUCCESS only when all the fences, or one of
\* them, is signalled, whatever the rounds of the poll loop found in which
\* order.  The poll loop gives up only while that is not so.
OutcomeIsTrue ==
  [][/\ result' = "success" => Satisfied'
     /\ guest = "poll" /\ result' = "timeout" => ~Satisfied]_vars

\* The timeouts of at least a millisecond that fit an int of milliseconds.
\* Of the others the code makes an endless wait or a shorter one.
Limited ==
  request.timeout \div UnitsPerMs \in 1..(Modulus \div 2 - 1)

\* A wait with such a timeout takes no longer than the timeout asked for, for
\* each fence once, because every round starts the timeout again (events.h:53).
\* It may report VK_TIMEOUT before the time asked for, because the fraction of
\* a millisecond is cut off (vulkan_calls.c:607), but early by less than one
\* millisecond.  Of any timeout the limit that poll gets is one of TypeOK's,
\* positive or endless.
TimeHonoured ==
  /\ TypeOK
  /\ Limited =>
       /\ clock.total * UnitsPerMs <= NumFences * request.timeout
       /\ guest = "done" /\ result = "timeout" =>
            (clock.total + 1) * UnitsPerMs > request.timeout

\* A call that returned left no descriptor open in the guest, unless the
\* host sent descriptors with a failure (vulkan_calls.c:606); a handler that
\* returned left none open in the host.
DescriptorsClosed ==
  /\ host \in {"idle", "ended"} => hostFds = {}
  /\ guest = "done" /\ guestFds # {} => result = "lost" /\ ~Exported

\* A thread that got its answer, or that the end of its ring or connection
\* releases, goes on.  It returns once the fences it waits for are
\* signalled or in any case when it asked for a limited time.
CallReturns ==
  /\ guest = "recv" /\ (wire # Nothing \/ Released) ~> guest # "recv"
  /\ guest = "poll" /\ (Satisfied \/ Limited) ~> guest = "done"
=============================================================================
