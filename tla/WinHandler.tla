----------------------------- MODULE WinHandler -----------------------------
(***************************************************************************)
(* WinHandler: the application's end of its conversation with the Windows  *)
(* side, over datagrams.  Requests are queued in actions and sent by a     *)
(* thread of their own once the guest has said INIT; another thread        *)
(* receives.  Both work under the monitor of actions.  The X server's      *)
(* thread may ask for the path of a process and wait for it; the user      *)
(* interface's thread queues requests and, in the end, stops everything.   *)
(*                                                                         *)
(* A path and the program of a PRE_EXEC come as two datagrams, and the     *)
(* receiver takes the next one, whoever sent it, for the second: Mixed is  *)
(* the path it then reads.  Taken for a request, a second datagram is      *)
(* ignored: it starts with a letter.  Neither comes if there is no path or *)
(* no program ("empty", "emptyExec").  An exception nobody catches ends    *)
(* the application (crashed).  OPEN_URL does as PRE_EXEC does but answers  *)
(* nothing; the other requests leave the state of this module alone.       *)
(***************************************************************************)
EXTENDS Integers, Sequences

CONSTANTS
  MaxQueries,   \* bound on the calls of getExecutablePath
  MaxPosts,     \* bound on the requests of the user interface
  MaxOthers,    \* bound on the requests of other guest processes
  InboxSize     \* datagrams the socket's buffer holds

ASSUME WinHandlerAssumption ==
  /\ MaxQueries \in Nat /\ MaxPosts \in Nat /\ MaxOthers \in Nat
  /\ InboxSize \in Nat \ {0}

Queries == 1..MaxQueries   \* each is about a process of its own
None == 0                  \* no query, and the empty path
Mixed == -1
Post == 0                  \* an action that is not a query

VARIABLES
  running,      \* WinHandler.running
  socket,       \* "none", "open", "closed" or, forgotten, "null"
  initReceived, \* WinHandler.initReceived
  actions,      \* the queued requests: a query's number, or Post
  monitor,      \* who is in the monitor of actions between two steps
  requestCallback, \* the query whose callback is set, or None
  callbackLock, \* the query whose callback's monitor the receiver holds
  ownBuffer,    \* sendPacket still refers to sendData
  x,            \* where the X server's thread is
  query,        \* the latest query
  answer,       \* the path each query got
  ui,           \* where the user interface's thread is
  posts,        \* how many requests it has queued
  sender,       \* where the thread that sends is
  receiver,     \* where the thread that receives is
  head,         \* the kind of the request it is handling
  path,         \* the path it has read
  inbox,        \* the datagrams that have arrived
  asked,        \* the queries the guest has not answered
  guest,        \* the query whose second datagram it sends next, or None
  other,        \* another guest process: "idle" or, before its second, "exec"
  others,       \* how many requests other processes have sent
  lost,         \* history: a datagram was lost
  late,         \* history: a query gave up without its answer
  missed,       \* history: the sender did not hear stop
  crashed

flagVars     == <<running, socket, initReceived, ownBuffer>>
queueVars    == <<actions, monitor>>
callbackVars == <<requestCallback, callbackLock>>
xVars        == <<x, query, answer>>
uiVars       == <<ui, posts>>
receiverVars == <<receiver, head, path>>
networkVars  == <<inbox, asked, guest, other, others, lost>>
historyVars  == <<late, missed, crashed>>
vars == <<flagVars, queueVars, callbackVars, xVars, uiVars, sender,
          receiverVars, networkVars, historyVars>>

Init ==
  /\ running = TRUE /\ socket = "none" /\ initReceived = FALSE
  /\ actions = <<>> /\ monitor = "free"
  /\ requestCallback = None /\ callbackLock = None /\ ownBuffer = TRUE
  /\ x = "idle" /\ query = 0 /\ answer = [q \in Queries |-> None]
  /\ ui = "idle" /\ posts = 0
  /\ sender = "test"
  /\ receiver = "bind" /\ head = "none" /\ path = None
  /\ inbox = <<>>
  /\ asked = <<>> /\ guest = None /\ other = "idle" /\ others = 0
  /\ lost = FALSE /\ late = FALSE /\ missed = FALSE /\ crashed = FALSE

Free == monitor = "free"

\* notify() on actions, whose only waiter is the sender
Notified == IF sender = "wait" THEN "woken" ELSE sender

-----------------------------------------------------------------------------
(* getExecutablePath, on the X server's thread. *)

SetCallback ==
  /\ x = "idle"
  /\ query < MaxQueries
  /\ query' = query + 1
  /\ requestCallback' = query + 1
  /\ x' = "add"
  /\ UNCHANGED <<flagVars, queueVars, callbackLock, answer, uiVars, sender,
                 receiverVars, networkVars, historyVars>>

AddQuery ==
  /\ x = "add"
  /\ Free
  /\ actions' = Append(actions, query)
  /\ sender' = Notified
  /\ x' = "sync"
  /\ UNCHANGED <<flagVars, monitor, callbackVars, query, answer, uiVars,
                 receiverVars, networkVars, historyVars>>

Wait ==
  /\ x = "sync"
  /\ callbackLock # query
  /\ x' = "wait"
  /\ UNCHANGED <<flagVars, queueVars, callbackVars, query, answer, uiVars,
                 sender, receiverVars, networkVars, historyVars>>

\* wait(2000) ends by itself, after two seconds or before.
TimeOut ==
  /\ x = "wait"
  /\ x' = "woken"
  /\ late' = (late \/ answer[query] = None)
  /\ UNCHANGED <<flagVars, queueVars, callbackVars, query, answer, uiVars,
                 sender, receiverVars, networkVars, missed, crashed>>

\* The callback's monitor is taken again and left.
Woken ==
  /\ x = "woken"
  /\ callbackLock # query
  /\ x' = "clear"
  /\ UNCHANGED <<flagVars, queueVars, callbackVars, query, answer, uiVars,
                 sender, receiverVars, networkVars, historyVars>>

Return ==
  /\ x = "clear"
  /\ requestCallback' = None
  /\ x' = "idle"
  /\ UNCHANGED <<flagVars, queueVars, callbackLock, query, answer, uiVars,
                 sender, receiverVars, networkVars, historyVars>>

-----------------------------------------------------------------------------
(* The user interface's thread: addAction for any other request, and stop. *)

WantPost ==
  /\ ui = "idle"
  /\ posts < MaxPosts
  /\ posts' = posts + 1
  /\ ui' = "add"
  /\ UNCHANGED <<flagVars, queueVars, callbackVars, xVars, sender,
                 receiverVars, networkVars, historyVars>>

AddPost ==
  /\ ui = "add"
  /\ Free
  /\ actions' = Append(actions, Post)
  /\ sender' = Notified
  /\ ui' = "idle"
  /\ UNCHANGED <<flagVars, monitor, callbackVars, xVars, posts,
                 receiverVars, networkVars, historyVars>>

Stop ==
  /\ ui = "idle"
  /\ running' = FALSE
  /\ ui' = "close"
  /\ UNCHANGED <<socket, initReceived, ownBuffer, queueVars, callbackVars,
                 xVars, posts, sender, receiverVars, networkVars,
                 historyVars>>

CloseSocket ==
  /\ ui = "close"
  /\ IF socket = "none"
     THEN ui' = "notify" /\ UNCHANGED <<socket, inbox>>
     ELSE ui' = "forget" /\ socket' = "closed" /\ inbox' = <<>>
  /\ UNCHANGED <<running, initReceived, ownBuffer, queueVars, callbackVars,
                 xVars, posts, sender, receiverVars, asked, guest, other,
                 others, lost, historyVars>>

ForgetSocket ==
  /\ ui = "forget"
  /\ socket' = "null"
  /\ ui' = "notify"
  /\ UNCHANGED <<running, initReceived, ownBuffer, queueVars, callbackVars,
                 xVars, posts, sender, receiverVars, networkVars,
                 historyVars>>

\* mutant: stop() does not notify the sender
NotStopped == sender

Stopped == Notified

NotifySender ==
  /\ ui = "notify"
  /\ Free
  /\ sender' = Stopped
  /\ missed' = (missed \/ sender = "enter")
  /\ ui' = "stopped"
  /\ UNCHANGED <<flagVars, queueVars, callbackVars, xVars, posts,
                 receiverVars, networkVars, late, crashed>>

-----------------------------------------------------------------------------
(* The thread that sends. *)

SenderTest ==
  /\ sender = "test"
  /\ sender' = IF running THEN "enter" ELSE "done"
  /\ UNCHANGED <<flagVars, queueVars, callbackVars, xVars, uiVars,
                 receiverVars, networkVars, historyVars>>

SenderEnter ==
  /\ sender = "enter"
  /\ Free
  /\ monitor' = "sender"
  /\ sender' = "run"
  /\ UNCHANGED <<flagVars, actions, callbackVars, xVars, uiVars,
                 receiverVars, networkVars, historyVars>>

HasWork == initReceived /\ actions # <<>>

NoSocket == socket \in {"none", "null"}

\* Whether sendPacket succeeds.
SendResults == IF socket = "open" THEN BOOLEAN ELSE {FALSE}

\* mutant: the caller is told when the query was sent, not when it was not
TellsSent(sent) == sent

TellsCaller(sent) == ~sent

\* What the request does, if it is a query: it reaches the guest, unless
\* sendPacket refers to what it last answered a PRE_EXEC with, and if it
\* cannot be sent its caller is told.
SendsQuery(q, sent) ==
  /\ asked' = IF sent /\ ownBuffer THEN Append(asked, q) ELSE asked
  /\ IF ~TellsCaller(sent) THEN UNCHANGED <<x, crashed>>
     ELSE IF requestCallback = None THEN crashed' = TRUE /\ UNCHANGED x
     ELSE /\ x' = IF x = "wait" THEN "woken" ELSE x
          /\ UNCHANGED crashed

SenderRuns ==
  /\ sender = "run"
  /\ HasWork
  /\ actions' = Tail(actions)
  /\ IF NoSocket
     THEN crashed' = TRUE /\ UNCHANGED <<x, asked>>
     ELSE \E sent \in SendResults :
            IF Head(actions) = Post THEN UNCHANGED <<x, asked, crashed>>
            ELSE SendsQuery(Head(actions), sent)
  /\ UNCHANGED <<flagVars, monitor, callbackVars, query, answer, uiVars,
                 sender, receiverVars, inbox, guest, other, others, lost,
                 late, missed>>

SenderWaits ==
  /\ sender = "run"
  /\ ~HasWork
  /\ monitor' = "free"
  /\ sender' = "wait"
  /\ UNCHANGED <<flagVars, actions, callbackVars, xVars, uiVars,
                 receiverVars, networkVars, historyVars>>

SenderWoken ==
  /\ sender = "woken"
  /\ Free
  /\ sender' = "test"
  /\ UNCHANGED <<flagVars, queueVars, callbackVars, xVars, uiVars,
                 receiverVars, networkVars, historyVars>>

-----------------------------------------------------------------------------
(* The thread that receives.  Its socket can be opened and bound. *)

Bind ==
  /\ receiver = "bind"
  /\ socket' = "open"
  /\ receiver' = "test"
  /\ UNCHANGED <<running, initReceived, ownBuffer, queueVars, callbackVars,
                 xVars, uiVars, sender, head, path, networkVars, historyVars>>

ReceiverTest ==
  /\ receiver = "test"
  /\ receiver' = IF running THEN "call" ELSE "done"
  /\ UNCHANGED <<flagVars, queueVars, callbackVars, xVars, uiVars, sender,
                 head, path, networkVars, historyVars>>

CallReceive ==
  /\ receiver = "call"
  /\ IF NoSocket THEN crashed' = TRUE /\ UNCHANGED receiver
                 ELSE receiver' = "receive" /\ UNCHANGED crashed
  /\ UNCHANGED <<flagVars, queueVars, callbackVars, xVars, uiVars, sender,
                 head, path, networkVars, late, missed>>

Receive ==
  /\ receiver = "receive"
  /\ socket = "open"
  /\ inbox # <<>>
  /\ head' = Head(inbox).kind
  /\ inbox' = Tail(inbox)
  /\ receiver' = "enter"
  /\ UNCHANGED <<flagVars, queueVars, callbackVars, xVars, uiVars, sender,
                 path, asked, guest, other, others, lost, historyVars>>

\* The socket was closed: an IOException ends the thread.
ReceiveFails ==
  /\ receiver \in {"receive", "body"}
  /\ socket # "open"
  /\ monitor' = IF receiver = "body" THEN "free" ELSE monitor
  /\ receiver' = "done"
  /\ UNCHANGED <<flagVars, actions, callbackVars, xVars, uiVars, sender,
                 head, path, networkVars, historyVars>>

\* The requests handled at once: INIT, GET_GAMEPAD, whose answer is queued,
\* and what is none.
HandleRequest ==
  /\ receiver = "enter"
  /\ Free
  /\ head \in {"init", "gamepad", "second"}
  /\ initReceived' = (initReceived \/ head = "init")
  /\ actions' = IF head = "gamepad" THEN Append(actions, Post) ELSE actions
  /\ sender' = IF head = "second" THEN sender ELSE Notified
  /\ head' = "none"
  /\ receiver' = "test"
  /\ UNCHANGED <<running, socket, ownBuffer, monitor, callbackVars, xVars,
                 uiVars, path, networkVars, historyVars>>

\* mutant: requestLength is not looked at
HasSecondAlways(kind) == kind \in {"path", "empty", "exec", "emptyExec"}

HasSecond(kind) == kind \in {"path", "exec"}

\* GET_EXECUTABLE_PATH or PRE_EXEC: the rest is received inside the monitor.
HandleHead ==
  /\ receiver = "enter"
  /\ Free
  /\ HasSecond(head)
  /\ monitor' = "receiver"
  /\ IF NoSocket THEN crashed' = TRUE /\ UNCHANGED receiver
                 ELSE receiver' = "body" /\ UNCHANGED crashed
  /\ UNCHANGED <<flagVars, actions, callbackVars, xVars, uiVars, sender,
                 head, path, networkVars, late, missed>>

\* An answer without a path, or a PRE_EXEC without a program, which is answered
\* all the same.
HandleEmpty ==
  /\ receiver = "enter"
  /\ Free
  /\ head \in {"empty", "emptyExec"}
  /\ monitor' = "receiver"
  /\ head' = "none"
  /\ receiver' = IF head = "empty" THEN "check" ELSE "reply"
  /\ UNCHANGED <<flagVars, actions, callbackVars, xVars, uiVars, sender,
                 path, networkVars, historyVars>>

ReceiveBody ==
  /\ receiver = "body"
  /\ socket = "open"
  /\ inbox # <<>>
  /\ inbox' = Tail(inbox)
  /\ path' = IF head = "exec" THEN path
             ELSE IF Head(inbox).kind = "second" THEN Head(inbox).of ELSE Mixed
  /\ receiver' = IF head # "exec" THEN "check" ELSE "reply"
  /\ head' = "none"
  /\ UNCHANGED <<flagVars, queueVars, callbackVars, xVars, uiVars, sender,
                 asked, guest, other, others, lost, historyVars>>

\* The answer to PRE_EXEC.  When it fails, sendPacket keeps its data.
Reply ==
  /\ receiver = "reply"
  /\ IF NoSocket
     THEN crashed' = TRUE /\ UNCHANGED <<ownBuffer, monitor, receiver>>
     ELSE /\ ownBuffer' \in SendResults
          /\ monitor' = "free"
          /\ receiver' = "test"
          /\ UNCHANGED crashed
  /\ UNCHANGED <<running, socket, initReceived, actions, callbackVars,
                 xVars, uiVars, sender, head, path, networkVars, late,
                 missed>>

\* requestCallback is read four times: to test it, to lock it, to call it and
\* to notify it.
CheckCallback ==
  /\ receiver = "check"
  /\ IF requestCallback = None
     THEN receiver' = "test" /\ monitor' = "free" /\ path' = None
     ELSE receiver' = "lock" /\ UNCHANGED <<monitor, path>>
  /\ UNCHANGED <<flagVars, actions, callbackVars, xVars, uiVars, sender,
                 head, networkVars, historyVars>>

LockCallback ==
  /\ receiver = "lock"
  /\ IF requestCallback = None
     THEN crashed' = TRUE /\ UNCHANGED <<callbackLock, receiver>>
     ELSE /\ callbackLock' = requestCallback
          /\ receiver' = "answer"
          /\ UNCHANGED crashed
  /\ UNCHANGED <<flagVars, queueVars, requestCallback, xVars, uiVars,
                 sender, head, path, networkVars, late, missed>>

\* notify() fails on a callback that is not the one locked.
CallCallback ==
  /\ receiver = "answer"
  /\ IF requestCallback = None
     THEN UNCHANGED answer
     ELSE answer' = [answer EXCEPT ![requestCallback] = path]
  /\ IF requestCallback # callbackLock
     THEN /\ crashed' = TRUE
          /\ UNCHANGED <<x, callbackLock, monitor, receiver, path>>
     ELSE /\ path' = None
          /\ x' = IF x = "wait" THEN "woken" ELSE x
          /\ callbackLock' = None
          /\ monitor' = "free"
          /\ receiver' = "test"
          /\ UNCHANGED crashed
  /\ UNCHANGED <<flagVars, actions, requestCallback, query, uiVars, sender,
                 head, networkVars, late, missed>>

-----------------------------------------------------------------------------
(* The guest: winhandler.exe, which answers, and another process.  They are *)
(* modelled from what the code above sends and takes.                       *)

\* A datagram is lost when the buffer is full or its sender is killed.  What
\* is sent to a socket that is closed does not matter.
Sent(kind, of) ==
  /\ socket = "open"
  /\ \/ /\ Len(inbox) < InboxSize
        /\ inbox' = Append(inbox, [kind |-> kind, of |-> of])
        /\ UNCHANGED lost
     \/ /\ lost' = TRUE
        /\ UNCHANGED inbox

GuestInit ==
  /\ ~initReceived
  /\ inbox = <<>>
  /\ Sent("init", None)
  /\ UNCHANGED <<flagVars, queueVars, callbackVars, xVars, uiVars, sender,
                 receiverVars, asked, guest, other, others, historyVars>>

GuestAnswers ==
  /\ guest = None
  /\ asked # <<>>
  /\ asked' = Tail(asked)
  /\ \/ Sent("path", Head(asked)) /\ guest' = Head(asked)
     \/ Sent("empty", Head(asked)) /\ UNCHANGED guest
  /\ UNCHANGED <<flagVars, queueVars, callbackVars, xVars, uiVars, sender,
                 receiverVars, other, others, historyVars>>

GuestSecond ==
  /\ guest # None
  /\ Sent("second", guest)
  /\ guest' = None
  /\ UNCHANGED <<flagVars, queueVars, callbackVars, xVars, uiVars, sender,
                 receiverVars, asked, other, others, historyVars>>

OtherRequest ==
  /\ other = "idle"
  /\ others < MaxOthers
  /\ others' = others + 1
  /\ \/ \E kind \in {"gamepad", "emptyExec"} : Sent(kind, None) /\ UNCHANGED other
     \/ Sent("exec", None) /\ other' = "exec"
  /\ UNCHANGED <<flagVars, queueVars, callbackVars, xVars, uiVars, sender,
                 receiverVars, asked, guest, historyVars>>

OtherSecond ==
  /\ other = "exec"
  /\ Sent("second", Mixed)
  /\ other' = "idle"
  /\ UNCHANGED <<flagVars, queueVars, callbackVars, xVars, uiVars, sender,
                 receiverVars, asked, guest, others, historyVars>>

-----------------------------------------------------------------------------

Caller == SetCallback \/ AddQuery \/ Wait \/ TimeOut \/ Woken \/ Return

UserInterface ==
  WantPost \/ AddPost \/ Stop \/ CloseSocket \/ ForgetSocket \/ NotifySender

Sender ==
  \/ SenderTest \/ SenderEnter \/ SenderRuns \/ SenderWaits
  \/ SenderWoken

Receiver ==
  \/ Bind \/ ReceiverTest \/ CallReceive \/ Receive \/ ReceiveFails
  \/ HandleRequest \/ HandleHead \/ HandleEmpty \/ ReceiveBody \/ Reply
  \/ CheckCallback \/ LockCallback \/ CallCallback

Guest == GuestInit \/ GuestAnswers \/ GuestSecond \/ OtherRequest \/ OtherSecond

Next == ~crashed /\ (Caller \/ UserInterface \/ Sender \/ Receiver \/ Guest)

Spec == Init /\ [][Next]_vars

-----------------------------------------------------------------------------

\* Until the application stops, and unless a query gave up before its answer
\* came, no thread meets a callback or a socket that is not there, and a query
\* gets its own path, none, or what another process sent between the two
\* datagrams of the answer, but never the path of an earlier query
\* (WinHandler.getExecutablePath, handleRequest).
AnswersMatch ==
  ui \in {"idle", "add"} /\ ~late =>
    /\ ~crashed
    /\ \A q \in Queries : answer[q] \in {q, None, Mixed}

\* Whoever waits for the monitor of actions gets it in the end: when the
\* receiver waits inside it for the second of two datagrams, one is on its way,
\* whatever it took for the second one before, unless a datagram was lost
\* (WinHandler.handleRequest, addAction).
MonitorComesFree ==
  receiver = "body" /\ socket = "open" /\ inbox = <<>> =>
    guest # None \/ other = "exec" \/ lost

\* Once stop() is over the sender has ended or is about to, and never waits
\* for actions again, unless it had tested running and not yet begun to wait
\* when it was notified (WinHandler.stop, startSendThread).
StopIsHeard ==
  ui = "stopped" /\ ~missed => sender \in {"test", "woken", "done"}

=============================================================================
