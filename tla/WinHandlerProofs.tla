-------------------------- MODULE WinHandlerProofs --------------------------
(***************************************************************************)
(* Theorems about WinHandler for any number of queries, of other requests  *)
(* and of datagrams the socket's buffer holds: a query gets its own path,  *)
(* the monitor of actions comes free, and stop is heard.  All three follow *)
(* from one invariant whose heart is that every query is in at most one    *)
(* place between its caller and the answer.                                *)
(***************************************************************************)
EXTENDS WinHandler, TLAPS

Kinds == {"init", "gamepad", "path", "empty", "exec", "emptyExec", "second"}
Paths == Queries \cup {None, Mixed}

\* Every variable that holds data has its type.
TypeOK ==
  /\ actions \in Seq(Queries \cup {Post})
  /\ asked \in Seq(Queries)
  /\ inbox \in Seq([kind : Kinds, of : Paths])
  /\ query \in 0 .. MaxQueries /\ (x # "idle" => query \in Queries)
  /\ answer \in [Queries -> Paths] /\ path \in Paths
  /\ guest \in Queries \cup {None} /\ callbackLock \in Queries \cup {None}
  /\ head \in Kinds \cup {"none"}
  /\ x \in {"idle", "add", "sync", "wait", "woken", "clear"}
  /\ ui \in {"idle", "add", "close", "forget", "notify", "stopped"}
  /\ sender \in {"test", "enter", "run", "wait", "woken", "done"}
  /\ receiver \in {"bind", "test", "call", "receive", "enter", "body", "check", "lock",
                   "answer", "reply", "done"}

\* The monitor is the thread's that is inside of it.
MonitorOwned ==
  /\ sender = "run" <=> monitor = "sender"
  /\ ~crashed =>
       (receiver \in {"body", "check", "lock", "answer", "reply"} <=> monitor = "receiver")

\* stop() forgets running first and the socket later.
Alive == ui \in {"idle", "add"}
SocketLife ==
  /\ ~Alive => ~running
  /\ Alive => socket \in {"none", "open"}
  /\ receiver = "bind" <=> socket = "none"
  /\ ui = "forget" => socket # "none"
  /\ receiver = "bind" => /\ ~initReceived /\ inbox = <<>> /\ head = "none"
                          /\ guest = None /\ other = "idle"

\* The second datagram of an answer, or of another process, is in the inbox
\* after place i, is still to be sent, or was lost.
GuestSecondComes(i) ==
  \/ guest # None \/ lost
  \/ \E j \in DOMAIN inbox : j > i /\ inbox[j].kind = "second" /\ inbox[j].of # Mixed
OtherSecondComes(i) ==
  \/ other = "exec" \/ lost
  \/ \E j \in DOMAIN inbox : j > i /\ inbox[j].kind = "second" /\ inbox[j].of = Mixed
Pairs ==
  socket = "open" =>
    /\ \A i \in DOMAIN inbox : /\ inbox[i].kind = "path" => GuestSecondComes(i)
                               /\ inbox[i].kind = "exec" => OtherSecondComes(i)
    /\ receiver \in {"enter", "body"} => /\ head = "path" => GuestSecondComes(0)
                                         /\ head = "exec" => OtherSecondComes(0)

\* What the variables of a call of getExecutablePath say of each other.
Callback ==
  /\ requestCallback = IF x = "idle" THEN None ELSE query
  /\ \A q \in Queries : q > query => answer[q] = None
  /\ path # None => receiver \in {"check", "lock", "answer"}
  /\ receiver = "body" => head \in {"path", "exec"}

\* Where a query is between its caller and its answer: among the actions, at
\* the guest, in the inbox, or with the receiver.
InActions  == \E i \in DOMAIN actions : actions[i] # Post
InInbox    == \E i \in DOMAIN inbox : inbox[i].kind \in {"path", "empty"}
AtReceiver == \/ receiver \in {"check", "lock", "answer"}
              \/ receiver \in {"enter", "body"} /\ head \in {"path", "empty"}
Underway   == InActions \/ asked # <<>> \/ InInbox \/ AtReceiver

\* There is only one, the latest, its caller waits, and it has no answer yet.
OnePlace ==
  /\ x = "add" => answer[query] = None
  /\ Underway => x \in {"sync", "wait"} /\ answer[query] = None
  /\ InActions => asked = <<>> /\ ~InInbox /\ ~AtReceiver
  /\ asked # <<>> => Len(asked) = 1 /\ ~InInbox /\ ~AtReceiver
  /\ InInbox => ~AtReceiver
  /\ \A i, j \in DOMAIN actions :
       actions[i] # Post /\ actions[j] # Post => i = j /\ actions[i] = query
  /\ \A i, j \in DOMAIN inbox :
       inbox[i].kind \in {"path", "empty"} /\ inbox[j].kind \in {"path", "empty"} => i = j
  /\ \A i \in DOMAIN asked : asked[i] = query
  /\ receiver = "answer" => callbackLock = query

\* What the receiver may read as its path.
OwnSecond(d) == d.kind = "second" => d.of \in {query, Mixed}
OwnPath ==
  /\ path \in {query, None, Mixed}
  /\ \A i \in DOMAIN inbox : inbox[i].kind = "path" =>
       guest \in {query, None} /\ \A j \in DOMAIN inbox : j > i => OwnSecond(inbox[j])
  /\ receiver \in {"enter", "body"} /\ head = "path" =>
       guest \in {query, None} /\ \A j \in DOMAIN inbox : OwnSecond(inbox[j])

\* The inductive invariant.
IInv == /\ TypeOK /\ MonitorOwned /\ SocketLife /\ StopIsHeard /\ Pairs /\ Callback
        /\ Alive /\ ~late => AnswersMatch /\ OnePlace /\ OwnPath
-----------------------------------------------------------------------------
\* Taking the first of a sequence, and adding one to its end.
LEMMA Taken ==
  ASSUME NEW S, NEW s \in Seq(S), s # <<>>
  PROVE  /\ Head(s) \in S /\ Head(s) = s[1] /\ Tail(s) \in Seq(S)
         /\ 1 \in DOMAIN s /\ DOMAIN s \subseteq Nat \ {0}
         /\ \A i \in DOMAIN Tail(s) : i + 1 \in DOMAIN s /\ Tail(s)[i] = s[i + 1]
         /\ \A i \in DOMAIN s : i > 1 => i - 1 \in DOMAIN Tail(s) /\ s[i] = Tail(s)[i - 1]
         /\ Len(Tail(s)) = Len(s) - 1
  OBVIOUS

LEMMA NoneTaken == \A S : <<>> \in Seq(S)
  OBVIOUS

LEMMA Added ==
  ASSUME NEW S, NEW s \in Seq(S), NEW e \in S
  PROVE  /\ Append(s, e) \in Seq(S) /\ Len(Append(s, e)) = Len(s) + 1
         /\ DOMAIN s \subseteq Nat \ {0} /\ Len(s) \in Nat
         /\ DOMAIN Append(s, e) = DOMAIN s \cup {Len(s) + 1}
         /\ \A i \in DOMAIN s : i < Len(s) + 1 /\ Append(s, e)[i] = s[i]
         /\ Append(s, e)[Len(s) + 1] = e
  OBVIOUS

LEMMA InitIInv == Init => IInv
<1> SUFFICES ASSUME Init PROVE IInv
  OBVIOUS
<1> USE DEF Init
<1>1. TypeOK
  BY WinHandlerAssumption DEF TypeOK, Queries, Paths, None
<1>2. MonitorOwned /\ SocketLife /\ StopIsHeard /\ Pairs
  BY DEF MonitorOwned, SocketLife, Alive, StopIsHeard, Pairs
<1>3. Callback /\ AnswersMatch
  BY DEF Callback, AnswersMatch, None
<1>4. ~Underway
  BY DEF Underway, InActions, InInbox, AtReceiver
<1>5. OnePlace /\ OwnPath
  BY <1>4 DEF OnePlace, OwnPath, Underway, InActions, InInbox, AtReceiver, None
<1> QED BY <1>1, <1>2, <1>3, <1>5 DEF IInv
-----------------------------------------------------------------------------
LEMMA Numbers == None \notin Queries /\ Mixed \notin Queries /\ None # Mixed /\ Queries \subseteq Int
  BY WinHandlerAssumption DEF None, Mixed, Queries

LEMMA SentTyped ==
  ASSUME TypeOK, NEW kind \in Kinds, NEW of \in Paths, Sent(kind, of)
  PROVE  inbox' \in Seq([kind : Kinds, of : Paths])
<1>1. [kind |-> kind, of |-> of] \in [kind : Kinds, of : Paths]
  OBVIOUS
<1>2. Append(inbox, [kind |-> kind, of |-> of]) \in Seq([kind : Kinds, of : Paths])
  BY <1>1, Added DEF TypeOK
<1>3. inbox' = inbox \/ inbox' = Append(inbox, [kind |-> kind, of |-> of])
  BY DEF Sent
<1> QED BY <1>2, <1>3 DEF TypeOK

LEMMA TypeKept == TypeOK /\ Callback /\ [Next]_vars => TypeOK'
<1> SUFFICES ASSUME TypeOK, Callback, [Next]_vars PROVE TypeOK'
  OBVIOUS
<1> USE DEF flagVars, queueVars, callbackVars, xVars, uiVars, receiverVars, networkVars,
            historyVars
<1>1. CASE UNCHANGED vars
  BY <1>1 DEF vars, TypeOK
<1>2. CASE Caller
  <2>1. CASE SetCallback
    BY <2>1, WinHandlerAssumption DEF SetCallback, TypeOK, Queries
  <2>2. CASE AddQuery
    <3>1. actions' \in Seq(Queries \cup {Post}) /\ sender' \in {"woken", sender}
      BY <2>2, Added DEF AddQuery, TypeOK, Notified
    <3> QED BY <2>2, <3>1 DEF AddQuery, TypeOK
  <2>3. CASE Wait \/ TimeOut \/ Woken \/ Return
    BY <2>3 DEF Wait, TimeOut, Woken, Return, TypeOK
  <2> QED BY <1>2, <2>1, <2>2, <2>3 DEF Caller
<1>3. CASE UserInterface
  <2>1. CASE AddPost
    <3>1. actions' \in Seq(Queries \cup {Post}) /\ sender' \in {"woken", sender}
      BY <2>1, Added DEF AddPost, TypeOK, Notified
    <3> QED BY <2>1, <3>1 DEF AddPost, TypeOK
  <2>2. CASE WantPost \/ Stop \/ CloseSocket \/ ForgetSocket \/ NotifySender
    <3>1. inbox' \in Seq([kind : Kinds, of : Paths])
      <4>1. inbox' = inbox \/ inbox' = <<>>
        BY <2>2 DEF WantPost, Stop, CloseSocket, ForgetSocket, NotifySender
      <4> QED BY <4>1, NoneTaken DEF TypeOK
    <3> QED BY <2>2, <3>1 DEF WantPost, Stop, CloseSocket, ForgetSocket, NotifySender, Stopped,
               Notified, TypeOK
  <2> QED BY <1>3, <2>1, <2>2 DEF UserInterface
<1>4. CASE Sender
  <2>1. CASE SenderRuns
    <3>1. actions # <<>> /\ actions' = Tail(actions)
      BY <2>1 DEF SenderRuns, HasWork
    <3>2. actions' \in Seq(Queries \cup {Post}) /\ Head(actions) \in Queries \cup {Post}
      BY <3>1, Taken DEF TypeOK
    <3>3. asked' \in Seq(Queries) /\ x' \in {x, "woken"} /\ (x' # x => x = "wait")
      <4>1. \A q \in Queries : Append(asked, q) \in Seq(Queries)
        BY Added DEF TypeOK
      <4> QED BY <2>1, <3>2, <4>1 DEF SenderRuns, SendsQuery, TypeOK
    <3> QED BY <2>1, <3>2, <3>3 DEF SenderRuns, TypeOK
  <2>2. CASE SenderTest \/ SenderEnter \/ SenderWaits \/ SenderWoken
    BY <2>2 DEF SenderTest, SenderEnter, SenderWaits, SenderWoken, TypeOK
  <2> QED BY <1>4, <2>1, <2>2 DEF Sender
<1>5. CASE Receiver
  <2>1. CASE Receive \/ ReceiveBody
    <3>1. inbox # <<>> /\ inbox' = Tail(inbox)
      BY <2>1 DEF Receive, ReceiveBody
    <3>2. /\ inbox' \in Seq([kind : Kinds, of : Paths])
          /\ Head(inbox) \in [kind : Kinds, of : Paths]
      BY <3>1, Taken DEF TypeOK
    <3>3. Mixed \in Paths
      BY DEF Paths
    <3> QED BY <2>1, <3>2, <3>3 DEF Receive, ReceiveBody, TypeOK
  <2>2. CASE HandleRequest
    <3>1. actions' \in Seq(Queries \cup {Post}) /\ sender' \in {"woken", sender}
      BY <2>2, Added DEF HandleRequest, TypeOK, Notified
    <3> QED BY <2>2, <3>1 DEF HandleRequest, TypeOK
  <2>3. CASE CheckCallback \/ LockCallback \/ CallCallback
    <3>1. None \in Paths /\ requestCallback \in Queries \cup {None}
      BY DEF Paths, Callback, TypeOK
    <3> QED BY <2>3, <3>1 DEF CheckCallback, LockCallback, CallCallback, TypeOK
  <2>4. CASE Bind \/ ReceiverTest \/ CallReceive \/ ReceiveFails \/ HandleHead \/ HandleEmpty
             \/ Reply
    BY <2>4 DEF Bind, ReceiverTest, CallReceive, ReceiveFails, HandleHead, HandleEmpty, Reply,
                TypeOK
  <2> QED BY <1>5, <2>1, <2>2, <2>3, <2>4 DEF Receiver
<1>6. CASE Guest
  <2>1. Paths = Queries \cup {None, Mixed}
    BY DEF Paths
  <2>2. CASE GuestAnswers
    <3>1. asked # <<>> /\ asked' = Tail(asked)
      BY <2>2 DEF GuestAnswers
    <3>2. asked' \in Seq(Queries) /\ Head(asked) \in Queries
      BY <3>1, Taken DEF TypeOK
    <3>3. inbox' \in Seq([kind : Kinds, of : Paths]) /\ guest' \in Queries \cup {None}
      BY <2>1, <2>2, <3>2, SentTyped DEF GuestAnswers, Kinds, TypeOK
    <3> QED BY <2>2, <3>2, <3>3 DEF GuestAnswers, TypeOK
  <2>3. CASE GuestInit \/ GuestSecond \/ OtherRequest \/ OtherSecond
    <3>1. inbox' \in Seq([kind : Kinds, of : Paths])
      BY <2>1, <2>3, SentTyped DEF GuestInit, GuestSecond, OtherRequest, OtherSecond, Kinds, TypeOK
    <3> QED BY <2>3, <3>1 DEF GuestInit, GuestSecond, OtherRequest, OtherSecond, TypeOK
  <2> QED BY <1>6, <2>2, <2>3 DEF Guest
<1> QED BY <1>1, <1>2, <1>3, <1>4, <1>5, <1>6 DEF Next

LEMMA MonitorKept ==
  ASSUME TypeOK, MonitorOwned, ~crashed, Next
  PROVE  MonitorOwned'
<1> USE DEF flagVars, queueVars, callbackVars, xVars, uiVars, receiverVars, networkVars,
            historyVars, MonitorOwned, TypeOK
<1>1. CASE Caller
  BY <1>1 DEF Caller, SetCallback, AddQuery, Wait, TimeOut, Woken, Return, Notified, Free
<1>2. CASE UserInterface
  BY <1>2 DEF UserInterface, WantPost, AddPost, Stop, CloseSocket, ForgetSocket, NotifySender,
              Stopped, Notified, Free
<1>3. CASE Sender
  BY <1>3 DEF Sender, SenderTest, SenderEnter, SenderRuns, SenderWaits, SenderWoken, Free
<1>4. CASE Receiver
  BY <1>4 DEF Receiver, Bind, ReceiverTest, CallReceive, Receive, ReceiveFails, HandleRequest,
     HandleHead, HandleEmpty, ReceiveBody, Reply, CheckCallback, LockCallback, CallCallback,
     Notified, Free
<1>5. CASE Guest
  BY <1>5 DEF Guest, GuestInit, GuestAnswers, GuestSecond, OtherRequest, OtherSecond
<1> QED BY <1>1, <1>2, <1>3, <1>4, <1>5 DEF Next

LEMMA SocketKept ==
  ASSUME TypeOK, SocketLife, Next
  PROVE  SocketLife'
<1> USE DEF flagVars, queueVars, callbackVars, xVars, uiVars, receiverVars, networkVars,
            historyVars, SocketLife, Alive, TypeOK
<1>1. CASE Caller
  BY <1>1 DEF Caller, SetCallback, AddQuery, Wait, TimeOut, Woken, Return
<1>2. CASE UserInterface
  BY <1>2 DEF UserInterface, WantPost, AddPost, Stop, CloseSocket, ForgetSocket, NotifySender
<1>3. CASE Sender
  BY <1>3 DEF Sender, SenderTest, SenderEnter, SenderRuns, SenderWaits, SenderWoken
<1>4. CASE Receiver
  BY <1>4 DEF Receiver, Bind, ReceiverTest, CallReceive, Receive, ReceiveFails, HandleRequest,
     HandleHead, HandleEmpty, ReceiveBody, Reply, CheckCallback, LockCallback, CallCallback
<1>5. CASE Guest
  BY <1>5 DEF Guest, GuestInit, GuestAnswers, GuestSecond, OtherRequest, OtherSecond, Sent
<1> QED BY <1>1, <1>2, <1>3, <1>4, <1>5 DEF Next

LEMMA StopKept ==
  ASSUME TypeOK, MonitorOwned, SocketLife, StopIsHeard, Next
  PROVE  StopIsHeard'
<1> USE DEF flagVars, queueVars, callbackVars, xVars, uiVars, receiverVars, networkVars,
            historyVars, SocketLife, Alive, TypeOK, MonitorOwned, StopIsHeard
<1>1. CASE Caller
  BY <1>1 DEF Caller, SetCallback, AddQuery, Wait, TimeOut, Woken, Return, Notified
<1>2. CASE UserInterface
  BY <1>2 DEF UserInterface, WantPost, AddPost, Stop, CloseSocket, ForgetSocket, NotifySender,
              Stopped, Notified, Free
<1>3. CASE Sender
  BY <1>3 DEF Sender, SenderTest, SenderEnter, SenderRuns, SenderWaits, SenderWoken
<1>4. CASE Receiver
  BY <1>4 DEF Receiver, Bind, ReceiverTest, CallReceive, Receive, ReceiveFails, HandleRequest,
     HandleHead, HandleEmpty, ReceiveBody, Reply, CheckCallback, LockCallback, CallCallback,
     Notified
<1>5. CASE Guest
  BY <1>5 DEF Guest, GuestInit, GuestAnswers, GuestSecond, OtherRequest, OtherSecond
<1> QED BY <1>1, <1>2, <1>3, <1>4, <1>5 DEF Next

LEMMA CallbackKept ==
  ASSUME TypeOK, Callback, Next
  PROVE  Callback'
<1> USE Numbers DEF flagVars, queueVars, callbackVars, xVars, uiVars, receiverVars, networkVars,
            historyVars, TypeOK, Callback
<1>1. CASE Caller
  BY <1>1 DEF Caller, SetCallback, AddQuery, Wait, TimeOut, Woken, Return
<1>2. CASE UserInterface
  BY <1>2 DEF UserInterface, WantPost, AddPost, Stop, CloseSocket, ForgetSocket, NotifySender
<1>3. CASE Sender
  BY <1>3 DEF Sender, SenderTest, SenderEnter, SenderRuns, SendsQuery, SenderWaits, SenderWoken
<1>4. CASE Receiver
  BY <1>4 DEF Receiver, Bind, ReceiverTest, CallReceive, Receive, ReceiveFails, HandleRequest,
     HandleHead, HandleEmpty, ReceiveBody, Reply, CheckCallback, LockCallback, CallCallback,
     HasSecond
<1>5. CASE Guest
  BY <1>5 DEF Guest, GuestInit, GuestAnswers, GuestSecond, OtherRequest, OtherSecond
<1> QED BY <1>1, <1>2, <1>3, <1>4, <1>5 DEF Next
-----------------------------------------------------------------------------
\* Steps that leave alone what Pairs is about.
LEMMA PairsUntouched ==
  ASSUME Pairs, UNCHANGED <<socket, inbox, guest, other, lost>>,
         receiver' \in {"enter", "body"} => receiver \in {"enter", "body"} /\ head' = head
  PROVE  Pairs'
  BY DEF Pairs, GuestSecondComes, OtherSecondComes

\* The receiver takes a datagram: what comes after it still comes.
LEMMA PairsTaken ==
  ASSUME TypeOK, Pairs, inbox # <<>>, inbox' = Tail(inbox),
         UNCHANGED <<socket, guest, other, lost>>,
         receiver' \in {"enter", "body"} => head' = Head(inbox).kind
  PROVE  Pairs'
<1> SUFFICES ASSUME socket = "open"
             PROVE  /\ \A i \in DOMAIN inbox' :
                         /\ inbox'[i].kind = "path" => GuestSecondComes(i)'
                         /\ inbox'[i].kind = "exec" => OtherSecondComes(i)'
                    /\ receiver' \in {"enter", "body"} =>
                         /\ head' = "path" => GuestSecondComes(0)'
                         /\ head' = "exec" => OtherSecondComes(0)'
  BY DEF Pairs
<1>1. /\ Head(inbox) = inbox[1] /\ 1 \in DOMAIN inbox /\ DOMAIN inbox \subseteq Nat \ {0}
      /\ \A i \in DOMAIN inbox' : i + 1 \in DOMAIN inbox /\ inbox'[i] = inbox[i + 1]
      /\ \A i \in DOMAIN inbox : i > 1 => i - 1 \in DOMAIN inbox' /\ inbox[i] = inbox'[i - 1]
  BY Taken DEF TypeOK
<1>2. ASSUME NEW i \in Nat, GuestSecondComes(i + 1)
      PROVE  GuestSecondComes(i)'
  <2>1. CASE guest # None \/ lost
    BY <2>1 DEF GuestSecondComes
  <2>2. CASE ~(guest # None \/ lost)
    <3>1. PICK j \in DOMAIN inbox : j > i + 1 /\ inbox[j].kind = "second" /\ inbox[j].of # Mixed
      BY <1>2, <2>2 DEF GuestSecondComes
    <3>2. j - 1 \in DOMAIN inbox' /\ inbox'[j - 1] = inbox[j] /\ j - 1 > i
      BY <1>1, <3>1
    <3> QED BY <3>1, <3>2 DEF GuestSecondComes
  <2> QED BY <2>1, <2>2
<1>3. ASSUME NEW i \in Nat, OtherSecondComes(i + 1)
      PROVE  OtherSecondComes(i)'
  <2>1. CASE other = "exec" \/ lost
    BY <2>1 DEF OtherSecondComes
  <2>2. CASE ~(other = "exec" \/ lost)
    <3>1. PICK j \in DOMAIN inbox : j > i + 1 /\ inbox[j].kind = "second" /\ inbox[j].of = Mixed
      BY <1>3, <2>2 DEF OtherSecondComes
    <3>2. j - 1 \in DOMAIN inbox' /\ inbox'[j - 1] = inbox[j] /\ j - 1 > i
      BY <1>1, <3>1
    <3> QED BY <3>1, <3>2 DEF OtherSecondComes
  <2> QED BY <2>1, <2>2
<1>4. \A i \in DOMAIN inbox' : i \in Nat
  BY <1>1, Taken DEF TypeOK
<1>5. \A i \in DOMAIN inbox' : /\ inbox'[i].kind = "path" => GuestSecondComes(i)'
                               /\ inbox'[i].kind = "exec" => OtherSecondComes(i)'
  BY <1>1, <1>2, <1>3, <1>4 DEF Pairs
<1>6. receiver' \in {"enter", "body"} => /\ head' = "path" => GuestSecondComes(0 + 1)
                                         /\ head' = "exec" => OtherSecondComes(0 + 1)
  BY <1>1 DEF Pairs
<1> QED BY <1>2, <1>3, <1>5, <1>6

\* A datagram is sent: a first one with the second still to come, or a second.
LEMMA PairsSent ==
  ASSUME TypeOK, SocketLife, Pairs, NEW kind \in Kinds, NEW of \in Paths, Sent(kind, of),
         UNCHANGED <<socket, receiver, head>>,
         guest # None /\ guest' = None => kind = "second" /\ of # Mixed,
         other = "exec" /\ other' # "exec" => kind = "second" /\ of = Mixed,
         kind = "path" => guest' # None,
         kind = "exec" => other' = "exec"
  PROVE  Pairs'
<1> DEFINE d == [kind |-> kind, of |-> of]
<1>1. CASE lost'
  BY <1>1 DEF Pairs, GuestSecondComes, OtherSecondComes
<1>2. CASE ~lost'
  <2>1. inbox' = Append(inbox, d) /\ socket = "open" /\ ~lost
    BY <1>2 DEF Sent
  <2>2. /\ DOMAIN inbox' = DOMAIN inbox \cup {Len(inbox) + 1} /\ Len(inbox) \in Nat
        /\ DOMAIN inbox \subseteq Nat \ {0} /\ d \in [kind : Kinds, of : Paths]
        /\ \A i \in DOMAIN inbox : i < Len(inbox) + 1 /\ inbox'[i] = inbox[i]
        /\ inbox'[Len(inbox) + 1] = d
    <3>1. d \in [kind : Kinds, of : Paths]
      OBVIOUS
    <3> HIDE DEF d
    <3> QED BY <2>1, <3>1, Added DEF TypeOK
  <2>3. ASSUME NEW i \in DOMAIN inbox \cup {0}, GuestSecondComes(i)
        PROVE  GuestSecondComes(i)'
    BY <1>2, <2>1, <2>2, <2>3 DEF GuestSecondComes
  <2>4. ASSUME NEW i \in DOMAIN inbox \cup {0}, OtherSecondComes(i)
        PROVE  OtherSecondComes(i)'
    BY <1>2, <2>1, <2>2, <2>4 DEF OtherSecondComes
  <2>5. ASSUME NEW i \in DOMAIN inbox'
        PROVE  /\ inbox'[i].kind = "path" => GuestSecondComes(i)'
               /\ inbox'[i].kind = "exec" => OtherSecondComes(i)'
    <3>1. CASE i \in DOMAIN inbox
      BY <2>1, <2>2, <2>3, <2>4, <3>1 DEF Pairs
    <3>2. CASE i = Len(inbox) + 1
      BY <2>2, <3>2 DEF GuestSecondComes, OtherSecondComes
    <3> QED BY <2>2, <2>5, <3>1, <3>2
  <2>6. receiver' \in {"enter", "body"} => /\ head' = "path" => GuestSecondComes(0)'
                                           /\ head' = "exec" => OtherSecondComes(0)'
    BY <2>1, <2>3, <2>4 DEF Pairs
  <2> QED BY <2>5, <2>6 DEF Pairs
<1> QED BY <1>1, <1>2

LEMMA PairsKept ==
  ASSUME TypeOK, SocketLife, Pairs, Callback, Next
  PROVE  Pairs'
<1> USE Numbers DEF flagVars, queueVars, callbackVars, xVars, uiVars, receiverVars, networkVars,
            historyVars
<1>1. CASE Caller
  BY <1>1, PairsUntouched DEF Caller, SetCallback, AddQuery, Wait, TimeOut, Woken, Return
<1>2. CASE UserInterface
  <2>1. CASE CloseSocket \/ ForgetSocket
    BY <2>1, PairsUntouched DEF CloseSocket, ForgetSocket, Pairs
  <2>2. CASE WantPost \/ AddPost \/ Stop \/ NotifySender
    BY <2>2, PairsUntouched DEF WantPost, AddPost, Stop, NotifySender
  <2> QED BY <1>2, <2>1, <2>2 DEF UserInterface
<1>3. CASE Sender
  BY <1>3, PairsUntouched DEF Sender, SenderTest, SenderEnter, SenderRuns, SenderWaits, SenderWoken
<1>4. CASE Receiver
  <2>1. CASE Bind
    BY <2>1 DEF Bind, SocketLife, Pairs
  <2>2. CASE Receive \/ ReceiveBody
    BY <2>2, PairsTaken DEF Receive, ReceiveBody
  <2>3. CASE ReceiverTest \/ CallReceive \/ ReceiveFails \/ HandleRequest
             \/ HandleHead \/ HandleEmpty \/ Reply \/ CheckCallback \/ LockCallback \/ CallCallback
    BY <2>3, PairsUntouched DEF ReceiverTest, CallReceive, ReceiveFails, HandleRequest,
       HandleHead, HandleEmpty, Reply, CheckCallback, LockCallback, CallCallback
  <2> QED BY <1>4, <2>1, <2>2, <2>3 DEF Receiver
<1>5. CASE Guest
  <2>1. Paths = Queries \cup {None, Mixed} /\ UNCHANGED <<socket, receiver, head>>
    BY <1>5 DEF Paths, Guest, GuestInit, GuestAnswers, GuestSecond, OtherRequest, OtherSecond
  <2>2. CASE GuestInit
    BY <2>1, <2>2, PairsSent DEF GuestInit, Kinds
  <2>3. CASE GuestAnswers
    <3>1. Head(asked) \in Queries
      BY <2>3, Taken DEF GuestAnswers, TypeOK
    <3>2. UNCHANGED other
      BY <2>3 DEF GuestAnswers
    <3>3. CASE Sent("path", Head(asked)) /\ guest' = Head(asked)
      <4>1. guest' # None
        BY <3>1, <3>3
      <4> QED BY <2>1, <3>1, <3>2, <3>3, <4>1, PairsSent DEF Kinds
    <3>4. CASE Sent("empty", Head(asked)) /\ UNCHANGED guest
      BY <2>1, <3>1, <3>2, <3>4, PairsSent DEF Kinds
    <3> QED BY <2>3, <3>3, <3>4 DEF GuestAnswers
  <2>4. CASE GuestSecond
    <3>1. guest \in Queries /\ guest # Mixed /\ UNCHANGED other /\ Sent("second", guest)
      BY <2>4 DEF GuestSecond, TypeOK
    <3> QED BY <2>1, <3>1, PairsSent DEF Kinds
  <2>5. CASE OtherRequest
    BY <2>1, <2>5, PairsSent DEF OtherRequest, Kinds
  <2>6. CASE OtherSecond
    <3>1. UNCHANGED guest /\ Sent("second", Mixed) /\ Mixed \in Paths /\ "second" \in Kinds
      BY <2>1, <2>6 DEF OtherSecond, Kinds
    <3> QED BY <2>1, <3>1, PairsSent
  <2> QED BY <1>5, <2>2, <2>3, <2>4, <2>5, <2>6 DEF Guest
<1> QED BY <1>1, <1>2, <1>3, <1>4, <1>5 DEF Next
-----------------------------------------------------------------------------
\* A query in time: the application has not begun to stop, and no query gave
\* up before its answer.
InTime == Alive /\ ~late
Good == AnswersMatch /\ OnePlace /\ OwnPath

\* Then the socket is there once the receiver has bound it.
LEMMA SocketOpen ==
  ASSUME SocketLife, Alive, receiver # "bind"
  PROVE  socket = "open" /\ ~NoSocket
  BY DEF SocketLife, NoSocket

\* Steps that move no query: they may change x only when none is under way.
LEMMA GoodUntouched ==
  ASSUME InTime, Good, crashed' = crashed,
         UNCHANGED <<actions, asked, inbox, guest, answer, query, path, callbackLock>>,
         AtReceiver' => AtReceiver,
         receiver' \in {"enter", "body"} /\ head' = "path" =>
           receiver \in {"enter", "body"} /\ head = "path",
         receiver' = "answer" => receiver = "answer",
         x' = x \/ (~Underway /\ x' # "add") \/ (x = "sync" /\ x' = "wait")
  PROVE  Good'
<1>1. AnswersMatch'
  BY DEF InTime, Good, AnswersMatch, Alive
<1>2. (InActions' <=> InActions) /\ (InInbox' <=> InInbox)
  BY DEF InActions, InInbox
<1>3. Underway' => Underway
  BY <1>2 DEF Underway
<1>4. OnePlace'
  BY <1>2, <1>3 DEF Good, OnePlace
<1>5. OwnPath'
  BY DEF Good, OwnPath, OwnSecond
<1> QED BY <1>1, <1>4, <1>5 DEF Good

\* The caller's steps.
LEMMA CallerKeepsGood ==
  ASSUME TypeOK, Callback, InTime, Good, Caller, InTime'
  PROVE  Good'
<1> USE Numbers DEF flagVars, queueVars, callbackVars, xVars, uiVars, receiverVars, networkVars,
            historyVars
<1>1. CASE SetCallback
  <2>1. ~Underway /\ path = None
    BY <1>1 DEF SetCallback, Good, OnePlace, Callback, Underway, AtReceiver
  <2>2. answer[query + 1] = None
    BY <1>1, WinHandlerAssumption DEF SetCallback, Callback, TypeOK, Queries
  <2>3. ~Underway'
    BY <1>1, <2>1 DEF SetCallback, Underway, InActions, InInbox, AtReceiver
  <2>4. OnePlace'
    BY <1>1, <2>2, <2>3 DEF SetCallback, OnePlace, Underway, InActions, InInbox, AtReceiver
  <2>5. OwnPath'
    BY <1>1, <2>1, <2>3 DEF SetCallback, OwnPath, Underway, InInbox, AtReceiver
  <2>6. AnswersMatch'
    BY <1>1 DEF SetCallback, AnswersMatch, Good, InTime, Alive
  <2> QED BY <2>4, <2>5, <2>6 DEF Good
<1>2. CASE AddQuery
  <2>1. ~Underway /\ answer[query] = None /\ query \in Queries
    BY <1>2 DEF AddQuery, Good, OnePlace, TypeOK
  <2>2. /\ DOMAIN actions' = DOMAIN actions \cup {Len(actions) + 1}
        /\ \A i \in DOMAIN actions : actions'[i] = actions[i]
        /\ actions'[Len(actions) + 1] = query
    BY <1>2, <2>1, Added DEF AddQuery, TypeOK
  <2>3. \A i \in DOMAIN actions : actions[i] = Post
    BY <2>1 DEF Underway, InActions
  <2>4. OnePlace'
    BY <1>2, <2>1, <2>2, <2>3 DEF AddQuery, OnePlace, Good, Underway, InActions, InInbox, AtReceiver
  <2>5. OwnPath' /\ AnswersMatch'
    BY <1>2 DEF AddQuery, OwnPath, OwnSecond, AnswersMatch, Good, InTime, Alive
  <2> QED BY <2>4, <2>5 DEF Good
<1>3. CASE Wait
  BY <1>3, GoodUntouched DEF Wait, AtReceiver
<1>4. CASE TimeOut
  <2>1. ~Underway
    BY <1>4 DEF TimeOut, InTime, Good, OnePlace
  <2> QED BY <1>4, <2>1, GoodUntouched DEF TimeOut, AtReceiver
<1>5. CASE Woken \/ Return
  <2>1. ~Underway
    BY <1>5 DEF Woken, Return, Good, OnePlace
  <2> QED BY <1>5, <2>1, GoodUntouched DEF Woken, Return, AtReceiver
<1> QED BY <1>1, <1>2, <1>3, <1>4, <1>5 DEF Caller

\* A request that is no query is queued.
LEMMA PostAdded ==
  ASSUME TypeOK, InTime, Good, crashed' = crashed, actions' = Append(actions, Post),
         UNCHANGED <<asked, inbox, guest, answer, query, path, callbackLock, x>>,
         AtReceiver' => AtReceiver,
         receiver' \in {"enter", "body"} /\ head' = "path" =>
           receiver \in {"enter", "body"} /\ head = "path",
         receiver' = "answer" => receiver = "answer"
  PROVE  Good'
<1>1. /\ DOMAIN actions' = DOMAIN actions \cup {Len(actions) + 1}
      /\ \A i \in DOMAIN actions : actions'[i] = actions[i]
      /\ actions'[Len(actions) + 1] = Post
  BY Added DEF TypeOK
<1>2. InActions' <=> InActions
  BY <1>1 DEF InActions
<1>3. InInbox' <=> InInbox
  BY DEF InInbox
<1>4. Underway' => Underway
  BY <1>2, <1>3 DEF Underway
<1>5. OnePlace'
  BY <1>1, <1>2, <1>3, <1>4 DEF OnePlace, Good
<1>6. OwnPath' /\ AnswersMatch'
  BY DEF OwnPath, OwnSecond, AnswersMatch, Good, InTime, Alive
<1> QED BY <1>5, <1>6 DEF Good

LEMMA UserInterfaceKeepsGood ==
  ASSUME TypeOK, Callback, InTime, Good, UserInterface, InTime'
  PROVE  Good'
<1> USE Numbers DEF flagVars, queueVars, callbackVars, xVars, uiVars, receiverVars, networkVars,
            historyVars
<1>1. CASE WantPost
  BY <1>1, GoodUntouched DEF WantPost, AtReceiver
<1>2. CASE AddPost
  BY <1>2, PostAdded DEF AddPost, AtReceiver
<1> QED BY <1>1, <1>2 DEF UserInterface, Stop, CloseSocket, ForgetSocket, NotifySender, InTime, Alive

\* The sender's steps: a query it cannot send is in no place any more.
LEMMA SenderKeepsGood ==
  ASSUME TypeOK, SocketLife, Callback, InTime, Good, Sender, InTime'
  PROVE  Good'
<1> USE Numbers DEF flagVars, queueVars, callbackVars, xVars, uiVars, receiverVars, networkVars,
            historyVars
<1>1. CASE SenderTest \/ SenderEnter \/ SenderWaits \/ SenderWoken
  BY <1>1, GoodUntouched DEF SenderTest, SenderEnter, SenderWaits, SenderWoken, AtReceiver
<1>2. CASE SenderRuns
  <2>1. actions # <<>> /\ actions' = Tail(actions) /\ ~NoSocket
    BY <1>2, SocketOpen DEF SenderRuns, HasWork, SocketLife, InTime
  <2>2. /\ Head(actions) = actions[1] /\ 1 \in DOMAIN actions
        /\ \A i \in DOMAIN actions' : i + 1 \in DOMAIN actions /\ actions'[i] = actions[i + 1]
        /\ \A i \in DOMAIN actions' : i \in Nat \ {0}
    BY <2>1, Taken DEF TypeOK
  <2>3. InActions' => InActions
    BY <2>2 DEF InActions
  <2>4. (InInbox' <=> InInbox) /\ (AtReceiver' <=> AtReceiver)
    BY <1>2 DEF SenderRuns, InInbox, AtReceiver
  <2>5. \A i, j \in DOMAIN actions' : actions'[i] # Post /\ actions'[j] # Post
                                        => i = j /\ actions'[i] = query
    BY <1>2, <2>2 DEF SenderRuns, Good, OnePlace
  <2>6. OwnPath'
    BY <1>2 DEF SenderRuns, OwnPath, OwnSecond, Good
  <2>7. CASE Head(actions) = Post
    <3>1. UNCHANGED <<x, asked, crashed>>
      BY <1>2, <2>1, <2>7 DEF SenderRuns
    <3>2. Underway' => Underway
      BY <2>3, <2>4, <3>1 DEF Underway
    <3>3. OnePlace'
      BY <1>2, <2>3, <2>4, <2>5, <3>1, <3>2 DEF SenderRuns, OnePlace, Good
    <3>4. AnswersMatch'
      BY <1>2, <3>1 DEF SenderRuns, AnswersMatch, Good, InTime, Alive
    <3> QED BY <2>6, <3>3, <3>4 DEF Good
  <2>8. CASE Head(actions) # Post
    <3>1. InActions /\ Head(actions) = query
      BY <2>2, <2>8 DEF InActions, Good, OnePlace
    <3>2. ~InActions'
      BY <2>2, <2>8 DEF InActions, Good, OnePlace
    <3>3. Underway /\ asked = <<>> /\ ~InInbox /\ ~AtReceiver
          /\ x \in {"sync", "wait"} /\ answer[query] = None /\ query \in Queries
      BY <3>1 DEF Underway, Good, OnePlace, TypeOK
    <3>4. PICK sent \in SendResults : SendsQuery(query, sent)
      BY <1>2, <2>1, <2>8, <3>1 DEF SenderRuns
    <3>5. requestCallback # None
      BY <3>3 DEF Callback
    <3>6. crashed' = crashed
      BY <3>4, <3>5 DEF SendsQuery
    <3>7. \/ ~sent /\ asked' = <<>> /\ x' \in {"sync", "woken"}
          \/ sent /\ asked' \in {<<>>, <<query>>} /\ x' = x
      BY <3>3, <3>4, <3>5 DEF SendsQuery, TellsCaller
    <3>8. asked' = <<>> => ~Underway'
      BY <2>4, <3>2, <3>3 DEF Underway
    <3>9. OnePlace'
      BY <1>2, <2>4, <2>5, <3>2, <3>3, <3>7, <3>8 DEF SenderRuns, OnePlace, Good
    <3>10. AnswersMatch'
      BY <1>2, <3>6 DEF SenderRuns, AnswersMatch, Good, InTime, Alive
    <3> QED BY <2>6, <3>9, <3>10 DEF Good
  <2> QED BY <2>7, <2>8
<1> QED BY <1>1, <1>2 DEF Sender
\* The receiver takes the first datagram: a query that was in it is now with
\* the receiver, or is nowhere.
LEMMA ReceiveKeepsGood ==
  ASSUME TypeOK, Callback, InTime, Good, Receive \/ ReceiveBody, InTime'
  PROVE  Good'
<1> USE Numbers DEF flagVars, queueVars, callbackVars, xVars, uiVars, receiverVars, networkVars,
            historyVars
<1> DEFINE d == inbox[1]
<1>1. inbox # <<>> /\ inbox' = Tail(inbox)
  BY DEF Receive, ReceiveBody
<1>2. /\ d = Head(inbox) /\ 1 \in DOMAIN inbox
      /\ \A i \in DOMAIN inbox' : i + 1 \in DOMAIN inbox /\ inbox'[i] = inbox[i + 1]
      /\ \A i \in DOMAIN inbox' : i \in Nat \ {0}
  BY <1>1, Taken DEF TypeOK
<1>3. UNCHANGED <<actions, asked, guest, answer, query, callbackLock, requestCallback, x, crashed,
                  late, ui>>
  BY DEF Receive, ReceiveBody
<1>4. /\ InActions' <=> InActions
      /\ InInbox' => InInbox
      /\ d.kind \in {"path", "empty"} => InInbox /\ ~InInbox'
  <2>1. InActions' <=> InActions
    BY <1>3 DEF InActions
  <2>2. InInbox' => InInbox
    BY <1>2 DEF InInbox
  <2>3. d.kind \in {"path", "empty"} => InInbox
    BY <1>2 DEF InInbox
  <2>4. d.kind \in {"path", "empty"} => ~InInbox'
    BY <1>2 DEF InInbox, Good, OnePlace
  <2> QED BY <2>1, <2>2, <2>3, <2>4
<1>5. \A i, j \in DOMAIN inbox' :
        inbox'[i].kind \in {"path", "empty"} /\ inbox'[j].kind \in {"path", "empty"} => i = j
  BY <1>2 DEF Good, OnePlace
<1>6. AnswersMatch'
  BY <1>3 DEF AnswersMatch, Good, InTime, Alive
<1>7. AtReceiver' => AtReceiver \/ d.kind \in {"path", "empty"}
  <2>1. CASE Receive
    BY <1>2, <2>1 DEF Receive, AtReceiver
  <2>2. CASE ReceiveBody
    BY <2>2 DEF ReceiveBody, AtReceiver, Callback
  <2> QED BY <2>1, <2>2
<1>8. AtReceiver /\ Receive => FALSE
  BY DEF AtReceiver, Receive
<1>9. AtReceiver' => ~InInbox'
  <2>1. CASE AtReceiver
    BY <1>4, <2>1 DEF Good, OnePlace
  <2>2. CASE ~AtReceiver
    BY <1>4, <1>7, <2>2
  <2> QED BY <2>1, <2>2
<1>10. Underway' => Underway
  BY <1>3, <1>4, <1>7 DEF Underway
<1>11. receiver' # "answer"
  BY DEF Receive, ReceiveBody
<1>12. OnePlace'
  BY <1>3, <1>4, <1>5, <1>7, <1>9, <1>10, <1>11 DEF Good, OnePlace
<1>13. OwnPath'
  <2>1. ASSUME NEW i \in DOMAIN inbox', inbox'[i].kind = "path"
        PROVE  /\ guest \in {query, None}
               /\ \A j \in DOMAIN inbox' : j > i => OwnSecond(inbox'[j])
    <3>1. i + 1 \in DOMAIN inbox /\ inbox[i + 1].kind = "path"
      BY <1>2, <2>1
    <3>2. guest \in {query, None} /\ \A j \in DOMAIN inbox : j > i + 1 => OwnSecond(inbox[j])
      BY <3>1 DEF Good, OwnPath
    <3>3. \A j \in DOMAIN inbox' : j > i => j + 1 > i + 1
      BY <1>2
    <3> QED BY <1>2, <3>2, <3>3
  <2>2. CASE Receive
    <3>1. path' = path /\ head' = d.kind
      BY <1>2, <2>2 DEF Receive
    <3>2. head' = "path" => guest \in {query, None} /\ \A j \in DOMAIN inbox' : OwnSecond(inbox'[j])
      BY <1>2, <3>1 DEF Good, OwnPath
    <3> QED BY <1>3, <2>1, <3>1, <3>2 DEF Good, OwnPath, OwnSecond
  <2>3. CASE ReceiveBody
    <3>1. head' = "none" /\ receiver = "body"
      BY <2>3 DEF ReceiveBody
    <3>2. path' \in {query, None, Mixed}
      <4>1. CASE head = "exec"
        BY <2>3, <4>1 DEF ReceiveBody, Good, OwnPath
      <4>2. CASE head # "exec"
        <5>1. head = "path"
          BY <3>1, <4>2 DEF Callback
        <5>2. OwnSecond(d)
          BY <1>2, <3>1, <5>1 DEF Good, OwnPath
        <5> QED BY <1>2, <2>3, <4>2, <5>2 DEF ReceiveBody, OwnSecond
      <4> QED BY <4>1, <4>2
    <3> QED BY <1>3, <2>1, <3>1, <3>2 DEF OwnPath, OwnSecond
  <2> QED BY <2>2, <2>3
<1> QED BY <1>6, <1>12, <1>13 DEF Good

\* The callback is called with the path of its own query.
LEMMA CallKeepsGood ==
  ASSUME TypeOK, Callback, InTime, Good, CheckCallback \/ LockCallback \/ CallCallback, InTime'
  PROVE  Good'
<1> USE Numbers DEF flagVars, queueVars, callbackVars, xVars, uiVars, receiverVars, networkVars,
            historyVars
<1>1. /\ AtReceiver /\ Underway /\ x \in {"sync", "wait"} /\ answer[query] = None
      /\ requestCallback = query /\ query \in Queries /\ ~InActions /\ asked = <<>> /\ ~InInbox
  <2>1. AtReceiver
    BY DEF CheckCallback, LockCallback, CallCallback, AtReceiver
  <2> QED BY <2>1 DEF Underway, Good, OnePlace, Callback, TypeOK
<1>2. UNCHANGED <<actions, asked, inbox, guest, query, late, ui>>
  BY DEF CheckCallback, LockCallback, CallCallback
<1>3. ~InActions' /\ asked' = <<>> /\ ~InInbox'
  BY <1>1, <1>2 DEF InActions, InInbox
<1>4. CASE CheckCallback \/ LockCallback
  <2>1. /\ UNCHANGED <<answer, path, x, crashed>>
        /\ receiver' \in {"lock", "answer"}
        /\ receiver' = "answer" => callbackLock' = query
    BY <1>1, <1>4 DEF CheckCallback, LockCallback
  <2>2. OnePlace'
    BY <1>1, <1>2, <1>3, <2>1 DEF OnePlace, Good, Underway
  <2>3. OwnPath' /\ AnswersMatch'
    BY <1>2, <2>1 DEF OwnPath, OwnSecond, AnswersMatch, Good, InTime, Alive
  <2> QED BY <2>2, <2>3 DEF Good
<1>5. CASE CallCallback
  <2>1. callbackLock = query
    BY <1>5 DEF CallCallback, Good, OnePlace
  <2>2. /\ answer' = [answer EXCEPT ![query] = path] /\ path' = None /\ receiver' = "test"
        /\ x' \in {"woken", "sync"} /\ crashed' = crashed
    BY <1>1, <1>5, <2>1 DEF CallCallback
  <2>3. ~Underway'
    BY <1>3, <2>2 DEF Underway, AtReceiver
  <2>4. OnePlace'
    BY <1>2, <1>3, <2>2, <2>3 DEF OnePlace, Good, Underway
  <2>5. OwnPath'
    BY <1>2, <2>2 DEF OwnPath, OwnSecond, Good
  <2>6. AnswersMatch'
    <3>1. path \in {query, None, Mixed}
      BY DEF Good, OwnPath
    <3> QED BY <1>1, <1>2, <2>2, <3>1 DEF AnswersMatch, Good, InTime, Alive, TypeOK
  <2> QED BY <2>4, <2>5, <2>6 DEF Good
<1> QED BY <1>4, <1>5

LEMMA ReceiverKeepsGood ==
  ASSUME TypeOK, SocketLife, Callback, InTime, Good, Receiver, InTime'
  PROVE  Good'
<1> USE Numbers DEF flagVars, queueVars, callbackVars, xVars, uiVars, receiverVars, networkVars,
            historyVars
<1>1. CASE Receive \/ ReceiveBody
  BY <1>1, ReceiveKeepsGood
<1>2. CASE CheckCallback \/ LockCallback \/ CallCallback
  BY <1>2, CallKeepsGood
<1>3. CASE Bind \/ ReceiverTest
  BY <1>3, GoodUntouched DEF Bind, ReceiverTest, AtReceiver
<1>4. CASE CallReceive \/ HandleHead \/ Reply
  <2>1. ~NoSocket
    BY <1>4, SocketOpen DEF CallReceive, HandleHead, Reply, InTime
  <2> QED BY <1>4, <2>1, GoodUntouched DEF CallReceive, HandleHead, Reply, HasSecond, AtReceiver
<1>5. CASE ReceiveFails
  BY <1>5, SocketOpen DEF ReceiveFails, InTime
<1>6. CASE HandleEmpty
  BY <1>6, GoodUntouched DEF HandleEmpty, AtReceiver
<1>7. CASE HandleRequest
  <2>1. CASE head = "gamepad"
    BY <1>7, <2>1, PostAdded DEF HandleRequest, AtReceiver
  <2>2. CASE head # "gamepad"
    BY <1>7, <2>2, GoodUntouched DEF HandleRequest, AtReceiver
  <2> QED BY <2>1, <2>2
<1> QED BY <1>1, <1>2, <1>3, <1>4, <1>5, <1>6, <1>7 DEF Receiver

\* A datagram that carries no query reaches the inbox or is lost.
LEMMA OtherSent ==
  ASSUME TypeOK, InTime, Good, NEW kind \in Kinds, NEW of \in Paths, Sent(kind, of),
         kind \notin {"path", "empty"}, kind = "second" => of \in {guest, Mixed},
         UNCHANGED <<actions, asked, answer, query, path, callbackLock, x, receiver, head, crashed>>,
         guest' \in {guest, None}, guest = None /\ kind = "second" => of = Mixed
  PROVE  Good'
<1> DEFINE d == [kind |-> kind, of |-> of]
<1>1. CASE inbox' = inbox
  <2>1. AnswersMatch'
    BY DEF InTime, Good, AnswersMatch, Alive
  <2>2. OnePlace'
    BY <1>1 DEF Good, OnePlace, Underway, InActions, InInbox, AtReceiver
  <2>3. OwnPath'
    BY <1>1 DEF Good, OwnPath, OwnSecond
  <2> QED BY <2>1, <2>2, <2>3 DEF Good
<1>2. CASE inbox' = Append(inbox, d)
  <2>1. /\ DOMAIN inbox' = DOMAIN inbox \cup {Len(inbox) + 1} /\ Len(inbox) \in Nat
        /\ \A i \in DOMAIN inbox : i < Len(inbox) + 1 /\ inbox'[i] = inbox[i]
        /\ inbox'[Len(inbox) + 1] = d
    <3>1. d \in [kind : Kinds, of : Paths]
      OBVIOUS
    <3> HIDE DEF d
    <3> QED BY <1>2, <3>1, Added DEF TypeOK
  <2>2. (InActions' <=> InActions) /\ (AtReceiver' <=> AtReceiver)
    BY DEF InActions, AtReceiver
  <2>3. InInbox' <=> InInbox
    BY <2>1 DEF InInbox
  <2>4. Underway' <=> Underway
    BY <2>2, <2>3 DEF Underway
  <2>5. OnePlace'
    BY <2>1, <2>2, <2>3, <2>4 DEF Good, OnePlace
  <2>6. AnswersMatch'
    BY DEF InTime, Good, AnswersMatch, Alive
  <2>7. guest \in {query, None} => OwnSecond(d)
    BY DEF OwnSecond
  <2>8. OwnPath'
    BY <2>1, <2>7 DEF Good, OwnPath, OwnSecond
  <2> QED BY <2>5, <2>6, <2>8 DEF Good
<1> QED BY <1>1, <1>2 DEF Sent

\* The guest takes the query it was asked and sends the first datagram.
LEMMA GuestAnswersKeepsGood ==
  ASSUME TypeOK, InTime, Good, GuestAnswers
  PROVE  Good'
<1> USE Numbers DEF flagVars, queueVars, callbackVars, xVars, uiVars, receiverVars, networkVars,
            historyVars
<1>1. /\ asked # <<>> /\ Head(asked) = query /\ query \in Queries /\ asked' = <<>>
      /\ Underway /\ ~InActions /\ ~InInbox /\ ~AtReceiver /\ guest = None
  <2>1. asked # <<>> /\ asked' = Tail(asked) /\ guest = None
    BY DEF GuestAnswers
  <2>2. Head(asked) = asked[1] /\ 1 \in DOMAIN asked /\ asked' \in Seq(Queries)
        /\ Len(asked') = Len(asked) - 1 /\ Head(asked) \in Queries
    BY <2>1, Taken DEF TypeOK
  <2>3. Len(asked) = 1 /\ Head(asked) = query
    BY <2>1, <2>2 DEF Good, OnePlace
  <2>4. asked' = <<>>
    BY <2>2, <2>3
  <2> QED BY <2>1, <2>2, <2>3, <2>4 DEF Good, OnePlace, Underway
<1>2. UNCHANGED <<actions, answer, query, path, callbackLock, x, receiver, head, crashed>>
  BY DEF GuestAnswers
<1>3. PICK kind \in {"path", "empty"} :
        Sent(kind, query) /\ guest' = IF kind = "path" THEN query ELSE guest
  BY <1>1 DEF GuestAnswers
<1> DEFINE d == [kind |-> kind, of |-> query]
<1>4. ~InActions' /\ ~AtReceiver'
  BY <1>1, <1>2 DEF InActions, AtReceiver
<1>5. AnswersMatch'
  BY <1>2 DEF InTime, Good, AnswersMatch, Alive, GuestAnswers
<1>6. CASE inbox' = inbox
  <2>1. ~InInbox'
    BY <1>1, <1>6 DEF InInbox
  <2>2. ~Underway'
    BY <1>1, <1>4, <2>1 DEF Underway
  <2>3. OnePlace'
    BY <1>1, <1>2, <1>4, <1>6, <2>1, <2>2 DEF Good, OnePlace
  <2>4. OwnPath'
    BY <1>1, <1>2, <1>3, <1>6 DEF Good, OwnPath, InInbox, AtReceiver
  <2> QED BY <1>5, <2>3, <2>4 DEF Good
<1>7. CASE inbox' = Append(inbox, d)
  <2>1. /\ DOMAIN inbox' = DOMAIN inbox \cup {Len(inbox) + 1} /\ Len(inbox) \in Nat
        /\ \A i \in DOMAIN inbox : i < Len(inbox) + 1 /\ inbox'[i] = inbox[i]
        /\ inbox'[Len(inbox) + 1] = d
    <3>1. d \in [kind : Kinds, of : Paths]
      BY <1>1 DEF Kinds, Paths
    <3> HIDE DEF d
    <3> QED BY <1>7, <3>1, Added DEF TypeOK
  <2>2. \A i \in DOMAIN inbox : inbox[i].kind \notin {"path", "empty"}
    BY <1>1 DEF InInbox
  <2>3. OnePlace'
    BY <1>1, <1>2, <1>4, <2>1, <2>2 DEF Good, OnePlace, Underway, InInbox
  <2>4. OwnPath'
    <3>1. \A i \in DOMAIN inbox' : inbox'[i].kind = "path" =>
            i = Len(inbox) + 1 /\ guest' \in {query, None}
      BY <1>1, <1>3, <2>1, <2>2
    <3>2. \A j \in DOMAIN inbox' : ~(j > Len(inbox) + 1)
      BY <2>1
    <3>3. path' \in {query', None, Mixed}
      BY <1>2 DEF Good, OwnPath
    <3> QED BY <1>2, <1>4, <3>1, <3>2, <3>3 DEF OwnPath, AtReceiver
  <2> QED BY <1>5, <2>3, <2>4 DEF Good
<1> QED BY <1>3, <1>6, <1>7 DEF Sent

LEMMA GuestKeepsGood ==
  ASSUME TypeOK, InTime, Good, Guest
  PROVE  Good'
<1> USE Numbers DEF flagVars, queueVars, callbackVars, xVars, uiVars, receiverVars, networkVars,
            historyVars
<1>1. None \in Paths /\ Mixed \in Paths /\ Queries \subseteq Paths
      /\ {"init", "gamepad", "exec", "emptyExec", "second"} \subseteq Kinds
  BY DEF Paths, Kinds
<1>2. CASE GuestInit
  BY <1>1, <1>2, OtherSent DEF GuestInit
<1>3. CASE GuestAnswers
  BY <1>3, GuestAnswersKeepsGood
<1>4. CASE GuestSecond
  <2>1. guest \in Paths /\ guest # None
    BY <1>1, <1>4 DEF GuestSecond, TypeOK
  <2> QED BY <1>1, <1>4, <2>1, OtherSent DEF GuestSecond
<1>5. CASE OtherRequest
  BY <1>1, <1>5, OtherSent DEF OtherRequest
<1>6. CASE OtherSecond
  BY <1>1, <1>6, OtherSent DEF OtherSecond
<1> QED BY <1>2, <1>3, <1>4, <1>5, <1>6 DEF Guest
-----------------------------------------------------------------------------
\* What is in time was so before.
LEMMA InTimeEnds == TypeOK /\ Next /\ InTime' => InTime
<1> SUFFICES ASSUME TypeOK, Next, InTime' PROVE InTime
  OBVIOUS
<1> USE DEF flagVars, queueVars, callbackVars, xVars, uiVars, receiverVars, networkVars,
            historyVars, InTime, Alive
<1>1. CASE Caller
  <2>1. CASE TimeOut
    <3>1. late' <=> (late \/ answer[query] = None)
      BY <2>1, Zenon DEF TimeOut
    <3> QED BY <2>1, <3>1 DEF TimeOut
  <2>2. CASE SetCallback \/ AddQuery \/ Wait \/ Woken \/ Return
    BY <2>2 DEF SetCallback, AddQuery, Wait, Woken, Return
  <2> QED BY <1>1, <2>1, <2>2 DEF Caller
<1>2. CASE UserInterface
  BY <1>2 DEF UserInterface, WantPost, AddPost, Stop, CloseSocket, ForgetSocket, NotifySender
<1>3. CASE Sender
  BY <1>3 DEF Sender, SenderTest, SenderEnter, SenderRuns, SenderWaits, SenderWoken
<1>4. CASE Receiver
  BY <1>4 DEF Receiver, Bind, ReceiverTest, CallReceive, Receive, ReceiveFails, HandleRequest,
     HandleHead, HandleEmpty, ReceiveBody, Reply, CheckCallback, LockCallback, CallCallback
<1>5. CASE Guest
  BY <1>5 DEF Guest, GuestInit, GuestAnswers, GuestSecond, OtherRequest, OtherSecond
<1> QED BY <1>1, <1>2, <1>3, <1>4, <1>5 DEF Next

LEMMA StepKeepsIInv == IInv /\ [Next]_vars => IInv'
<1>1. CASE UNCHANGED vars
  <2> SUFFICES ASSUME IInv PROVE IInv'
    OBVIOUS
  <2> USE <1>1 DEF vars, flagVars, queueVars, callbackVars, xVars, uiVars, receiverVars,
                   networkVars, historyVars
  <2>1. TypeOK' /\ Callback'
    BY DEF IInv, TypeOK, Callback
  <2>2. MonitorOwned' /\ SocketLife' /\ StopIsHeard'
    BY DEF IInv, MonitorOwned, SocketLife, Alive, StopIsHeard
  <2>3. Pairs'
    BY PairsUntouched DEF IInv
  <2>4. (Alive /\ ~late)' => (AnswersMatch /\ OnePlace /\ OwnPath)'
    BY GoodUntouched DEF IInv, InTime, Good, Alive, AtReceiver
  <2> QED BY <2>1, <2>2, <2>3, <2>4 DEF IInv
<1>2. CASE Next
  <2> SUFFICES ASSUME IInv PROVE IInv'
    OBVIOUS
  <2>1. ~crashed /\ TypeOK' /\ Callback'
    BY <1>2, TypeKept, CallbackKept DEF IInv, Next
  <2>2. MonitorOwned' /\ SocketLife' /\ StopIsHeard' /\ Pairs'
    BY <1>2, <2>1, MonitorKept, SocketKept, StopKept, PairsKept DEF IInv
  <2>3. ASSUME InTime' PROVE Good'
    <3>1. InTime
      BY <1>2, <2>3, InTimeEnds DEF IInv
    <3>2. Good
      BY <3>1 DEF IInv, InTime, Good
    <3> QED BY <1>2, <2>3, <3>1, <3>2, CallerKeepsGood, UserInterfaceKeepsGood, SenderKeepsGood,
               ReceiverKeepsGood, GuestKeepsGood DEF IInv, Next
  <2> QED BY <2>1, <2>2, <2>3 DEF IInv, InTime, Good
<1> QED BY <1>1, <1>2

\* The parts of IInv hold in every reachable state.
THEOREM InductiveInvariant == Spec => []IInv
<1>1. Init => IInv
  BY InitIInv
<1>2. IInv /\ [Next]_vars => IInv'
  BY StepKeepsIInv
<1> QED BY <1>1, <1>2, PTL DEF Spec

\* Until the application stops or a query gives up, a query gets its own path
\* and no thread meets a callback or a socket that is not there
\* (WinHandler.getExecutablePath, handleRequest).
THEOREM OwnAnswers == Spec => []AnswersMatch
<1>1. IInv => AnswersMatch
  BY DEF IInv, AnswersMatch, Alive
<1> QED BY <1>1, InductiveInvariant, PTL

\* When the receiver waits in the monitor of actions for the second of two
\* datagrams, that datagram is to come unless it was lost.
THEOREM MonitorFreed == Spec => []MonitorComesFree
<1>1. IInv => MonitorComesFree
  BY DEF IInv, MonitorComesFree, Pairs, Callback, GuestSecondComes, OtherSecondComes
<1> QED BY <1>1, InductiveInvariant, PTL

\* Once stop is over the sender does not wait for actions again, unless it had
\* tested running and not yet begun to wait when it was notified.
THEOREM StopHeard == Spec => []StopIsHeard
<1>1. IInv => StopIsHeard
  BY DEF IInv
<1> QED BY <1>1, InductiveInvariant, PTL
=============================================================================
