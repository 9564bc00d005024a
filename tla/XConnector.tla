----------------------------- MODULE XConnector -----------------------------
(***************************************************************************)
(* XConnectorEpoll with multithreadedClients, as the ALSA server uses it:  *)
(* the epoll thread accepts, a thread of its own polls each client, and    *)
(* destroy(), on another thread, has to end them all before it frees what  *)
(* they use.  A client's thread ends when its peer hangs up, its request   *)
(* or its poll() fails, or when killAllConnections, which the epoll thread *)
(* calls last, kills it.                                                   *)
(*                                                                         *)
(* connectedClients is an ArrayList.  The clients' threads change it under *)
(* its monitor and killAllConnections without, so a removal is modelled by *)
(* its two halves, which find an element and then rebuild the list.        *)
(* pthread_create, eventfd and accept are assumed to succeed.              *)
(***************************************************************************)
EXTENDS Integers, Sequences, FiniteSets

CONSTANTS
  Clients,   \* the ConnectedClient structures: each is accepted once
  NoClient

ASSUME XConnectorAssumption == NoClient \notin Clients /\ IsFiniteSet(Clients)

VARIABLES
  running,     \* XConnectorEpoll.running
  shutdownReq, \* its shutdownFd is readable
  ui,          \* where destroy() is: "idle", "join", "free", "done"
  nativePtr,   \* whether the Java object still has the native one
  epoll,       \* where the epoll thread is: "loop", "wait", "isEmpty",
               \* "take", "store", "kill", "join" or "done"
  snapshot,    \* the list as killAllConnections's remove(0) found it
  victim,      \* the client the epoll thread is killing
  list,        \* connectedClients
  pc,          \* where a client's thread is: "none" before it exists,
               \* "start", "poll", "handle", "tell", "remove", "test",
               \* "leave" or "done"
  index,       \* the place in the list a client's thread found itself at
  ownKill,     \* the thread is in killConnection, called by its own handler
  alive,       \* ConnectedClient.running
  shut,        \* its shutdownFd: "open", "signalled" or "closed"
  open,        \* its fd is open
  tag,         \* whether its tag is set
  told,        \* how often the ConnectionHandler heard of its shutdown
  pollFailed,  \* history: poll() failed on the client's thread
  raced,       \* history: a client's thread changed the list after the epoll
               \* thread had begun to kill
  crashed      \* an exception was thrown on the epoll thread or a client's

uiVars     == <<running, shutdownReq, ui, nativePtr>>
epollVars  == <<epoll, snapshot, victim>>
clientVars == <<pc, index, ownKill, alive, shut, open, tag, told,
                pollFailed>>
vars == <<uiVars, epollVars, list, clientVars, raced, crashed>>

Killing == epoll \notin {"loop", "wait"}

Init ==
  /\ running = TRUE
  /\ shutdownReq = FALSE
  /\ ui = "idle"
  /\ nativePtr = TRUE
  /\ epoll = "loop"
  /\ snapshot = <<>>
  /\ victim = NoClient
  /\ list = <<>>
  /\ pc = [c \in Clients |-> "none"]
  /\ index = [c \in Clients |-> 0]
  /\ ownKill = [c \in Clients |-> FALSE]
  /\ alive = [c \in Clients |-> FALSE]
  /\ shut = [c \in Clients |-> "closed"]
  /\ open = [c \in Clients |-> FALSE]
  /\ tag = [c \in Clients |-> FALSE]
  /\ told = [c \in Clients |-> 0]
  /\ pollFailed = [c \in Clients |-> FALSE]
  /\ raced = FALSE
  /\ crashed = FALSE

-----------------------------------------------------------------------------
(* destroy(): stopEpollThread and destroy. *)

Stop ==
  /\ ui = "idle"
  /\ running' = FALSE
  /\ shutdownReq' = TRUE
  /\ ui' = "join"
  /\ UNCHANGED <<nativePtr, epollVars, list, clientVars, raced, crashed>>

\* mutant: destroy does not join the epoll thread
NotJoined == TRUE

Joined == epoll = "done"

\* The descriptors are closed, the reference to the Java object that every
\* client's thread calls through is deleted and the structure freed.
Free ==
  /\ ui = "join"
  /\ Joined
  /\ ui' = "free"
  /\ UNCHANGED <<running, shutdownReq, nativePtr, epollVars, list, clientVars,
                 raced, crashed>>

Forget ==
  /\ ui = "free"
  /\ ui' = "done"
  /\ nativePtr' = FALSE
  /\ UNCHANGED <<running, shutdownReq, epollVars, list, clientVars, raced,
                 crashed>>

-----------------------------------------------------------------------------
(* The epoll thread. *)

EpollLoop ==
  /\ epoll = "loop"
  /\ epoll' = IF running THEN "wait" ELSE "isEmpty"
  /\ UNCHANGED <<snapshot, victim, uiVars, list, clientVars, raced, crashed>>

\* A connection may come in the same batch of events as the shutdown.
EpollAccept(c) ==
  /\ epoll = "wait"
  /\ pc[c] = "none"
  /\ pc' = [pc EXCEPT ![c] = "start"]
  /\ alive' = [alive EXCEPT ![c] = TRUE]
  /\ shut' = [shut EXCEPT ![c] = "open"]
  /\ open' = [open EXCEPT ![c] = TRUE]
  /\ epoll' = "loop"
  /\ UNCHANGED <<snapshot, victim, uiVars, list, index, ownKill, tag, told,
                 raced, crashed, pollFailed>>

EpollShutdown ==
  /\ epoll = "wait"
  /\ shutdownReq
  /\ epoll' = "loop"
  /\ UNCHANGED <<snapshot, victim, uiVars, list, clientVars, raced, crashed>>

\* A signal interrupts epoll_wait: the thread ends as if it were shut down.
EpollFails ==
  /\ epoll = "wait"
  /\ epoll' = "isEmpty"
  /\ UNCHANGED <<snapshot, victim, uiVars, list, clientVars, raced, crashed>>

KillIsEmpty ==
  /\ epoll = "isEmpty"
  /\ epoll' = IF list = <<>> THEN "done" ELSE "take"
  /\ UNCHANGED <<snapshot, victim, uiVars, list, clientVars, raced, crashed>>

\* remove(0): of a list that was emptied since, an exception
KillTake ==
  /\ epoll = "take"
  /\ IF list = <<>>
     THEN crashed' = TRUE /\ UNCHANGED epollVars
     ELSE /\ snapshot' = list
          /\ victim' = Head(list)
          /\ epoll' = "store"
          /\ UNCHANGED crashed
  /\ UNCHANGED <<uiVars, list, clientVars, raced>>

KillStore ==
  /\ epoll = "store"
  /\ list' = Tail(snapshot)
  /\ snapshot' = <<>>
  /\ epoll' = "kill"
  /\ UNCHANGED <<victim, uiVars, clientVars, raced, crashed>>

\* mutant: the client's thread is not woken
NotWoken(c) == shut[c]

\* requestShutdown: the descriptor may have been closed by then
Woken(c) == IF shut[c] = "open" THEN "signalled" ELSE shut[c]

KillRequest ==
  /\ epoll = "kill"
  /\ alive' = [alive EXCEPT ![victim] = FALSE]
  /\ shut' = [shut EXCEPT ![victim] = Woken(victim)]
  /\ epoll' = "join"
  /\ UNCHANGED <<snapshot, victim, uiVars, list, pc, index, ownKill, open, tag,
                 told, raced, crashed, pollFailed>>

\* pthread_join, then the descriptors; a thread that ended has left no tag
KillEnd ==
  /\ epoll = "join"
  /\ pc[victim] = "done"
  /\ shut' = [shut EXCEPT ![victim] = "closed"]
  /\ open' = [open EXCEPT ![victim] = FALSE]
  /\ told' = [told EXCEPT ![victim] = @ + (IF tag[victim] THEN 1 ELSE 0)]
  /\ tag' = [tag EXCEPT ![victim] = FALSE]
  /\ victim' = NoClient
  /\ epoll' = "isEmpty"
  /\ UNCHANGED <<snapshot, uiVars, list, pc, index, ownKill, alive, raced,
                 crashed, pollFailed>>

-----------------------------------------------------------------------------
(* A client's thread. *)

\* Nobody else is inside synchronized (connectedClients).
MonitorFree == \A c \in Clients : pc[c] # "remove"

\* handleNewConnection: the client enters the list only here, on its own
\* thread, and has its tag when the call returns
ClientStart(c) ==
  /\ pc[c] = "start"
  /\ MonitorFree
  /\ list' = Append(list, c)
  /\ tag' = [tag EXCEPT ![c] = TRUE]
  /\ raced' = (raced \/ Killing)
  /\ pc' = [pc EXCEPT ![c] = "poll"]
  /\ UNCHANGED <<uiVars, epollVars, index, ownKill, alive, shut, open, told,
                 crashed, pollFailed>>

\* The peer sends or hangs up.
ClientReadable(c) ==
  /\ pc[c] = "poll"
  /\ shut[c] # "signalled"
  /\ pc' = [pc EXCEPT ![c] = "handle"]
  /\ UNCHANGED <<uiVars, epollVars, list, index, ownKill, alive, shut, open,
                 tag, told, raced, crashed, pollFailed>>

ClientShutdown(c) ==
  /\ pc[c] = "poll"
  /\ shut[c] = "signalled"
  /\ pc' = [pc EXCEPT ![c] = "leave"]
  /\ UNCHANGED <<uiVars, epollVars, list, index, ownKill, alive, shut, open,
                 tag, told, raced, crashed, pollFailed>>

\* A signal interrupts poll(): the thread leaves without having been killed,
\* and nobody closes its descriptors any more.
ClientPollFails(c) ==
  /\ pc[c] = "poll"
  /\ pollFailed' = [pollFailed EXCEPT ![c] = TRUE]
  /\ pc' = [pc EXCEPT ![c] = "leave"]
  /\ UNCHANGED <<uiVars, epollVars, list, index, ownKill, alive, shut, open,
                 tag, told, raced, crashed>>

ClientHandled(c) ==
  /\ pc[c] = "handle"
  /\ pc' = [pc EXCEPT ![c] = "test"]
  /\ UNCHANGED <<uiVars, epollVars, list, index, ownKill, alive, shut, open,
                 tag, told, raced, crashed, pollFailed>>

\* The end of the stream or an IOException: killConnection from the thread
\* itself, which does nothing once the connector is forgotten
ClientKillsItself(c) ==
  /\ pc[c] = "handle"
  /\ IF nativePtr
     THEN /\ alive' = [alive EXCEPT ![c] = FALSE]
          /\ shut' = [shut EXCEPT ![c] = "closed"]
          /\ open' = [open EXCEPT ![c] = FALSE]
          /\ ownKill' = [ownKill EXCEPT ![c] = TRUE]
          /\ pc' = [pc EXCEPT ![c] = IF tag[c] THEN "tell" ELSE "test"]
     ELSE /\ pc' = [pc EXCEPT ![c] = "test"]
          /\ UNCHANGED <<alive, shut, open, ownKill>>
  /\ UNCHANGED <<uiVars, epollVars, list, index, tag, told, raced, crashed,
                 pollFailed>>

\* handleConnectionShutdown: the handler is told, then the client enters the
\* monitor and looks for itself in the list
ClientTells(c) ==
  /\ pc[c] = "tell"
  /\ MonitorFree
  /\ told' = [told EXCEPT ![c] = @ + 1]
  /\ \/ /\ \A i \in DOMAIN list : list[i] # c
        /\ index' = [index EXCEPT ![c] = 0]
     \/ \E i \in DOMAIN list : list[i] = c /\ index' = [index EXCEPT ![c] = i]
  /\ pc' = [pc EXCEPT ![c] = "remove"]
  /\ UNCHANGED <<uiVars, epollVars, list, ownKill, alive, shut, open, tag,
                 raced, crashed, pollFailed>>

\* ArrayList's removal at an index that was valid when it was found: it never
\* looks at what is there now, and drops the last element if the list is
\* shorter by now
Without(i) == IF i < Len(list)
              THEN SubSeq(list, 1, i - 1) \o SubSeq(list, i + 1, Len(list))
              ELSE SubSeq(list, 1, Len(list) - 1)

\* mutant: the tag stays set after the handler was told
KeepsTag(c) == tag

ClearsTag(c) == [tag EXCEPT ![c] = FALSE]

ClientRemoves(c) ==
  /\ pc[c] = "remove"
  /\ IF index[c] > 0 /\ list = <<>>
     THEN crashed' = TRUE /\ UNCHANGED list
     ELSE /\ list' = IF index[c] = 0 THEN list ELSE Without(index[c])
          /\ UNCHANGED crashed
  /\ raced' = (raced \/ (index[c] > 0 /\ Killing))
  /\ index' = [index EXCEPT ![c] = 0]
  /\ tag' = ClearsTag(c)
  /\ pc' = [pc EXCEPT ![c] = IF ownKill[c] THEN "test" ELSE "done"]
  /\ ownKill' = [ownKill EXCEPT ![c] = FALSE]
  /\ UNCHANGED <<uiVars, epollVars, alive, shut, open, told, pollFailed>>

ClientTests(c) ==
  /\ pc[c] = "test"
  /\ pc' = [pc EXCEPT ![c] = IF alive[c] THEN "poll" ELSE "leave"]
  /\ UNCHANGED <<uiVars, epollVars, list, index, ownKill, alive, shut, open,
                 tag, told, raced, crashed, pollFailed>>

ClientLeaves(c) ==
  /\ pc[c] = "leave"
  /\ pc' = [pc EXCEPT ![c] = IF tag[c] THEN "tell" ELSE "done"]
  /\ UNCHANGED <<uiVars, epollVars, list, index, ownKill, alive, shut, open,
                 tag, told, raced, crashed, pollFailed>>

-----------------------------------------------------------------------------

Destroyer == Stop \/ Free \/ Forget

EpollThread ==
  \/ EpollLoop \/ EpollShutdown \/ EpollFails \/ \E c \in Clients : EpollAccept(c)
  \/ KillIsEmpty \/ KillTake \/ KillStore \/ KillRequest \/ KillEnd

ClientThread(c) ==
  \/ ClientStart(c) \/ ClientReadable(c) \/ ClientShutdown(c)
  \/ ClientPollFails(c) \/ ClientHandled(c) \/ ClientKillsItself(c)
  \/ ClientTells(c) \/ ClientRemoves(c) \/ ClientTests(c) \/ ClientLeaves(c)

\* All threads have ended, or the process has: no step is left.
Over == /\ \/ crashed
           \/ ui = "done" /\ \A c \in Clients : pc[c] \in {"none", "done"}
        /\ UNCHANGED vars

Next == \/ ~crashed /\ (Destroyer \/ EpollThread \/ \E c \in Clients : ClientThread(c))
        \/ Over

Spec == Init /\ [][Next]_vars

\* Threads are scheduled and handlers return; nobody has to connect, send,
\* hang up, interrupt a thread or destroy the connector.
FairSpec ==
  /\ Spec
  /\ WF_vars(~crashed /\ (Free \/ Forget))
  /\ WF_vars(~crashed /\ (EpollLoop \/ EpollShutdown \/ KillIsEmpty \/ KillTake
                          \/ KillStore \/ KillRequest \/ KillEnd))
  /\ \A c \in Clients :
       WF_vars(~crashed /\ (ClientStart(c) \/ ClientShutdown(c)
                            \/ ClientHandled(c) \/ ClientTells(c)
                            \/ ClientRemoves(c) \/ ClientTests(c)
                            \/ ClientLeaves(c)))

-----------------------------------------------------------------------------

\* Every variable has its type; a handler is told of a shutdown once at most,
\* though the client's thread and its killer both test the tag.
TypeOK ==
  /\ running \in BOOLEAN /\ shutdownReq \in BOOLEAN /\ nativePtr \in BOOLEAN
  /\ ui \in {"idle", "join", "free", "done"}
  /\ epoll \in {"loop", "wait", "isEmpty", "take", "store", "kill", "join",
                "done"}
  /\ snapshot \in Seq(Clients) /\ list \in Seq(Clients)
  /\ victim \in Clients \union {NoClient}
  /\ epoll \in {"store", "kill", "join"} <=> victim # NoClient
  /\ pc \in [Clients -> {"none", "start", "poll", "handle", "tell", "remove",
                         "test", "leave", "done"}]
  /\ index \in [Clients -> 0..Cardinality(Clients)]
  /\ ownKill \in [Clients -> BOOLEAN] /\ alive \in [Clients -> BOOLEAN]
  /\ shut \in [Clients -> {"open", "signalled", "closed"}]
  /\ open \in [Clients -> BOOLEAN] /\ tag \in [Clients -> BOOLEAN]
  /\ told \in [Clients -> 0..1] /\ pollFailed \in [Clients -> BOOLEAN]
  /\ raced \in BOOLEAN /\ crashed \in BOOLEAN

\* The client's handler was told, its thread will not call the connector
\* again, and its descriptors are closed, except that a client whose poll()
\* failed may leave them open for good.
Ended(c) ==
  /\ told[c] = 1 /\ ~tag[c]
  /\ pollFailed[c] \/ (~open[c] /\ shut[c] = "closed")
  /\ pc[c] = "done" \/ (~alive[c] /\ pc[c] \in {"test", "leave"})

\* Unless a client's thread enters or leaves the list while the connector is
\* being shut down, no exception is thrown, and destroy() frees the connector
\* only when every client that was served has ended: nobody calls through what
\* is freed, and no descriptor is lost but by a failed poll()
\* (XConnectorEpoll.killAllConnections, XConnectorEpoll_killConnection,
\* pollThread).
ClientsEndFirst ==
  ~raced => /\ ~crashed
            /\ ui \in {"free", "done"} =>
                 \A c \in Clients : pc[c] \in {"none", "start"} \/ Ended(c)

\* A call of destroy() returns, whatever the clients do meanwhile, unless the
\* list is found empty where it was not (XConnectorEpoll_stopEpollThread).
DestroyReturns == ui = "join" ~> (ui = "done" \/ crashed)

=============================================================================
