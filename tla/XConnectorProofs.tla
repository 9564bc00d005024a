--------------------------- MODULE XConnectorProofs ---------------------------
(***************************************************************************)
(* Theorems about XConnector for any clients.  The list is changed by two  *)
(* threads without a lock: whatever they do to it, no client is in it      *)
(* twice, and unless they did, destroy() ends every client that it served. *)
(***************************************************************************)
EXTENDS XConnector, FiniteSetTheorems, SequenceTheorems, TLAPS

In(c, s)    == \E i \in DOMAIN s : s[i] = c
Distinct(s) == \A i, j \in DOMAIN s : s[i] = s[j] => i = j
Started(c)  == pc[c] \notin {"none", "start"}

\* The tag tells whether the handler has yet to hear of the shutdown.
Heard(c) ==
  /\ pc[c] \in {"none", "start"} => ~tag[c] /\ told[c] = 0
  /\ pc[c] \in {"poll", "handle", "tell"} => tag[c] /\ told[c] = 0
  /\ pc[c] = "remove" => tag[c] /\ told[c] = 1
  /\ pc[c] \in {"test", "leave"} =>
       \/ tag[c] /\ told[c] = 0
       \/ ~tag[c] /\ told[c] = 1 /\ ~alive[c]
  /\ pc[c] = "done" => ~tag[c] /\ told[c] = 1
  /\ pc[c] = "start" => alive[c] /\ open[c] /\ shut[c] = "open"
  /\ ownKill[c] => pc[c] \in {"tell", "remove"} /\ ~alive[c]

\* The lists hold clients that have started, each once.
Lists ==
  /\ Distinct(list) /\ Distinct(snapshot)
  /\ \A c \in Clients : In(c, list) \/ In(c, snapshot) \/ c = victim => Started(c)
  /\ epoll = "store" => snapshot # <<>>

OneRemoves == \A c, d \in Clients : pc[c] = "remove" /\ pc[d] = "remove" => c = d

\* Until the epoll thread kills, an index is right as long as it is needed.
Found ==
  ~Killing => \A c \in Clients :
    pc[c] = "remove" /\ index[c] > 0 => index[c] \in DOMAIN list /\ list[index[c]] = c

\* A client in the list whom the epoll thread does not yet kill serves, or is
\* about to leave the list itself.
Queued(c) ==
  \/ /\ pc[c] \in {"poll", "handle", "test"} /\ ~ownKill[c]
     /\ alive[c] /\ tag[c] /\ open[c] /\ shut[c] = "open"
  \/ /\ pc[c] \in {"tell", "remove"} /\ ownKill[c]
     /\ ~alive[c] /\ tag[c] /\ ~open[c] /\ shut[c] = "closed"
  \/ /\ pc[c] \in {"leave", "tell", "remove"} /\ ~ownKill[c]
     /\ pollFailed[c] /\ tag[c]

\* What holds while nobody changes the list behind the epoll thread's back.
Alone ==
  /\ ~crashed
  /\ epoll = "take" => list # <<>>
  /\ epoll = "done" => list = <<>>
  /\ epoll = "store" => list = snapshot /\ victim = Head(snapshot)
  /\ epoll \in {"kill", "join"} => ~In(victim, list)
  /\ \A c \in Clients : pc[c] = "remove" /\ index[c] = 0 => ~In(c, list)
  /\ \A c \in Clients : Started(c) /\ c # victim =>
       IF In(c, list) THEN Queued(c) ELSE Ended(c)

\* The inductive invariant.
IInv ==
  /\ TypeOK /\ (\A c \in Clients : Heard(c)) /\ Lists
  /\ OneRemoves /\ Found
  /\ ~raced => Alone
  /\ ui \in {"free", "done"} => epoll = "done"
-----------------------------------------------------------------------------
(* The list *)

LEMMA AppendIs ==
  ASSUME NEW s \in Seq(Clients), NEW c \in Clients
  PROVE  /\ Append(s, c) \in Seq(Clients)
         /\ \A x : In(x, Append(s, c)) <=> In(x, s) \/ x = c
         /\ Distinct(s) /\ ~In(c, s) => Distinct(Append(s, c))
<1>1. /\ Append(s, c) \in Seq(Clients) /\ Len(Append(s, c)) = Len(s) + 1
      /\ \A i \in 1 .. Len(s) : Append(s, c)[i] = s[i]
      /\ Append(s, c)[Len(s) + 1] = c /\ Len(s) \in Nat
  OBVIOUS
<1>2. PICK t : t = Append(s, c)
  OBVIOUS
<1>3. /\ t \in Seq(Clients) /\ Len(t) = Len(s) + 1 /\ Len(s) \in Nat
      /\ \A i \in 1 .. Len(s) : t[i] = s[i]
      /\ t[Len(s) + 1] = c
  BY <1>1, <1>2
<1>4. DOMAIN s = 1 .. Len(s) /\ DOMAIN t = 1 .. Len(s) + 1
  BY <1>3
<1>5. \A i \in DOMAIN t : i \in DOMAIN s \/ i = Len(s) + 1
  BY <1>3, <1>4
<1>6. \A i \in DOMAIN s : i \in DOMAIN t
  BY <1>3, <1>4
<1>7. Len(s) + 1 \in DOMAIN t
  BY <1>3, <1>4
<1>8. \A x : In(x, t) <=> In(x, s) \/ x = c
  BY <1>3, <1>4, <1>5, <1>6, <1>7 DEF In
<1>9. Distinct(s) /\ ~In(c, s) => Distinct(t)
  BY <1>3, <1>4, <1>5 DEF In, Distinct
<1> QED BY <1>2, <1>3, <1>8, <1>9

LEMMA TailIs ==
  ASSUME NEW s \in Seq(Clients), s # <<>>
  PROVE  /\ Tail(s) \in Seq(Clients) /\ Head(s) \in Clients /\ In(Head(s), s)
         /\ \A x : In(x, Tail(s)) => In(x, s)
         /\ Distinct(s) => /\ Distinct(Tail(s))
                           /\ \A x : In(x, Tail(s)) <=> In(x, s) /\ x # Head(s)
<1>1. /\ Tail(s) \in Seq(Clients) /\ Len(s) \in Nat \ {0} /\ Len(Tail(s)) = Len(s) - 1
      /\ \A i \in 1 .. Len(s) - 1 : Tail(s)[i] = s[i + 1]
      /\ Head(s) = s[1] /\ s[1] \in Clients
  OBVIOUS
<1>2. PICK t, h : t = Tail(s) /\ h = Head(s)
  OBVIOUS
<1>3. /\ t \in Seq(Clients) /\ Len(s) \in Nat \ {0} /\ Len(t) = Len(s) - 1
      /\ \A i \in 1 .. Len(s) - 1 : t[i] = s[i + 1]
      /\ h = s[1] /\ h \in Clients
  BY <1>1, <1>2
<1>4. DOMAIN s = 1 .. Len(s) /\ DOMAIN t = 1 .. Len(s) - 1 /\ 1 \in DOMAIN s
  BY <1>3
<1>5. \A i \in DOMAIN t : i \in Nat /\ i + 1 \in DOMAIN s /\ t[i] = s[i + 1] /\ i + 1 # 1
  BY <1>3, <1>4
<1>6. \A i \in DOMAIN s : i # 1 => i \in Nat /\ i - 1 \in DOMAIN t /\ t[i - 1] = s[i]
  <2> SUFFICES ASSUME NEW i \in DOMAIN s, i # 1
               PROVE  i \in Nat /\ i - 1 \in DOMAIN t /\ t[i - 1] = s[i]
    OBVIOUS
  <2>1. i \in Nat /\ i - 1 \in 1 .. Len(s) - 1 /\ (i - 1) + 1 = i
    BY <1>3, <1>4
  <2> QED BY <1>3, <1>4, <2>1
<1>7. In(h, s)
  BY <1>3, <1>4 DEF In
<1>8. \A x : In(x, t) => In(x, s)
  BY <1>5 DEF In
<1>9. ASSUME Distinct(s)
      PROVE  Distinct(t) /\ \A x : In(x, t) <=> In(x, s) /\ x # h
  <2>1. Distinct(t)
    <3> SUFFICES ASSUME NEW i \in DOMAIN t, NEW j \in DOMAIN t, t[i] = t[j] PROVE i = j
      BY DEF Distinct
    <3>1. i + 1 = j + 1 /\ i \in Nat /\ j \in Nat
      BY <1>5, <1>9 DEF Distinct
    <3> QED BY <3>1
  <2>2. \A i \in DOMAIN t : t[i] # h
    BY <1>3, <1>4, <1>5, <1>9 DEF Distinct
  <2>3. \A x : In(x, s) /\ x # h => In(x, t)
    BY <1>3, <1>6 DEF In
  <2> QED BY <1>8, <2>1, <2>2, <2>3 DEF In
<1> QED BY <1>2, <1>3, <1>7, <1>8, <1>9

\* The positions left when position k of n is taken out.
Old(k, j) == IF j < k THEN j ELSE j + 1

LEMMA OldIs ==
  ASSUME NEW n \in Nat, NEW k \in 1 .. n
  PROVE  /\ \A j \in 1 .. n - 1 : Old(k, j) \in 1 .. n /\ Old(k, j) # k
         /\ \A j, l \in 1 .. n - 1 : Old(k, j) = Old(k, l) => j = l
         /\ \A m \in 1 .. n : m # k => \E j \in 1 .. n - 1 : Old(k, j) = m
<1>1. \A j \in 1 .. n - 1 : Old(k, j) \in 1 .. n /\ Old(k, j) # k
  BY DEF Old
<1>2. \A j, l \in 1 .. n - 1 : Old(k, j) = Old(k, l) => j = l
  BY DEF Old
<1>3. ASSUME NEW m \in 1 .. n, m # k
      PROVE  \E j \in 1 .. n - 1 : Old(k, j) = m
  <2>1. CASE m < k
    <3>1. m \in 1 .. n - 1 /\ Old(k, m) = m
      BY <2>1 DEF Old
    <3> QED BY <3>1
  <2>2. CASE ~(m < k)
    <3>1. m - 1 \in 1 .. n - 1 /\ Old(k, m - 1) = m
      BY <1>3, <2>2 DEF Old
    <3> QED BY <3>1
  <2> QED BY <2>1, <2>2
<1> QED BY <1>1, <1>2, <1>3

LEMMA WithoutElements ==
  ASSUME list \in Seq(Clients), list # <<>>, NEW i \in Nat \ {0}
  PROVE  LET n == Len(list)
             k == IF i < n THEN i ELSE n
             t == Without(i)
         IN t \in Seq(Clients) /\ Len(t) = n - 1 /\ \A j \in 1 .. n - 1 : t[j] = list[Old(k, j)]
<1> DEFINE n == Len(list)
           t == Without(i)
<1>1. n \in Nat \ {0} /\ DOMAIN list = 1 .. n /\ \A j \in 1 .. n : list[j] \in Clients
  OBVIOUS
<1>2. CASE i < n
  <2> DEFINE a == SubSeq(list, 1, i - 1)
             b == SubSeq(list, i + 1, n)
  <2>1. a \in Seq(Clients) /\ Len(a) = i - 1 /\ \A j \in 1 .. i - 1 : a[j] = list[j]
    BY <1>1, <1>2
  <2>2. b \in Seq(Clients) /\ Len(b) = n - i /\ \A j \in 1 .. n - i : b[j] = list[i + j]
    <3>1. \A j \in i + 1 .. n : list[j] \in Clients
      BY <1>1, <1>2
    <3>2. i + 1 \in Int /\ n \in Int /\ n - (i + 1) + 1 = n - i /\ i + 1 <= n
      BY <1>1, <1>2
    <3> HIDE DEF n
    <3>3. /\ b \in Seq(Clients) /\ Len(b) = n - i
          /\ \A j \in 1 .. n - i : b[j] = list[(i + 1) + j - 1]
      BY <3>1, <3>2, SubSeqProperties
    <3>4. \A j \in 1 .. n - i : (i + 1) + j - 1 = i + j
      BY <1>1
    <3> QED BY <3>3, <3>4
  <2>3. t = a \o b
    BY <1>2 DEF Without
  <2> HIDE DEF n, t, a, b
  <2>4. /\ t \in Seq(Clients) /\ Len(t) = n - 1
        /\ \A j \in 1 .. n - 1 : t[j] = IF j <= i - 1 THEN a[j] ELSE b[j - (i - 1)]
    <3>1. Len(a) + Len(b) = n - 1
      BY <1>1, <1>2, <2>1, <2>2
    <3>2. /\ a \o b \in Seq(Clients) /\ Len(a \o b) = Len(a) + Len(b)
          /\ \A j \in 1 .. Len(a) + Len(b) :
               (a \o b)[j] = IF j <= Len(a) THEN a[j] ELSE b[j - Len(a)]
      BY <2>1, <2>2, ConcatProperties
    <3> QED BY <2>1, <2>3, <3>1, <3>2
  <2>5. ASSUME NEW j \in 1 .. n - 1
        PROVE  t[j] = list[Old(i, j)]
    <3>1. CASE j < i
      <4>1. j \in 1 .. i - 1 /\ j <= i - 1 /\ Old(i, j) = j
        BY <3>1 DEF Old
      <4> QED BY <2>1, <2>4, <4>1
    <3>2. CASE ~(j < i)
      <4>1. j - (i - 1) \in 1 .. n - i /\ i + (j - (i - 1)) = j + 1 /\ ~(j <= i - 1)
            /\ Old(i, j) = j + 1
        BY <1>1, <1>2, <3>2 DEF Old
      <4> QED BY <2>2, <2>4, <4>1
    <3> QED BY <3>1, <3>2
  <2> QED BY <1>2, <2>4, <2>5 DEF n, t
<1>3. CASE ~(i < n)
  <2>1. t = SubSeq(list, 1, n - 1)
    BY <1>3 DEF Without
  <2>2. t \in Seq(Clients) /\ Len(t) = n - 1 /\ \A j \in 1 .. n - 1 : t[j] = list[j]
    BY <1>1, <2>1
  <2>3. \A j \in 1 .. n - 1 : Old(n, j) = j
    BY <1>1 DEF Old
  <2> HIDE DEF n, t
  <2> QED BY <1>3, <2>2, <2>3 DEF n, t
<1> QED BY <1>2, <1>3

\* What the removal at an index leaves; of a valid index, all but what is there.
LEMMA WithoutIs ==
  ASSUME list \in Seq(Clients), list # <<>>, NEW i \in Nat \ {0}
  PROVE  /\ Without(i) \in Seq(Clients)
         /\ \A x : In(x, Without(i)) => In(x, list)
         /\ Distinct(list) => Distinct(Without(i))
         /\ Distinct(list) /\ i \in DOMAIN list =>
              \A x : In(x, Without(i)) <=> In(x, list) /\ x # list[i]
<1> DEFINE n == Len(list)
           k == IF i < n THEN i ELSE n
<1>1. n \in Nat \ {0} /\ DOMAIN list = 1 .. n
  OBVIOUS
<1>2. PICK t : t = Without(i)
  OBVIOUS
<1>3. t \in Seq(Clients) /\ Len(t) = n - 1 /\ \A j \in 1 .. n - 1 : t[j] = list[Old(k, j)]
  BY <1>2, WithoutElements
<1>4. DOMAIN t = 1 .. n - 1
  BY <1>3
<1> HIDE DEF n
<1>5. k \in 1 .. n /\ (i \in 1 .. n => k = i)
  BY <1>1
<1> HIDE DEF k
<1>6. /\ \A j \in 1 .. n - 1 : Old(k, j) \in 1 .. n /\ Old(k, j) # k
      /\ \A j, l \in 1 .. n - 1 : Old(k, j) = Old(k, l) => j = l
      /\ \A m \in 1 .. n : m # k => \E j \in 1 .. n - 1 : Old(k, j) = m
  BY <1>1, <1>5, OldIs
<1>7. \A x : In(x, t) => In(x, list)
  BY <1>1, <1>3, <1>4, <1>6 DEF In
<1>8. Distinct(list) => Distinct(t)
  BY <1>1, <1>3, <1>4, <1>6 DEF Distinct
<1>9. ASSUME Distinct(list)
      PROVE  \A x : In(x, t) <=> In(x, list) /\ x # list[k]
  <2>1. \A x : In(x, t) => x # list[k]
    BY <1>1, <1>3, <1>4, <1>5, <1>6, <1>9 DEF In, Distinct
  <2>2. ASSUME NEW x, In(x, list), x # list[k]
        PROVE  In(x, t)
    <3>1. PICK m \in 1 .. n : list[m] = x
      BY <1>1, <2>2 DEF In
    <3>2. PICK j \in 1 .. n - 1 : Old(k, j) = m
      BY <1>6, <2>2, <3>1
    <3> QED BY <1>3, <1>4, <3>1, <3>2 DEF In
  <2> QED BY <1>7, <2>1, <2>2
<1> QED BY <1>1, <1>2, <1>3, <1>5, <1>7, <1>8, <1>9

\* A list without repetitions is no longer than there are clients.
LEMMA ListFits ==
  ASSUME NEW s \in Seq(Clients), Distinct(s)
  PROVE  \A i \in DOMAIN s : i \in 0 .. Cardinality(Clients)
<1>1. IsFiniteSet(Clients) /\ Cardinality(Clients) \in Nat
  BY XConnectorAssumption, FS_CardinalityType
<1>2. Len(s) \in Nat /\ DOMAIN s = 1 .. Len(s) /\ s \in [1 .. Len(s) -> Clients]
  OBVIOUS
<1>3. IsFiniteSet(1 .. Len(s)) /\ Cardinality(1 .. Len(s)) = Len(s)
  BY <1>2, FS_Interval
<1>4. Len(s) <= Cardinality(Clients)
  <2> SUFFICES ASSUME ~(Len(s) <= Cardinality(Clients)) PROVE FALSE
    OBVIOUS
  <2>1. Cardinality(Clients) < Cardinality(1 .. Len(s))
    BY <1>1, <1>2, <1>3
  <2>2. \E x, y \in 1 .. Len(s) : x # y /\ s[x] = s[y]
    BY <1>1, <1>2, <1>3, <2>1, FS_PigeonHole
  <2> QED BY <1>2, <2>2 DEF Distinct
<1> QED BY <1>1, <1>2, <1>4
-----------------------------------------------------------------------------
(* The steps *)

\* Where a client's thread can be.
Places == {"none", "start", "poll", "handle", "tell", "remove", "test", "leave", "done"}

LEMMA InitIInv == Init => IInv
<1> SUFFICES ASSUME Init PROVE IInv
  OBVIOUS
<1>1. IsFiniteSet(Clients) /\ Cardinality(Clients) \in Nat
  BY XConnectorAssumption, FS_CardinalityType
<1>2. TypeOK
  <2>1. <<>> \in Seq(Clients) /\ 0 \in 0 .. Cardinality(Clients) /\ 0 \in 0 .. 1
    BY <1>1
  <2>2. /\ index \in [Clients -> 0 .. Cardinality(Clients)] /\ told \in [Clients -> 0 .. 1]
        /\ ownKill \in [Clients -> BOOLEAN] /\ alive \in [Clients -> BOOLEAN]
        /\ open \in [Clients -> BOOLEAN] /\ tag \in [Clients -> BOOLEAN]
        /\ pollFailed \in [Clients -> BOOLEAN]
    BY <2>1 DEF Init
  <2>3. /\ pc \in [Clients -> {"none", "start", "poll", "handle", "tell", "remove",
                             "test", "leave", "done"}]
        /\ shut \in [Clients -> {"open", "signalled", "closed"}]
    BY DEF Init
  <2> QED BY <2>1, <2>2, <2>3 DEF Init, TypeOK
<1>3. \A c \in Clients : Heard(c) /\ ~Started(c) /\ ~In(c, list) /\ ~In(c, snapshot)
  BY DEF Init, Heard, Started, In
<1>4. Lists
  BY <1>3, XConnectorAssumption DEF Init, Lists, Distinct
<1>5. OneRemoves /\ Found
  BY DEF Init, OneRemoves, Found
<1>6. Alone
  BY <1>3 DEF Init, Alone
<1> QED BY <1>2, <1>3, <1>4, <1>5, <1>6 DEF Init, IInv

\* A client's thread touches what is its own, and the list.
LEMMA ClientFrame ==
  ASSUME TypeOK, NEW c \in Clients, ClientThread(c)
  PROVE  /\ UNCHANGED <<uiVars, epollVars>>
         /\ \A d \in Clients : d # c =>
              /\ pc'[d] = pc[d] /\ index'[d] = index[d] /\ ownKill'[d] = ownKill[d]
              /\ alive'[d] = alive[d] /\ shut'[d] = shut[d] /\ open'[d] = open[d]
              /\ tag'[d] = tag[d] /\ told'[d] = told[d] /\ pollFailed'[d] = pollFailed[d]
<1> USE DEF uiVars, epollVars
<1>1. CASE ClientStart(c)
  BY <1>1 DEF ClientStart, TypeOK
<1>2. CASE ClientReadable(c) \/ ClientShutdown(c) \/ ClientPollFails(c) \/ ClientHandled(c)
  BY <1>2 DEF ClientReadable, ClientShutdown, ClientPollFails, ClientHandled, TypeOK
<1>3. CASE ClientKillsItself(c)
  BY <1>3 DEF ClientKillsItself, TypeOK
<1>4. CASE ClientTells(c)
  BY <1>4 DEF ClientTells, TypeOK
<1>5. CASE ClientRemoves(c)
  BY <1>5 DEF ClientRemoves, ClearsTag, TypeOK
<1>6. CASE ClientTests(c) \/ ClientLeaves(c)
  BY <1>6 DEF ClientTests, ClientLeaves, TypeOK
<1> QED BY <1>1, <1>2, <1>3, <1>4, <1>5, <1>6 DEF ClientThread

\* What it does to its own.
LEMMA ClientMine ==
  ASSUME TypeOK, NEW c \in Clients, Heard(c), ClientThread(c)
  PROVE  Heard(c)'
<1>1. CASE ClientStart(c)
  BY <1>1 DEF ClientStart, TypeOK, Heard
<1>2. CASE ClientReadable(c) \/ ClientShutdown(c) \/ ClientPollFails(c) \/ ClientHandled(c)
  BY <1>2 DEF ClientReadable, ClientShutdown, ClientPollFails, ClientHandled, TypeOK, Heard
<1>3. CASE ClientKillsItself(c)
  BY <1>3 DEF ClientKillsItself, TypeOK, Heard
<1>4. CASE ClientTells(c)
  BY <1>4 DEF ClientTells, TypeOK, Heard
<1>5. CASE ClientRemoves(c)
  BY <1>5 DEF ClientRemoves, ClearsTag, TypeOK, Heard
<1>6. CASE ClientTests(c) \/ ClientLeaves(c)
  BY <1>6 DEF ClientTests, ClientLeaves, TypeOK, Heard
<1> QED BY <1>1, <1>2, <1>3, <1>4, <1>5, <1>6 DEF ClientThread

LEMMA TypesKept == IInv /\ [Next]_vars => TypeOK'
<1> SUFFICES ASSUME IInv, [Next]_vars PROVE TypeOK'
  OBVIOUS
<1> USE DEF uiVars, epollVars, clientVars
<1>0. TypeOK /\ Cardinality(Clients) \in Nat
  BY XConnectorAssumption, FS_CardinalityType DEF IInv
<1>1. CASE UNCHANGED vars
  BY <1>0, <1>1 DEF vars, TypeOK
<1>2. CASE Destroyer
  BY <1>0, <1>2 DEF Destroyer, Stop, Free, Forget, TypeOK
<1>3. CASE EpollThread
  <2>1. CASE EpollLoop \/ EpollShutdown \/ EpollFails \/ KillIsEmpty
    BY <1>0, <2>1 DEF EpollLoop, EpollShutdown, EpollFails, KillIsEmpty, TypeOK
  <2>2. ASSUME NEW c \in Clients, EpollAccept(c)
        PROVE  TypeOK'
    BY <1>0, <2>2 DEF EpollAccept, TypeOK
  <2>3. CASE KillTake
    <3>1. list # <<>> => Head(list) \in Clients /\ Head(list) # NoClient
      BY <1>0, TailIs, XConnectorAssumption DEF TypeOK
    <3> QED BY <1>0, <2>3, <3>1 DEF KillTake, TypeOK
  <2>4. CASE KillStore
    <3>1. Tail(snapshot) \in Seq(Clients)
      BY <1>0, <2>4, TailIs DEF KillStore, IInv, Lists, TypeOK
    <3> QED BY <1>0, <2>4, <3>1 DEF KillStore, TypeOK
  <2>5. CASE KillRequest
    BY <1>0, <2>5 DEF KillRequest, Woken, TypeOK
  <2>6. CASE KillEnd
    <3>1. victim \in Clients /\ ~tag[victim]
      BY <1>0, <2>6 DEF KillEnd, TypeOK, IInv, Heard
    <3>2. told' = [told EXCEPT ![victim] = told[victim] + 0]
      BY <2>6, <3>1 DEF KillEnd
    <3>3. told[victim] \in 0 .. 1 /\ told[victim] + 0 = told[victim]
      BY <1>0, <3>1 DEF TypeOK
    <3>4. told' \in [Clients -> 0 .. 1]
      BY <1>0, <3>2, <3>3 DEF TypeOK
    <3> QED BY <1>0, <2>6, <3>4 DEF KillEnd, TypeOK
  <2> QED BY <1>3, <2>1, <2>2, <2>3, <2>4, <2>5, <2>6 DEF EpollThread
<1>4. ASSUME NEW c \in Clients, ClientThread(c)
      PROVE  TypeOK'
  <2>1. CASE ClientStart(c)
    <3>1. Append(list, c) \in Seq(Clients)
      BY <1>0, AppendIs DEF TypeOK
    <3> QED BY <1>0, <2>1, <3>1 DEF ClientStart, Killing, TypeOK
  <2>2. CASE ClientReadable(c) \/ ClientShutdown(c) \/ ClientPollFails(c) \/ ClientHandled(c)
    <3>1. PICK p \in {"handle", "leave", "test"} : pc' = [pc EXCEPT ![c] = p]
      BY <2>2 DEF ClientReadable, ClientShutdown, ClientPollFails, ClientHandled
    <3>2. /\ UNCHANGED <<uiVars, epollVars, list, index, ownKill, alive, shut, open,
                         tag, told, raced, crashed>>
          /\ pollFailed' \in [Clients -> BOOLEAN]
      BY <1>0, <2>2 DEF ClientReadable, ClientShutdown, ClientPollFails, ClientHandled, TypeOK
    <3>3. pc' \in [Clients -> Places]
      BY <1>0, <3>1 DEF TypeOK, Places
    <3> QED BY <1>0, <3>2, <3>3 DEF TypeOK, Places
  <2>3. CASE ClientKillsItself(c)
    <3>1. pc' \in [Clients -> Places]
      <4>1. PICK p \in {"tell", "test"} : pc' = [pc EXCEPT ![c] = p]
        BY <2>3 DEF ClientKillsItself
      <4> QED BY <1>0, <4>1 DEF TypeOK, Places
    <3>2. ownKill' \in [Clients -> BOOLEAN] /\ alive' \in [Clients -> BOOLEAN]
      BY <1>0, <2>3 DEF ClientKillsItself, TypeOK
    <3>3. shut' \in [Clients -> {"open", "signalled", "closed"}] /\ open' \in [Clients -> BOOLEAN]
      BY <1>0, <2>3 DEF ClientKillsItself, TypeOK
    <3> QED BY <1>0, <2>3, <3>1, <3>2, <3>3 DEF ClientKillsItself, TypeOK, Places
  <2>4. CASE ClientTells(c)
    <3>1. \A i \in DOMAIN list : i \in 0 .. Cardinality(Clients)
      BY <1>0, ListFits DEF TypeOK, IInv, Lists
    <3>2. index' \in [Clients -> 0 .. Cardinality(Clients)]
      <4>1. PICK i : i \in 0 .. Cardinality(Clients) /\ index' = [index EXCEPT ![c] = i]
        BY <1>0, <2>4, <3>1 DEF ClientTells
      <4> QED BY <1>0, <4>1 DEF TypeOK
    <3>3. told[c] = 0
      BY <2>4 DEF ClientTells, IInv, Heard
    <3>4. told' \in [Clients -> 0 .. 1]
      BY <1>0, <2>4, <3>3 DEF ClientTells, TypeOK
    <3> QED BY <1>0, <2>4, <3>2, <3>4 DEF ClientTells, TypeOK
  <2>5. CASE ClientRemoves(c)
    <3>1. index[c] \in Nat
      BY <1>0 DEF TypeOK
    <3>2. index[c] > 0 /\ list # <<>> => Without(index[c]) \in Seq(Clients)
      BY <1>0, <3>1, WithoutIs DEF TypeOK
    <3>3. list' \in Seq(Clients)
      BY <1>0, <2>5, <3>1, <3>2 DEF ClientRemoves, TypeOK
    <3>4. index' \in [Clients -> 0 .. Cardinality(Clients)]
      BY <1>0, <2>5 DEF ClientRemoves, TypeOK
    <3> QED BY <1>0, <2>5, <3>3, <3>4 DEF ClientRemoves, ClearsTag, Killing, TypeOK
  <2>6. CASE ClientTests(c) \/ ClientLeaves(c)
    BY <1>0, <2>6 DEF ClientTests, ClientLeaves, TypeOK
  <2> QED BY <1>4, <2>1, <2>2, <2>3, <2>4, <2>5, <2>6 DEF ClientThread
<1>5. CASE Over
  BY <1>1, <1>5 DEF Over
<1> QED BY <1>1, <1>2, <1>3, <1>4, <1>5 DEF Next

LEMMA HeardKept == IInv /\ [Next]_vars => \A c \in Clients : Heard(c)'
<1> SUFFICES ASSUME IInv, [Next]_vars, NEW d \in Clients PROVE Heard(d)'
  OBVIOUS
<1> USE DEF uiVars, epollVars, clientVars
<1>0. TypeOK /\ Heard(d)
  BY DEF IInv
<1>1. CASE UNCHANGED clientVars
  BY <1>0, <1>1 DEF Heard
<1>2. CASE EpollThread
  <2>1. CASE EpollLoop \/ EpollShutdown \/ EpollFails \/ KillIsEmpty \/ KillTake \/ KillStore
    BY <1>1, <2>1 DEF EpollLoop, EpollShutdown, EpollFails, KillIsEmpty, KillTake, KillStore
  <2>2. ASSUME NEW c \in Clients, EpollAccept(c)
        PROVE  Heard(d)'
    BY <1>0, <2>2 DEF EpollAccept, TypeOK, Heard
  <2>3. CASE KillRequest
    <3>1. victim \in Clients /\ Started(victim)
      BY <1>0, <2>3 DEF KillRequest, TypeOK, IInv, Lists
    <3> QED BY <1>0, <2>3, <3>1 DEF KillRequest, Woken, TypeOK, Heard, Started
  <2>4. CASE KillEnd
    <3>1. victim \in Clients /\ ~tag[victim] /\ pc[victim] = "done"
      BY <1>0, <2>4 DEF KillEnd, TypeOK, IInv, Heard
    <3>2. tag' = tag /\ told' = told /\ UNCHANGED <<pc, index, ownKill, alive>>
      <4>1. told' = [told EXCEPT ![victim] = told[victim] + 0]
        BY <2>4, <3>1 DEF KillEnd
      <4>2. told[victim] \in 0 .. 1 /\ told[victim] + 0 = told[victim]
        BY <1>0, <3>1 DEF TypeOK
      <4>3. told' = told
        BY <1>0, <4>1, <4>2 DEF TypeOK
      <4> QED BY <1>0, <2>4, <3>1, <4>3 DEF KillEnd, TypeOK
    <3>3. pc[d] = "start" => shut'[d] = shut[d] /\ open'[d] = open[d]
      BY <1>0, <2>4, <3>1 DEF KillEnd, TypeOK
    <3> QED BY <1>0, <3>2, <3>3 DEF Heard
  <2> QED BY <1>2, <2>1, <2>2, <2>3, <2>4 DEF EpollThread
<1>3. ASSUME NEW c \in Clients, ClientThread(c)
      PROVE  Heard(d)'
  <2>1. CASE d = c
    BY <1>0, <1>3, <2>1, ClientMine
  <2>2. CASE d # c
    BY <1>0, <1>3, <2>2, ClientFrame DEF Heard
  <2> QED BY <2>1, <2>2
<1>4. CASE UNCHANGED vars \/ Destroyer \/ Over
  BY <1>1, <1>4 DEF vars, Destroyer, Stop, Free, Forget, Over
<1> QED BY <1>2, <1>3, <1>4 DEF Next

\* A thread that has started does not start again.
LEMMA StaysStarted ==
  ASSUME TypeOK, [Next]_vars, NEW d \in Clients, Started(d)
  PROVE  Started(d)'
<1> USE DEF clientVars
<1>1. CASE UNCHANGED pc
  BY <1>1 DEF Started
<1>2. ASSUME NEW c \in Clients, ClientThread(c)
      PROVE  Started(d)'
  <2>1. CASE d # c
    BY <1>2, <2>1, ClientFrame DEF Started
  <2>2. CASE d = c
    <3>1. \E p \in Places \ {"none", "start"} : pc' = [pc EXCEPT ![c] = p]
      <4>1. CASE \/ ClientStart(c) \/ ClientReadable(c) \/ ClientShutdown(c)
                 \/ ClientPollFails(c) \/ ClientHandled(c) \/ ClientKillsItself(c)
        BY <4>1 DEF ClientStart, ClientReadable, ClientShutdown, ClientPollFails, ClientHandled,
                    ClientKillsItself, Places
      <4>2. CASE ClientTells(c) \/ ClientRemoves(c) \/ ClientTests(c) \/ ClientLeaves(c)
        BY <4>2 DEF ClientTells, ClientRemoves, ClientTests, ClientLeaves, Places
      <4> QED BY <1>2, <4>1, <4>2 DEF ClientThread
    <3> QED BY <2>2, <3>1 DEF TypeOK, Started
  <2> QED BY <2>1, <2>2
<1>3. ASSUME NEW c \in Clients, EpollAccept(c)
      PROVE  Started(d)'
  BY <1>3 DEF EpollAccept, Started, TypeOK
<1>4. CASE \/ UNCHANGED vars \/ Destroyer \/ Over \/ EpollLoop \/ EpollShutdown \/ EpollFails
           \/ KillIsEmpty \/ KillTake \/ KillStore \/ KillRequest \/ KillEnd
  BY <1>1, <1>4 DEF vars, Destroyer, Stop, Free, Forget, Over, EpollLoop, EpollShutdown,
     EpollFails, KillIsEmpty, KillTake, KillStore, KillRequest, KillEnd
<1> QED BY <1>2, <1>3, <1>4 DEF Next, EpollThread

LEMMA ListsKept == IInv /\ [Next]_vars => Lists'
<1> SUFFICES ASSUME IInv, [Next]_vars PROVE Lists'
  OBVIOUS
<1> USE DEF uiVars, epollVars, clientVars
<1>0. /\ list \in Seq(Clients) /\ snapshot \in Seq(Clients) /\ TypeOK /\ Lists
      /\ \A c \in Clients : Started(c) => Started(c)'
  BY StaysStarted DEF IInv, TypeOK
<1>1. ASSUME UNCHANGED list, UNCHANGED snapshot, victim' \in {victim, NoClient},
             epoll' = "store" => epoll = "store"
      PROVE  Lists'
  BY <1>0, <1>1, XConnectorAssumption DEF Lists
<1>2. CASE \/ UNCHANGED vars \/ Destroyer \/ Over \/ EpollLoop \/ EpollShutdown \/ EpollFails
           \/ KillIsEmpty \/ KillRequest \/ KillEnd
  BY <1>1, <1>2 DEF vars, Destroyer, Stop, Free, Forget, Over, EpollLoop, EpollShutdown,
     EpollFails, KillIsEmpty, KillRequest, KillEnd
<1>3. ASSUME NEW c \in Clients, EpollAccept(c)
      PROVE  Lists'
  BY <1>1, <1>3 DEF EpollAccept
<1>4. CASE KillTake
  <2>1. CASE list = <<>>
    BY <1>1, <1>4, <2>1 DEF KillTake
  <2>2. CASE list # <<>>
    <3>1. snapshot' = list /\ victim' = Head(list) /\ list' = list
      BY <1>4, <2>2 DEF KillTake
    <3>2. In(Head(list), list)
      BY <1>0, <2>2, TailIs
    <3> QED BY <1>0, <2>2, <3>1, <3>2 DEF Lists
  <2> QED BY <2>1, <2>2
<1>5. CASE KillStore
  <2>1. snapshot # <<>> /\ list' = Tail(snapshot) /\ snapshot' = <<>> /\ epoll' = "kill"
        /\ victim' = victim
    BY <1>0, <1>5 DEF KillStore, Lists
  <2>2. Distinct(Tail(snapshot)) /\ \A x : In(x, Tail(snapshot)) => In(x, snapshot)
    BY <1>0, <2>1, TailIs DEF Lists
  <2>3. Distinct(<<>>) /\ \A x : ~In(x, <<>>)
    BY DEF Distinct, In
  <2> QED BY <1>0, <2>1, <2>2, <2>3 DEF Lists
<1>6. ASSUME NEW c \in Clients, ClientThread(c)
      PROVE  Lists'
  <2>1. UNCHANGED <<epoll, snapshot, victim>>
    BY <1>0, <1>6, ClientFrame
  <2>2. CASE list' = list
    BY <1>1, <2>1, <2>2
  <2>3. CASE ClientStart(c)
    <3>1. list' = Append(list, c) /\ pc'[c] = "poll" /\ pc[c] = "start"
      BY <1>0, <2>3 DEF ClientStart, TypeOK
    <3>2. ~In(c, list) /\ Started(c)'
      BY <1>0, <3>1 DEF Lists, Started
    <3>3. Distinct(list') /\ \A x : In(x, list') <=> In(x, list) \/ x = c
      BY <1>0, <3>1, <3>2, AppendIs DEF Lists
    <3> QED BY <1>0, <2>1, <3>2, <3>3 DEF Lists
  <2>4. CASE ClientRemoves(c) /\ list' # list
    <3>1. index[c] \in Nat \ {0} /\ list # <<>> /\ list' = Without(index[c])
      BY <1>0, <2>4, XConnectorAssumption, FS_CardinalityType DEF ClientRemoves, TypeOK
    <3>2. Distinct(list') /\ \A x : In(x, list') => In(x, list)
      BY <1>0, <3>1, WithoutIs DEF Lists
    <3> QED BY <1>0, <2>1, <3>2 DEF Lists
  <2>5. CASE ~ClientStart(c) /\ ~ClientRemoves(c)
    BY <1>6, <2>2, <2>5 DEF ClientThread, ClientReadable, ClientShutdown, ClientPollFails, ClientHandled,
       ClientKillsItself, ClientTells, ClientTests, ClientLeaves
  <2> QED BY <2>2, <2>3, <2>4, <2>5
<1> QED BY <1>2, <1>3, <1>4, <1>5, <1>6 DEF Next, EpollThread

LEMMA MonitorKept == IInv /\ [Next]_vars => OneRemoves' /\ Found'
<1> SUFFICES ASSUME IInv, [Next]_vars PROVE OneRemoves' /\ Found'
  OBVIOUS
<1> USE DEF uiVars, epollVars, clientVars
<1>0. TypeOK /\ OneRemoves /\ Found
  BY DEF IInv
<1>1. ASSUME UNCHANGED <<pc, index>>, Killing' \/ (UNCHANGED list /\ ~Killing)
      PROVE  OneRemoves' /\ Found'
  BY <1>0, <1>1 DEF OneRemoves, Found
<1>2. CASE \/ UNCHANGED vars \/ Destroyer \/ Over \/ EpollLoop \/ EpollShutdown \/ EpollFails
  BY <1>1, <1>2 DEF vars, Destroyer, Stop, Free, Forget, Over, EpollLoop, EpollShutdown,
     EpollFails, Killing
<1>3. CASE KillIsEmpty \/ KillTake \/ KillStore \/ KillRequest \/ KillEnd
  <2>1. Killing' /\ UNCHANGED <<pc, index>>
    BY <1>3 DEF KillIsEmpty, KillTake, KillStore, KillRequest, KillEnd, Killing
  <2> QED BY <1>1, <2>1
<1>4. ASSUME NEW c \in Clients, EpollAccept(c)
      PROVE  OneRemoves' /\ Found'
  <2>1. UNCHANGED <<index, list>> /\ ~Killing
    BY <1>4 DEF EpollAccept, Killing
  <2>2. \A d \in Clients : pc'[d] = "remove" => pc[d] = "remove"
    BY <1>0, <1>4 DEF EpollAccept, TypeOK
  <2> QED BY <1>0, <2>1, <2>2 DEF OneRemoves, Found
<1>5. ASSUME NEW c \in Clients, ClientThread(c)
      PROVE  OneRemoves' /\ Found'
  <2>1. /\ Killing' = Killing
        /\ \A d \in Clients : d # c => pc'[d] = pc[d] /\ index'[d] = index[d]
    BY <1>0, <1>5, ClientFrame DEF Killing
  <2>2. CASE ClientTells(c)
    <3>1. \A d \in Clients : pc[d] # "remove"
      BY <2>2 DEF ClientTells, MonitorFree
    <3>2. list' = list /\ (index'[c] = 0 \/ (index'[c] \in DOMAIN list /\ list[index'[c]] = c))
      <4>1. list' = list
        BY <2>2 DEF ClientTells
      <4>2. PICK i : /\ index' = [index EXCEPT ![c] = i]
                     /\ i = 0 \/ (i \in DOMAIN list /\ list[i] = c)
        BY <2>2 DEF ClientTells
      <4>3. index'[c] = i
        BY <1>0, <4>2 DEF TypeOK
      <4> QED BY <4>1, <4>2, <4>3
    <3> QED BY <2>1, <3>1, <3>2 DEF OneRemoves, Found
  <2>3. CASE ClientRemoves(c)
    <3>1. pc[c] = "remove" /\ pc'[c] # "remove"
      BY <1>0, <2>3 DEF ClientRemoves, TypeOK
    <3>2. \A d \in Clients : pc'[d] # "remove"
      BY <1>0, <2>1, <3>1 DEF OneRemoves
    <3> QED BY <3>2 DEF OneRemoves, Found
  <2>4. CASE ClientStart(c)
    <3>1. \A d \in Clients : pc[d] # "remove"
      BY <2>4 DEF ClientStart, MonitorFree
    <3>2. pc'[c] = "poll"
      BY <1>0, <2>4 DEF ClientStart, TypeOK
    <3>3. \A d \in Clients : pc'[d] # "remove"
      BY <2>1, <3>1, <3>2
    <3> QED BY <3>3 DEF OneRemoves, Found
  <2>5. CASE ~ClientStart(c) /\ ~ClientRemoves(c) /\ ~ClientTells(c)
    <3>1. list' = list
      BY <1>5, <2>5 DEF ClientThread, ClientReadable, ClientShutdown, ClientPollFails, ClientHandled,
         ClientKillsItself, ClientTests, ClientLeaves
    <3>2. PICK p \in Places \ {"remove"} : pc' = [pc EXCEPT ![c] = p]
      BY <1>5, <2>5 DEF ClientThread, ClientReadable, ClientShutdown, ClientPollFails, ClientHandled,
         ClientKillsItself, ClientTests, ClientLeaves, Places
    <3>3. pc'[c] # "remove"
      BY <1>0, <3>2 DEF TypeOK
    <3> QED BY <1>0, <2>1, <3>1, <3>3 DEF OneRemoves, Found
  <2> QED BY <2>2, <2>3, <2>4, <2>5
<1> QED BY <1>2, <1>3, <1>4, <1>5 DEF Next, EpollThread

\* A client in the list serves on, or begins to leave.
LEMMA QueuedServes ==
  ASSUME TypeOK, NEW c \in Clients, Queued(c), ClientThread(c), ~ClientRemoves(c)
  PROVE  Queued(c)' /\ list' = list /\ crashed' = crashed
<1>1. CASE ClientStart(c)
  BY <1>1 DEF ClientStart, Queued
<1>2. CASE ClientReadable(c) \/ ClientHandled(c)
  BY <1>2 DEF ClientReadable, ClientHandled, TypeOK, Queued
<1>3. CASE ClientShutdown(c) \/ ClientPollFails(c)
  BY <1>3 DEF ClientShutdown, ClientPollFails, TypeOK, Queued
<1>4. CASE ClientKillsItself(c)
  BY <1>4 DEF ClientKillsItself, TypeOK, Queued
<1>5. CASE ClientTells(c)
  BY <1>5 DEF ClientTells, TypeOK, Queued
<1>6. CASE ClientTests(c) \/ ClientLeaves(c)
  BY <1>6 DEF ClientTests, ClientLeaves, TypeOK, Queued
<1> QED BY <1>1, <1>2, <1>3, <1>4, <1>5, <1>6 DEF ClientThread

\* A client that has ended does no more than return.
LEMMA EndedStays ==
  ASSUME TypeOK, NEW c \in Clients, Ended(c), ClientThread(c)
  PROVE  Ended(c)' /\ list' = list /\ crashed' = crashed /\ ~ClientTells(c)
<1>1. pc[c] \in {"done", "test", "leave"}
  BY DEF Ended
<1>2. CASE ClientTests(c) \/ ClientLeaves(c)
  BY <1>2 DEF ClientTests, ClientLeaves, TypeOK, Ended, ClientTells
<1>3. CASE ~ClientTests(c) /\ ~ClientLeaves(c)
  BY <1>1, <1>3 DEF ClientThread, ClientStart, ClientReadable, ClientShutdown, ClientPollFails, ClientHandled,
                    ClientKillsItself, ClientTells, ClientRemoves
<1> QED BY <1>2, <1>3

\* The step of a client's thread while the epoll thread is not disturbed.
LEMMA ClientAlone ==
  ASSUME IInv, Alone, NEW c \in Clients, ClientThread(c), ~raced'
  PROVE  Alone'
<1> USE DEF uiVars, epollVars, clientVars
<1>0. TypeOK /\ Lists /\ OneRemoves /\ Found /\ Heard(c) /\ list \in Seq(Clients)
  BY DEF IInv, TypeOK
<1>1. /\ UNCHANGED <<epoll, snapshot, victim>>
      /\ \A d \in Clients : d # c =>
           /\ pc'[d] = pc[d] /\ index'[d] = index[d]
           /\ Started(d)' = Started(d) /\ Queued(d)' = Queued(d) /\ Ended(d)' = Ended(d)
  BY <1>0, ClientFrame DEF Started, Queued, Ended
<1>2. \A d \in Clients : Started(d) /\ d # victim =>
        IF In(d, list) THEN Queued(d) ELSE Ended(d)
  BY DEF Alone
<1>3. CASE ClientStart(c)
  <2>1. /\ list' = Append(list, c) /\ ~Killing /\ crashed' = crashed /\ pc[c] = "start"
        /\ \A d \in Clients : pc[d] # "remove"
    BY <1>3 DEF ClientStart, MonitorFree
  <2>2. ~In(c, list) /\ \A x : In(x, list') <=> In(x, list) \/ x = c
    BY <1>0, <2>1, AppendIs DEF Lists, Started
  <2>3. pc'[c] = "poll" /\ Queued(c)'
    BY <1>0, <1>3 DEF ClientStart, TypeOK, Heard, Queued
  <2>4. \A d \in Clients : pc'[d] # "remove"
    BY <1>1, <2>1, <2>3
  <2>5. ASSUME NEW d \in Clients, Started(d)', d # victim'
        PROVE  IF In(d, list') THEN Queued(d)' ELSE Ended(d)'
    <3>1. CASE d = c
      BY <2>2, <2>3, <3>1
    <3>2. CASE d # c
      BY <1>1, <1>2, <2>2, <2>5, <3>2
    <3> QED BY <3>1, <3>2
  <2>6. epoll' \in {"loop", "wait"}
    BY <1>1, <2>1 DEF Killing
  <2> QED BY <2>1, <2>4, <2>5, <2>6 DEF Alone
<1>4. CASE ClientRemoves(c)
  <2>1. pc[c] = "remove" /\ index[c] \in Nat
    BY <1>0, <1>4, FS_CardinalityType, XConnectorAssumption DEF ClientRemoves, TypeOK
  <2>2. pc'[c] # "remove" /\ \A d \in Clients : pc'[d] # "remove"
    <3>1. pc'[c] # "remove"
      BY <1>0, <1>4 DEF ClientRemoves, TypeOK
    <3> QED BY <1>0, <1>1, <2>1, <3>1 DEF OneRemoves
  <2>3. CASE index[c] = 0
    <3>1. list' = list /\ crashed' = crashed
      BY <1>4, <2>3 DEF ClientRemoves
    <3>2. ~In(c, list)
      BY <2>1, <2>3 DEF Alone
    <3>3. c = victim
      BY <1>2, <2>1, <3>2 DEF Started, Ended
    <3>4. ASSUME NEW d \in Clients, Started(d)', d # victim'
          PROVE  IF In(d, list') THEN Queued(d)' ELSE Ended(d)'
      BY <1>1, <1>2, <3>1, <3>3, <3>4
    <3> QED BY <1>1, <2>2, <3>1, <3>4 DEF Alone
  <2>4. CASE index[c] # 0
    <3>0. index[c] \in Nat \ {0} /\ index[c] > 0
      BY <2>1, <2>4
    <3>1. ~Killing /\ index[c] \in Nat \ {0}
      <4>1. raced' = (raced \/ (index[c] > 0 /\ Killing))
        BY <1>4 DEF ClientRemoves
      <4> QED BY <3>0, <4>1
    <3>2. index[c] \in DOMAIN list /\ list[index[c]] = c
      BY <1>0, <2>1, <3>1 DEF Found
    <3>3. list # <<>>
      BY <3>2
    <3>4. list' = Without(index[c]) /\ crashed' = crashed
      BY <1>4, <3>1, <3>3 DEF ClientRemoves
    <3>5. \A x : In(x, list') <=> In(x, list) /\ x # c
      BY <1>0, <3>1, <3>2, <3>3, <3>4, WithoutIs DEF Lists
    <3>6. victim = NoClient /\ c # victim /\ In(c, list) /\ epoll' \in {"loop", "wait"}
      BY <1>0, <1>1, <3>1, <3>2, XConnectorAssumption DEF Killing, TypeOK, In
    <3>7. Queued(c)
      BY <1>2, <2>1, <3>6 DEF Started
    <3>8. Ended(c)'
      BY <1>0, <1>4, <2>1, <3>7 DEF ClientRemoves, ClearsTag, Queued, Ended, Heard, TypeOK
    <3>9. ASSUME NEW d \in Clients, Started(d)', d # victim'
          PROVE  IF In(d, list') THEN Queued(d)' ELSE Ended(d)'
      <4>1. CASE d = c
        BY <3>5, <3>8, <4>1
      <4>2. CASE d # c
        BY <1>1, <1>2, <3>5, <3>9, <4>2
      <4> QED BY <4>1, <4>2
    <3> QED BY <2>2, <3>4, <3>6, <3>9 DEF Alone
  <2> QED BY <2>3, <2>4
<1>5. CASE ~ClientStart(c) /\ ~ClientRemoves(c)
  <2>1. list' = list /\ crashed' = crashed
    BY <1>5 DEF ClientThread, ClientReadable, ClientShutdown, ClientPollFails, ClientHandled,
       ClientKillsItself, ClientTells, ClientTests, ClientLeaves
  <2>2. Started(c)
    BY <1>5 DEF ClientThread, ClientReadable, ClientShutdown, ClientPollFails, ClientHandled,
       ClientKillsItself, ClientTells, ClientTests, ClientLeaves, Started
  <2>3. pc'[c] = "remove" /\ index'[c] = 0 => ~In(c, list)
    <3>1. CASE ClientTells(c)
      <4>1. \/ \A i \in DOMAIN list : list[i] # c
            \/ \E i \in DOMAIN list : index' = [index EXCEPT ![c] = i]
        BY <3>1 DEF ClientTells
      <4>2. \A i \in DOMAIN list : index' = [index EXCEPT ![c] = i] => index'[c] = i /\ i # 0
        BY <1>0 DEF TypeOK
      <4> QED BY <4>1, <4>2 DEF In
    <3>2. CASE ~ClientTells(c)
      <4>1. PICK p \in Places \ {"remove"} : pc' = [pc EXCEPT ![c] = p]
        BY <1>5, <3>2 DEF ClientThread, ClientReadable, ClientShutdown, ClientPollFails, ClientHandled,
           ClientKillsItself, ClientTests, ClientLeaves, Places
      <4> QED BY <1>0, <4>1 DEF TypeOK
    <3> QED BY <3>1, <3>2
  <2>4. c # victim => IF In(c, list) THEN Queued(c)' ELSE Ended(c)'
    BY <1>0, <1>2, <1>5, <2>2, QueuedServes, EndedStays
  <2>5. ASSUME NEW d \in Clients, Started(d)', d # victim'
        PROVE  IF In(d, list') THEN Queued(d)' ELSE Ended(d)'
    BY <1>1, <1>2, <2>1, <2>4, <2>5
  <2>6. \A d \in Clients : pc'[d] = "remove" /\ index'[d] = 0 => ~In(d, list)
    BY <1>1, <2>3 DEF Alone
  <2> QED BY <1>1, <2>1, <2>5, <2>6 DEF Alone
<1> QED BY <1>3, <1>4, <1>5

\* Steps that change neither the list nor a client's own.
LEMMA SameList ==
  ASSUME Alone, UNCHANGED <<list, clientVars, crashed>>,
         epoll' = "take" => list # <<>>, epoll' = "done" => list = <<>>,
         \/ epoll' \notin {"store", "kill", "join"} /\ victim \notin Clients
         \/ UNCHANGED <<epoll, snapshot, victim>>
  PROVE  Alone'
<1> USE DEF clientVars
<1>1. \A d \in Clients : /\ Started(d)' = Started(d) /\ Queued(d)' = Queued(d)
                         /\ Ended(d)' = Ended(d)
  BY DEF Started, Queued, Ended
<1>2. \A d \in Clients : Started(d) /\ d # victim =>
        IF In(d, list) THEN Queued(d) ELSE Ended(d)
  BY DEF Alone
<1>3. \A d \in Clients : Started(d)' /\ d # victim' =>
        IF In(d, list') THEN Queued(d)' ELSE Ended(d)'
  BY <1>1, <1>2
<1> QED BY <1>3 DEF Alone

LEMMA EpollAlone ==
  ASSUME IInv, Alone, EpollThread, ~raced'
  PROVE  Alone'
<1> USE DEF uiVars, epollVars, clientVars
<1>0. /\ TypeOK /\ Lists /\ list \in Seq(Clients) /\ snapshot \in Seq(Clients)
      /\ epoll \notin {"store", "kill", "join"} => victim \notin Clients
  BY XConnectorAssumption DEF IInv, TypeOK
<1>1. \A d \in Clients : Started(d) /\ d # victim =>
        IF In(d, list) THEN Queued(d) ELSE Ended(d)
  BY DEF Alone
<1>2. CASE EpollLoop \/ EpollShutdown \/ EpollFails \/ KillIsEmpty
  BY <1>0, <1>2, SameList DEF EpollLoop, EpollShutdown, EpollFails, KillIsEmpty
<1>3. ASSUME NEW c \in Clients, EpollAccept(c)
      PROVE  Alone'
  <2>1. /\ epoll = "wait" /\ epoll' = "loop"
        /\ UNCHANGED <<snapshot, victim, list, index, ownKill, tag, told, crashed>>
    BY <1>3 DEF EpollAccept
  <2>2. /\ ~Started(c)'
        /\ pc'[c] # "remove"
        /\ \A d \in Clients : d # c =>
             /\ pc'[d] = pc[d] /\ Started(d)' = Started(d) /\ Queued(d)' = Queued(d)
             /\ Ended(d)' = Ended(d)
    BY <1>0, <1>3 DEF EpollAccept, TypeOK, Started, Queued, Ended
  <2>3. \A d \in Clients : Started(d)' /\ d # victim' =>
          IF In(d, list') THEN Queued(d)' ELSE Ended(d)'
    BY <1>1, <2>1, <2>2
  <2>4. \A d \in Clients : pc'[d] = "remove" /\ index'[d] = 0 => ~In(d, list)
    BY <2>1, <2>2 DEF Alone
  <2> QED BY <2>1, <2>3, <2>4 DEF Alone
<1>4. CASE KillTake
  <2>1. epoll = "take" /\ list # <<>>
    BY <1>4 DEF KillTake, Alone
  <2>2. /\ snapshot' = list /\ victim' = Head(list) /\ epoll' = "store"
        /\ UNCHANGED <<list, clientVars, crashed>>
    BY <1>4, <2>1 DEF KillTake
  <2>3. \A d \in Clients : /\ Started(d)' = Started(d) /\ Queued(d)' = Queued(d)
                           /\ Ended(d)' = Ended(d)
    BY <2>2 DEF Started, Queued, Ended
  <2>4. \A d \in Clients : Started(d)' /\ d # victim' =>
          IF In(d, list') THEN Queued(d)' ELSE Ended(d)'
    BY <1>0, <1>1, <2>1, <2>2, <2>3
  <2>5. \A d \in Clients : pc'[d] = "remove" /\ index'[d] = 0 => ~In(d, list')
    BY <2>2 DEF Alone
  <2> QED BY <2>2, <2>4, <2>5 DEF Alone
<1>5. CASE KillStore
  <2>1. /\ list = snapshot /\ victim = Head(list) /\ list # <<>>
        /\ list' = Tail(list) /\ epoll' = "kill"
        /\ UNCHANGED <<victim, clientVars, crashed>>
    BY <1>0, <1>5 DEF KillStore, Alone, Lists
  <2>2. \A x : In(x, list') <=> In(x, list) /\ x # victim
    BY <1>0, <2>1, TailIs DEF Lists
  <2>3. \A d \in Clients : /\ Started(d)' = Started(d) /\ Queued(d)' = Queued(d)
                           /\ Ended(d)' = Ended(d)
    BY <2>1 DEF Started, Queued, Ended
  <2>4. \A d \in Clients : Started(d)' /\ d # victim' =>
          IF In(d, list') THEN Queued(d)' ELSE Ended(d)'
    BY <1>1, <2>1, <2>2, <2>3
  <2>5. \A d \in Clients : pc'[d] = "remove" /\ index'[d] = 0 => ~In(d, list')
    BY <2>1, <2>2 DEF Alone
  <2>6. ~In(victim', list') /\ ~crashed'
    BY <2>1, <2>2 DEF Alone
  <2> QED BY <2>1, <2>4, <2>5, <2>6 DEF Alone
<1>6. CASE KillRequest
  <2>1. /\ epoll = "kill" /\ epoll' = "join" /\ victim \in Clients
        /\ UNCHANGED <<list, victim, pc, index, crashed>>
    BY <1>0, <1>6 DEF KillRequest, TypeOK
  <2>2. \A d \in Clients : d # victim =>
          /\ Started(d)' = Started(d) /\ Queued(d)' = Queued(d) /\ Ended(d)' = Ended(d)
    BY <1>0, <1>6, <2>1 DEF KillRequest, Woken, TypeOK, Started, Queued, Ended
  <2>3. \A d \in Clients : Started(d)' /\ d # victim' =>
          IF In(d, list') THEN Queued(d)' ELSE Ended(d)'
    BY <1>1, <2>1, <2>2
  <2>4. \A d \in Clients : pc'[d] = "remove" /\ index'[d] = 0 => ~In(d, list')
    BY <2>1 DEF Alone
  <2>5. ~In(victim', list') /\ ~crashed'
    BY <2>1 DEF Alone
  <2> QED BY <2>1, <2>3, <2>4, <2>5 DEF Alone
<1>7. CASE KillEnd
  <2>1. /\ epoll = "join" /\ epoll' = "isEmpty" /\ victim \in Clients /\ pc[victim] = "done"
        /\ victim' = NoClient
        /\ UNCHANGED <<list, pc, index, crashed>>
    BY <1>0, <1>7 DEF KillEnd, TypeOK
  <2>2. \A d \in Clients : d # victim =>
          /\ Started(d)' = Started(d) /\ Queued(d)' = Queued(d) /\ Ended(d)' = Ended(d)
    BY <1>0, <1>7, <2>1 DEF KillEnd, TypeOK, Started, Queued, Ended
  <2>3. PICK v \in Clients : v = victim
    BY <2>1
  <2>4. Ended(v)'
    <3>1. Heard(v) /\ pc[v] = "done"
      BY <2>1, <2>3 DEF IInv
    <3>2. told' = [told EXCEPT ![v] = told[v] + 0]
      BY <1>7, <2>3, <3>1 DEF KillEnd, Heard
    <3>3. told'[v] = 1
      BY <1>0, <3>1, <3>2 DEF TypeOK, Heard
    <3>4. /\ ~tag'[v] /\ ~open'[v] /\ shut'[v] = "closed" /\ pc'[v] = "done"
      BY <1>0, <1>7, <2>1, <2>3 DEF KillEnd, TypeOK
    <3> QED BY <3>3, <3>4 DEF Ended
  <2>5. ~In(v, list)
    BY <2>1, <2>3 DEF Alone
  <2>6. \A d \in Clients : Started(d)' /\ d # victim' =>
          IF In(d, list') THEN Queued(d)' ELSE Ended(d)'
    BY <1>1, <2>1, <2>2, <2>3, <2>4, <2>5
  <2>7. \A d \in Clients : pc'[d] = "remove" /\ index'[d] = 0 => ~In(d, list')
    BY <2>1 DEF Alone
  <2> QED BY <2>1, <2>6, <2>7 DEF Alone
<1> QED BY <1>2, <1>3, <1>4, <1>5, <1>6, <1>7 DEF EpollThread

LEMMA StepKeepsIInv == IInv /\ [Next]_vars => IInv'
<1> SUFFICES ASSUME IInv, [Next]_vars PROVE IInv'
  OBVIOUS
<1> USE DEF uiVars, epollVars, clientVars
<1>1. /\ TypeOK' /\ (\A c \in Clients : Heard(c)') /\ Lists' /\ OneRemoves' /\ Found'
  BY TypesKept, HeardKept, ListsKept, MonitorKept
<1>2. raced => raced'
  <2>1. CASE raced' = raced
    BY <2>1
  <2>2. ASSUME NEW c \in Clients, ClientThread(c)
        PROVE  raced => raced'
    BY <2>2 DEF ClientThread, ClientStart, ClientReadable, ClientShutdown, ClientPollFails, ClientHandled,
       ClientKillsItself, ClientTells, ClientRemoves, ClientTests, ClientLeaves
  <2>3. ASSUME NEW c \in Clients, EpollAccept(c)
        PROVE  raced' = raced
    BY <2>3 DEF EpollAccept
  <2>4. CASE \/ UNCHANGED vars \/ Destroyer \/ Over \/ EpollLoop \/ EpollShutdown \/ EpollFails
             \/ KillIsEmpty \/ KillTake \/ KillStore \/ KillRequest \/ KillEnd
    BY <2>4 DEF vars, Destroyer, Stop, Free, Forget, Over, EpollLoop, EpollShutdown,
       EpollFails, KillIsEmpty, KillTake, KillStore, KillRequest, KillEnd
  <2> QED BY <2>1, <2>2, <2>3, <2>4 DEF Next, EpollThread
<1>3. ASSUME ~raced'
      PROVE  Alone'
  <2>1. Alone
    BY <1>2, <1>3 DEF IInv
  <2>2. ASSUME NEW c \in Clients, ClientThread(c)
        PROVE  Alone'
    BY <1>3, <2>1, <2>2, ClientAlone
  <2>3. CASE EpollThread
    BY <1>3, <2>1, <2>3, EpollAlone
  <2>4. CASE UNCHANGED vars \/ Destroyer \/ Over
    <3>1. UNCHANGED <<list, clientVars, crashed, epoll, snapshot, victim>>
      BY <2>4 DEF vars, Destroyer, Stop, Free, Forget, Over
    <3> QED BY <2>1, <3>1, SameList DEF Alone
  <2> QED BY <2>2, <2>3, <2>4 DEF Next
<1>4. ui' \in {"free", "done"} => epoll' = "done"
  <2>1. ASSUME NEW c \in Clients, ClientThread(c)
        PROVE  UNCHANGED <<ui, epoll>>
    BY <2>1, ClientFrame DEF IInv
  <2>2. CASE EpollThread
    <3>1. epoll # "done" /\ ui' = ui
      <4>1. ASSUME NEW c \in Clients, EpollAccept(c)
            PROVE  epoll # "done" /\ ui' = ui
        BY <4>1 DEF EpollAccept
      <4>2. CASE \/ EpollLoop \/ EpollShutdown \/ EpollFails
                 \/ KillIsEmpty \/ KillTake \/ KillStore \/ KillRequest \/ KillEnd
        BY <4>2 DEF EpollLoop, EpollShutdown,
           EpollFails, KillIsEmpty, KillTake, KillStore, KillRequest, KillEnd
      <4> QED BY <2>2, <4>1, <4>2 DEF EpollThread
    <3> QED BY <3>1 DEF IInv
  <2>3. CASE UNCHANGED vars \/ Destroyer \/ Over
    BY <2>3 DEF vars, Destroyer, Stop, Free, Forget, Joined, Over, IInv
  <2> QED BY <2>1, <2>2, <2>3 DEF Next, IInv
<1> QED BY <1>1, <1>3, <1>4 DEF IInv

\* The invariant of the shutdown of a connector.
THEOREM InductiveInvariant == Spec => []IInv
<1>1. Init => IInv
  BY InitIInv
<1>2. IInv /\ [Next]_vars => IInv'
  BY StepKeepsIInv
<1> QED BY <1>1, <1>2, PTL DEF Spec

\* Types; a handler is told of a shutdown once at most, whoever changes the
\* list (XConnectorEpoll_killConnection, handleConnectionShutdown).
THEOREM TypeCorrect == Spec => []TypeOK
<1>1. IInv => TypeOK
  BY DEF IInv
<1> QED BY <1>1, InductiveInvariant, PTL

\* Unless a client's thread enters or leaves the list while the connector is
\* being shut down, no exception is thrown and destroy() frees the connector
\* only when every client has ended, its descriptors closed unless its poll()
\* failed (XConnectorEpoll.killAllConnections, pollThread).
THEOREM EndedFirst == Spec => []ClientsEndFirst
<1>1. IInv => ClientsEndFirst
  <2> SUFFICES ASSUME IInv, ~raced
               PROVE  /\ ~crashed
                      /\ ui \in {"free", "done"} =>
                           \A c \in Clients : pc[c] \in {"none", "start"} \/ Ended(c)
    BY DEF ClientsEndFirst
  <2>1. Alone
    BY DEF IInv
  <2>2. ASSUME ui \in {"free", "done"}, NEW c \in Clients, Started(c)
        PROVE  Ended(c)
    <3>1. epoll = "done" /\ list = <<>>
      BY <2>1, <2>2 DEF IInv, Alone
    <3>2. victim = NoClient /\ ~In(c, list)
      BY <3>1 DEF IInv, TypeOK, In
    <3> QED BY <2>1, <2>2, <3>2, XConnectorAssumption DEF Alone
  <2> QED BY <2>1, <2>2 DEF Alone, Started
<1> QED BY <1>1, InductiveInvariant, PTL
=============================================================================
