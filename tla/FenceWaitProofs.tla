--------------------------- MODULE FenceWaitProofs ---------------------------
(***************************************************************************)
(* Theorems about FenceWait for up to MaxFds fences, any timeouts and any  *)
(* width of an int: what the call returns is true, a limited wait takes no *)
(* longer than its timeout for each fence, and descriptors are closed.     *)
(***************************************************************************)
EXTENDS FenceWait, FiniteSetTheorems, WellFoundedInduction, TLAPS

LimitSet == {-1} \cup 1 .. (Modulus \div 2)
WaitSet  == [limit : LimitSet, polled : [Fence -> Fence], remaining : Fence,
             seen : SUBSET Fence]

\* Every variable has its type.
Types ==
  /\ signalled \subseteq Fence
  /\ request \in [timeout : Timeouts \cup {0}, all : BOOLEAN]
  /\ host \in {"idle", "query", "export", "send", "close", "ended"}
  /\ exit \in BOOLEAN /\ slots \in [Fence -> SlotValues] /\ hostFds \subseteq Fence
  /\ wire \in {Nothing} \cup [kind : {"status", "fds"}, result : Results]
  /\ guest \in {"idle", "recv", "poll", "done"} /\ guestFds \subseteq Fence
  /\ wait \in WaitSet /\ clock \in [round : Nat, total : Nat]
  /\ result \in Results \cup {"none"}

\* Where the two sides are while the answer is on its way, and what it says.
Exchange ==
  /\ guest = "idle" => host \in {"idle", "ended"} /\ wire = Nothing
  /\ guest \in {"poll", "done"} =>
       \/ host \in {"close", "idle", "ended"} /\ wire = Nothing
       \/ guest = "done" /\ request.timeout = 0
  /\ guest \in {"idle", "recv"} \/ request.timeout = 0 => guestFds = {}
  /\ guest # "done" => result = "none"
  /\ host = "query" => request.timeout = 0
  /\ host \in {"export", "send"} => request.timeout # 0
  /\ host \in {"query", "export", "send"} => wire = Nothing
  /\ wire.kind = "status" => host \in {"idle", "ended"} /\ request.timeout = 0
  /\ wire.kind = "fds" => request.timeout # 0 /\ wire.result = IF Exported THEN "success" ELSE "lost"

\* What no longer changes once it is so: what was returned is true, and the
\* descriptors are closed.
Outcome ==
  /\ wire.kind = "status" /\ wire.result = "success" => Satisfied
  /\ result = "success" => Satisfied
Closes ==
  /\ host \in {"idle", "query", "ended"} => hostFds = {}
  /\ guest = "done" /\ guestFds # {} => result = "lost" /\ ~Exported

\* The first positions of pfds are the descriptors not seen yet, each once.
Remaining ==
  LET rest == Fence \ wait.seen
  IN /\ wait.seen \subseteq signalled
     /\ wait.remaining = Cardinality(rest)
     /\ \A k \in 1 .. wait.remaining : wait.polled[k] \in rest
     /\ \A f \in rest : \E k \in 1 .. wait.remaining : wait.polled[k] = f
     /\ \A j, k \in 1 .. wait.remaining : wait.polled[j] = wait.polled[k] => j = k
FirstRound == guest \in {"idle", "recv"} \/ FirstIsEnough => wait.seen = {}

\* Every round of the loop takes the limit at most.
Timing ==
  /\ guest \in {"idle", "recv"} => clock.total = 0
  /\ clock.total > 0 \/ guest = "poll" => wait.limit = Limit(Millis(request.timeout))
  /\ clock.round <= clock.total
  /\ wait.limit = -1 => clock.total = 0
  /\ wait.limit # -1 =>
       /\ clock.round <= wait.limit
       /\ clock.total <= (NumFences - wait.remaining) * wait.limit
                          + (IF guest = "poll" THEN clock.round ELSE wait.limit)
  /\ result = "timeout" =>
       request.timeout = 0 \/ Limit(Millis(request.timeout)) \in 1 .. clock.total

\* The inductive invariant.
IInv == /\ Types /\ Exchange /\ Outcome /\ Closes
        /\ Remaining /\ FirstRound /\ Timing
-----------------------------------------------------------------------------
\* Induction over the naturals, for a set.
LEMMA LeastElement ==
  ASSUME NEW T, T \subseteq Nat, T # {}
  PROVE  \E m \in T : \A n \in T : m <= n
<1> DEFINE R == OpToRel(<, Nat)
<1>1. IsWellFoundedOn(R, Nat)
  BY NatLessThanWellFounded
<1>2. \A a, b \in Nat : a < b => <<a, b>> \in R
  BY DEF OpToRel
<1> HIDE DEF R
<1>3. PICK m \in T : \A n \in T : ~(<<n, m>> \in R)
  BY <1>1, WFMin
<1>4. \A n \in T : ~(n < m)
  BY <1>2, <1>3
<1>5. \A n \in T : m <= n
  BY <1>4
<1> QED BY <1>5

LEMMA SetInduction ==
  ASSUME NEW T, 0 \in T, \A n \in Nat : n \in T => n + 1 \in T
  PROVE  \A n \in Nat : n \in T
<1> DEFINE S == Nat \ T
<1>1. SUFFICES ASSUME S # {} PROVE FALSE
  OBVIOUS
<1>2. PICK m \in S : \A n \in S : m <= n
  BY <1>1, LeastElement
<1>3. m - 1 \in Nat /\ m - 1 \notin S /\ m = (m - 1) + 1
  BY <1>2
<1> QED BY <1>3

\* The recursion of Left has a solution.
LEMMA LeftExists ==
  ASSUME NEW n \in Nat, NEW R
  PROVE  \E f : f = [k \in 0 .. n |-> IF k = 0 THEN n
                                      ELSE IF k \in R /\ k <= f[k - 1] THEN f[k - 1] - 1
                                      ELSE f[k - 1]]
<1> DEFINE Next1(k, v) == IF k \in R /\ k <= v THEN v - 1 ELSE v
           Good(f, m) == /\ f = [k \in 0 .. m |-> f[k]] /\ f[0] = n
                         /\ \A k \in 1 .. m : f[k] = Next1(k, f[k - 1])
           T == {m \in Nat : \E f : Good(f, m)}
<1>1. 0 \in T
  <2> DEFINE f == [k \in 0 .. 0 |-> n]
  <2>1. Good(f, 0)
    OBVIOUS
  <2> QED BY <2>1
<1>2. ASSUME NEW m \in Nat, m \in T
      PROVE  m + 1 \in T
  <2>1. PICK f : Good(f, m)
    BY <1>2
  <2> DEFINE g == [k \in 0 .. m + 1 |-> IF k = m + 1 THEN Next1(k, f[m]) ELSE f[k]]
  <2>2. \A k \in 0 .. m : k \in 0 .. m + 1 /\ k # m + 1
    OBVIOUS
  <2>3. m + 1 \in 0 .. m + 1 /\ 0 \in 0 .. m /\ m \in 0 .. m
    OBVIOUS
  <2>4. (\A k \in 0 .. m : g[k] = f[k]) /\ g[m + 1] = Next1(m + 1, f[m])
    BY <2>2, <2>3
  <2>5. g = [k \in 0 .. m + 1 |-> g[k]]
    OBVIOUS
  <2> HIDE DEF g, Next1
  <2>6. ASSUME NEW k \in 1 .. m + 1
        PROVE  g[k] = Next1(k, g[k - 1])
    <3>1. CASE k = m + 1
      BY <2>3, <2>4, <3>1
    <3>2. CASE k # m + 1
      <4>1. k \in 1 .. m /\ k \in 0 .. m /\ k - 1 \in 0 .. m
        BY <3>2
      <4> QED BY <2>1, <2>4, <4>1
    <3> QED BY <3>1, <3>2
  <2>7. Good(g, m + 1)
    BY <2>1, <2>3, <2>4, <2>5, <2>6
  <2> HIDE DEF Good
  <2>8. (\E h : Good(h, m + 1)) /\ m + 1 \in Nat
    BY <2>7
  <2> QED BY <2>8
<1> HIDE DEF T
<1>3. n \in T
  BY <1>1, <1>2, SetInduction
<1>4. PICK f : Good(f, n)
  BY <1>3 DEF T
<1>5. \A k \in 0 .. n : f[k] = IF k = 0 THEN n ELSE Next1(k, f[k - 1])
  BY <1>4
<1>6. f = [k \in 0 .. n |-> IF k = 0 THEN n ELSE Next1(k, f[k - 1])]
  BY <1>4, <1>5
<1> QED BY <1>6

\* One step of the loop, and what it leaves of remaining.
LEMMA LeftStep ==
  ASSUME Types
  PROVE  /\ Left[0] = wait.remaining
         /\ \A k \in 1 .. wait.remaining :
              Left[k] = IF k \in Ready /\ k <= Left[k - 1] THEN Left[k - 1] - 1 ELSE Left[k - 1]
<1> DEFINE n == wait.remaining
           F(f) == [k \in 0 .. n |-> IF k = 0 THEN n
                                     ELSE IF k \in Ready /\ k <= f[k - 1] THEN f[k - 1] - 1
                                     ELSE f[k - 1]]
<1>1. n \in Nat
  BY FencesAssumption DEF Types, WaitSet, Fence
<1>2. Left = CHOOSE f : f = F(f)
  BY DEF Left
<1>3. \E f : f = F(f)
  <2> HIDE DEF n
  <2>1. \A R : \E f : f = [k \in 0 .. n |-> IF k = 0 THEN n
                                      ELSE IF k \in R /\ k <= f[k - 1] THEN f[k - 1] - 1
                                      ELSE f[k - 1]]
    BY <1>1, LeftExists
  <2> QED BY <2>1
<1>4. Left = F(Left)
  <2> HIDE DEF F
  <2> QED BY <1>2, <1>3
<1> HIDE DEF n
<1>5. \A k \in 0 .. n : Left[k] = IF k = 0 THEN n
                                 ELSE IF k \in Ready /\ k <= Left[k - 1] THEN Left[k - 1] - 1
                                 ELSE Left[k - 1]
  BY <1>4
<1>6. 0 \in 0 .. n /\ \A k \in 1 .. n : k \in 0 .. n /\ k # 0
  BY <1>1
<1> QED BY <1>5, <1>6 DEF n

\* remaining goes down by the positions noticed: by one at least when one is
\* ready, and to 0 only when every position is.
LEMMA LeftBounds ==
  ASSUME Types, Ready # {}
  PROVE  /\ Left[wait.remaining] \in 0 .. wait.remaining - 1
         /\ Left[wait.remaining] = 0 => Ready = 1 .. wait.remaining
         /\ \A k \in 0 .. wait.remaining : Left[k] \in 0 .. wait.remaining
<1> DEFINE n == wait.remaining
           Good(k) == /\ Left[k] \in 0 .. n /\ Left[k] >= n - k
                      /\ Left[k] = n => \A j \in 1 .. k : j \notin Ready
                      /\ Left[k] = n - k => \A j \in 1 .. k : j \in Ready
           T == {k \in Nat : k <= n => Good(k)}
<1>1. n \in Nat \ {0}
  BY FencesAssumption DEF Types, WaitSet, Fence
<1>2. /\ Left[0] = n
      /\ \A k \in 1 .. n : Left[k] = IF k \in Ready /\ k <= Left[k - 1] THEN Left[k - 1] - 1
                                      ELSE Left[k - 1]
  BY LeftStep
<1> HIDE DEF n
<1>3. 0 \in T
  BY <1>1, <1>2
<1>4. ASSUME NEW m \in Nat, m \in T
      PROVE  m + 1 \in T
  <2>1. SUFFICES ASSUME m + 1 <= n PROVE Good(m + 1)
    OBVIOUS
  <2>2. Good(m) /\ m + 1 \in 1 .. n /\ (m + 1) - 1 = m
    BY <1>1, <1>4, <2>1
  <2>3. Left[m + 1] = IF m + 1 \in Ready /\ m + 1 <= Left[m] THEN Left[m] - 1 ELSE Left[m]
    BY <1>2, <2>2
  <2>4. \A j \in 1 .. m + 1 : j = m + 1 \/ j \in 1 .. m
    OBVIOUS
  <2>5. Left[m + 1] \in 0 .. n /\ Left[m + 1] >= n - (m + 1)
    BY <1>1, <2>1, <2>2, <2>3
  <2>6. ASSUME Left[m + 1] = n
        PROVE  \A j \in 1 .. m + 1 : j \notin Ready
    <3>1. Left[m] = n /\ m + 1 \notin Ready
      BY <1>1, <2>1, <2>2, <2>3, <2>6
    <3> QED BY <2>2, <2>4, <3>1
  <2>7. ASSUME Left[m + 1] = n - (m + 1)
        PROVE  \A j \in 1 .. m + 1 : j \in Ready
    <3>1. Left[m] = n - m /\ m + 1 \in Ready
      BY <1>1, <2>1, <2>2, <2>3, <2>7
    <3> QED BY <2>2, <2>4, <3>1
  <2> QED BY <2>5, <2>6, <2>7
<1> HIDE DEF T
<1>5. \A k \in Nat : k \in T
  BY <1>3, <1>4, SetInduction
<1>6. \A k \in 0 .. n : Good(k)
  BY <1>1, <1>5 DEF T
<1>7. Good(n) /\ Ready \subseteq 1 .. n
  BY <1>1, <1>6 DEF Ready, n
<1>8. Left[n] # n
  BY <1>7
<1>9. Left[n] \in 0 .. n - 1
  BY <1>1, <1>7, <1>8
<1>10. Left[n] = 0 => Ready = 1 .. n
  <2>1. n - n = 0
    BY <1>1
  <2> QED BY <1>7, <2>1
<1> QED BY <1>6, <1>9, <1>10 DEF n
-----------------------------------------------------------------------------
LEMMA FenceFinite ==
  /\ Fence \subseteq Nat \ {0} /\ IsFiniteSet(Fence) /\ Cardinality(Fence) = NumFences
  /\ 1 \in Fence /\ NumFences \in Fence
  /\ \A S \in SUBSET Fence :
        /\ IsFiniteSet(S) /\ Cardinality(S) \in 0 .. NumFences
        /\ Cardinality(S) = 0 <=> S = {}
        /\ S \subseteq Nat
<1>1. IsFiniteSet(Fence) /\ Cardinality(Fence) = NumFences
  BY FencesAssumption, FS_Interval DEF Fence
<1>2. ASSUME NEW S \in SUBSET Fence
      PROVE  /\ IsFiniteSet(S) /\ Cardinality(S) \in 0 .. NumFences
             /\ Cardinality(S) = 0 <=> S = {}
  <2>1. IsFiniteSet(S) /\ Cardinality(S) <= NumFences
    BY <1>1, FS_Subset
  <2>2. Cardinality(S) \in Nat
    BY <2>1, FS_CardinalityType
  <2>3. Cardinality(S) = 0 <=> S = {}
    BY <2>1, FS_EmptySet
  <2> QED BY <2>1, <2>2, <2>3, FencesAssumption
<1>3. Fence \subseteq Nat \ {0} /\ 1 \in Fence /\ NumFences \in Fence
  BY FencesAssumption DEF Fence
<1>4. \A S \in SUBSET Fence : S \subseteq Nat
  BY <1>3
<1> HIDE DEF Fence
<1> QED BY <1>1, <1>2, <1>3, <1>4

\* Kth counts through a set.
LEMMA KthCounts ==
  ASSUME NEW S \in SUBSET Fence
  PROVE  /\ \A k \in 1 .. Cardinality(S) : Kth(k, S) \in S
         /\ \A f \in S : \E k \in 1 .. Cardinality(S) : Kth(k, S) = f
         /\ \A j, k \in 1 .. Cardinality(S) : Kth(j, S) = Kth(k, S) => j = k
<1> DEFINE n       == Cardinality(S)
           UpTo(f) == {g \in S : g <= f}
           rank    == [f \in S |-> Cardinality(UpTo(f))]
<1>1. S \subseteq Nat /\ IsFiniteSet(S) /\ n \in Nat
  BY FenceFinite
<1>2. ASSUME NEW f \in S
      PROVE  IsFiniteSet(UpTo(f)) /\ Cardinality(UpTo(f)) \in 1 .. n
  <2>1. UpTo(f) \in SUBSET S /\ f \in UpTo(f)
    BY <1>1
  <2>2. IsFiniteSet(UpTo(f)) /\ Cardinality(UpTo(f)) <= n
    BY <1>1, <2>1, FS_Subset
  <2>3. Cardinality(UpTo(f)) \in Nat /\ Cardinality(UpTo(f)) # 0
    BY <2>1, <2>2, FS_CardinalityType, FS_EmptySet
  <2> QED BY <1>1, <2>2, <2>3
<1>3. ASSUME NEW f \in S, NEW g \in S, f < g
      PROVE  Cardinality(UpTo(f)) < Cardinality(UpTo(g))
  <2>1. f \in Nat /\ g \in Nat /\ \A h \in S : h \in Nat
    BY <1>1
  <2>2. (\A h \in S : h <= f => h <= g) /\ ~(g <= f) /\ g <= g
    BY <1>3, <2>1
  <2>3. UpTo(f) \in SUBSET UpTo(g) /\ g \in UpTo(g) /\ g \notin UpTo(f)
    BY <2>2
  <2>4. Cardinality(UpTo(f)) <= Cardinality(UpTo(g)) /\ Cardinality(UpTo(f)) # Cardinality(UpTo(g))
    BY <1>2, <2>3, FS_Subset
  <2> QED BY <1>2, <2>4
<1> HIDE DEF n, UpTo
<1>4. rank \in Injection(S, 1 .. n)
  <2>1. rank \in [S -> 1 .. n]
    BY <1>2
  <2>2. \A f, g \in S : rank[f] = rank[g] => f = g
    <3> SUFFICES ASSUME NEW f \in S, NEW g \in S, f # g PROVE rank[f] # rank[g]
      OBVIOUS
    <3>1. f < g \/ g < f
      BY <1>1
    <3>2. Cardinality(UpTo(f)) # Cardinality(UpTo(g))
      BY <1>2, <1>3, <3>1
    <3> QED BY <3>2
  <2> QED BY <2>1, <2>2 DEF Injection, IsInjective
<1> HIDE DEF rank
<1>5. rank \in Surjection(S, 1 .. n)
  <2>1. IsFiniteSet(1 .. n) /\ Cardinality(1 .. n) = n
    BY <1>1, FS_Interval
  <2> QED BY <1>1, <1>4, <2>1, FS_Injection DEF n
<1>6. \A k \in 1 .. n : \E f \in S : rank[f] = k
  BY <1>5 DEF Surjection
<1>7. \A f \in S : rank[f] = Cardinality(UpTo(f))
  BY DEF rank
<1>8. \A k : Kth(k, S) = CHOOSE f \in S : Cardinality(UpTo(f)) = k
  BY DEF Kth, UpTo
<1>9. \A k \in 1 .. n : Kth(k, S) \in S /\ rank[Kth(k, S)] = k
  <2> SUFFICES ASSUME NEW k \in 1 .. n PROVE Kth(k, S) \in S /\ rank[Kth(k, S)] = k
    OBVIOUS
  <2>1. \E f \in S : Cardinality(UpTo(f)) = k
    BY <1>6, <1>7
  <2>2. Kth(k, S) \in S /\ Cardinality(UpTo(Kth(k, S))) = k
    BY <1>8, <2>1
  <2> QED BY <1>7, <2>2
<1>10. \A f \in S : rank[f] \in 1 .. n /\ Kth(rank[f], S) = f
  <2>1. \A f \in S : rank[f] \in 1 .. n
    BY <1>4 DEF Injection, IsInjective
  <2>2. \A f, g \in S : rank[f] = rank[g] => f = g
    BY <1>4 DEF Injection, IsInjective
  <2> QED BY <1>9, <2>1, <2>2
<1> QED BY <1>9, <1>10 DEF n

\* A round notices, of the descriptors it polls, as many as remaining goes down.
LEMMA NoticedCount ==
  ASSUME Types, Remaining, Ready # {}
  PROVE  /\ Noticed \subseteq (Fence \ wait.seen) \cap signalled
         /\ Cardinality((Fence \ wait.seen) \ Noticed) = Left[wait.remaining]
<1> DEFINE n     == wait.remaining
           Up(m) == {wait.polled[k] : k \in {j \in Ready : j <= m /\ j <= Left[j - 1]}}
           T     == {m \in Nat : m <= n => /\ IsFiniteSet(Up(m))
                                           /\ Cardinality(Up(m)) = n - Left[m]}
<1>1. n \in Nat \ {0} /\ n = Cardinality(Fence \ wait.seen)
  BY FenceFinite DEF Types, WaitSet, Remaining
<1>2. /\ Left[0] = n
      /\ \A k \in 1 .. n : Left[k] = IF k \in Ready /\ k <= Left[k - 1] THEN Left[k - 1] - 1
                                      ELSE Left[k - 1]
      /\ \A k \in 0 .. n : Left[k] \in 0 .. n
  BY LeftStep, LeftBounds
<1>3. Ready \subseteq 1 .. n /\ \A k \in Ready : wait.polled[k] \in (Fence \ wait.seen) \cap signalled
  BY DEF Ready, Remaining
<1>4. \A j, k \in 1 .. n : wait.polled[j] = wait.polled[k] => j = k
  BY DEF Remaining
<1> HIDE DEF n
<1>5. 0 \in T
  <2>1. Up(0) = {}
    BY <1>3
  <2>2. n - Left[0] = 0
    BY <1>1, <1>2
  <2> QED BY <2>1, <2>2, FS_EmptySet
<1>6. ASSUME NEW m \in Nat, m \in T
      PROVE  m + 1 \in T
  <2>1. SUFFICES ASSUME m + 1 <= n
                 PROVE  IsFiniteSet(Up(m + 1)) /\ Cardinality(Up(m + 1)) = n - Left[m + 1]
    OBVIOUS
  <2>2. IsFiniteSet(Up(m)) /\ Cardinality(Up(m)) = n - Left[m]
    BY <1>1, <1>6, <2>1
  <2>3. Left[m + 1] = IF m + 1 \in Ready /\ m + 1 <= Left[m] THEN Left[m] - 1 ELSE Left[m]
    BY <1>1, <1>2, <2>1
  <2>4. \A j \in Ready : j <= m + 1 <=> j = m + 1 \/ j <= m
    BY <1>1, <1>3
  <2>5. Left[m] \in Nat /\ n \in Nat
    BY <1>1, <1>2, <2>1
  <2>6. CASE m + 1 \in Ready /\ m + 1 <= Left[m]
    <3>1. Up(m + 1) = Up(m) \cup {wait.polled[m + 1]}
      BY <2>4, <2>6
    <3>2. wait.polled[m + 1] \notin Up(m)
      BY <1>1, <1>3, <1>4, <2>6
    <3>3. IsFiniteSet(Up(m + 1)) /\ Cardinality(Up(m + 1)) = Cardinality(Up(m)) + 1
      <4> HIDE DEF Up
      <4> QED BY <2>2, <3>1, <3>2, FS_AddElement
    <3>4. Cardinality(Up(m)) + 1 = n - Left[m + 1]
      BY <2>2, <2>3, <2>5, <2>6
    <3> QED BY <3>3, <3>4
  <2>7. CASE ~(m + 1 \in Ready /\ m + 1 <= Left[m])
    <3>1. Up(m + 1) = Up(m)
      BY <2>4, <2>7
    <3> QED BY <2>2, <2>3, <2>7, <3>1
  <2> QED BY <2>6, <2>7
<1> HIDE DEF T
<1>7. n \in T
  BY <1>1, <1>5, <1>6, SetInduction
<1>8. IsFiniteSet(Up(n)) /\ Cardinality(Up(n)) = n - Left[n]
  BY <1>1, <1>7 DEF T
<1>9. Up(n) = Noticed
  <2>1. \A j \in Ready : j <= n
    BY <1>1, <1>3
  <2> QED BY <2>1 DEF Noticed
<1> HIDE DEF Up
<1>10. Noticed \subseteq (Fence \ wait.seen) \cap signalled
  BY <1>3 DEF Noticed
<1>11. Cardinality((Fence \ wait.seen) \ Noticed) = Left[n]
  <2>1. IsFiniteSet(Fence \ wait.seen)
    <3>1. (Fence \ wait.seen) \in SUBSET Fence
      OBVIOUS
    <3> QED BY <3>1, FenceFinite
  <2>2. (Fence \ wait.seen) \cap Noticed = Noticed
    BY <1>10
  <2>3. Cardinality((Fence \ wait.seen) \ Noticed) = n - Cardinality(Noticed)
    BY <1>1, <2>1, <2>2, FS_Difference
  <2>4. Left[n] \in Nat /\ n \in Nat
    BY <1>1, <1>2
  <2> QED BY <1>8, <1>9, <2>3, <2>4
<1> QED BY <1>10, <1>11 DEF n

\* A round that is not the last leaves the loop as a round finds it.
LEMMA RoundKeepsRemaining ==
  ASSUME Types, Remaining, Ready # {}, Left[wait.remaining] # 0
  PROVE  LET seen == wait.seen \cup Noticed
             left == Left[wait.remaining]
         IN /\ left \in Fence /\ left < wait.remaining
            /\ Repacked(seen) \in [Fence -> Fence] /\ seen \subseteq signalled
            /\ left = Cardinality(Fence \ seen)
            /\ \A k \in 1 .. left : Repacked(seen)[k] \in Fence \ seen
            /\ \A f \in Fence \ seen : \E k \in 1 .. left : Repacked(seen)[k] = f
            /\ \A j, k \in 1 .. left : Repacked(seen)[j] = Repacked(seen)[k] => j = k
<1> DEFINE seen == wait.seen \cup Noticed
           left == Left[wait.remaining]
           rest == Fence \ seen
<1>1. wait.remaining \in Nat /\ wait.remaining <= NumFences /\ NumFences \in Nat
  BY FencesAssumption DEF Types, WaitSet, Fence
<1>2. left \in 1 .. wait.remaining - 1
  BY <1>1, LeftBounds
<1>3. left \in Fence /\ left < wait.remaining /\ 1 .. left \subseteq Fence
  BY <1>1, <1>2 DEF Fence
<1>4. Noticed \subseteq signalled /\ left = Cardinality(rest)
  <2>1. rest = (Fence \ wait.seen) \ Noticed
    OBVIOUS
  <2> QED BY <2>1, NoticedCount
<1>5. seen \subseteq signalled
  BY <1>4 DEF Remaining
<1> HIDE DEF seen, left
<1>6. /\ \A k \in 1 .. left : Kth(k, rest) \in rest
      /\ \A f \in rest : \E k \in 1 .. left : Kth(k, rest) = f
      /\ \A j, k \in 1 .. left : Kth(j, rest) = Kth(k, rest) => j = k
  <2>1. rest \in SUBSET Fence
    OBVIOUS
  <2> HIDE DEF rest
  <2> QED BY <1>4, <2>1, KthCounts
<1>7. Repacked(seen) = [k \in Fence |-> IF k <= left THEN Kth(k, rest) ELSE wait.polled[k]]
  BY <1>4 DEF Repacked
<1>8. \A k \in 1 .. left : k \in Fence /\ k <= left
  BY <1>3 DEF Fence
<1>9. \A k \in Fence : k <= left => k \in 1 .. left
  BY <1>2 DEF Fence
<1>10. wait.polled \in [Fence -> Fence]
  BY DEF Types, WaitSet
<1>11. rest \subseteq Fence
  OBVIOUS
<1> HIDE DEF rest
<1>12. Repacked(seen) \in [Fence -> Fence]
  BY <1>6, <1>7, <1>9, <1>10, <1>11
<1>13. \A k \in 1 .. left : Repacked(seen)[k] = Kth(k, rest)
  BY <1>7, <1>8
<1>14. /\ \A k \in 1 .. left : Repacked(seen)[k] \in rest
       /\ \A f \in rest : \E k \in 1 .. left : Repacked(seen)[k] = f
       /\ \A j, k \in 1 .. left : Repacked(seen)[j] = Repacked(seen)[k] => j = k
  BY <1>6, <1>13
<1> HIDE DEF Repacked
<1> QED BY <1>3, <1>4, <1>5, <1>12, <1>14 DEF seen, left, rest
-----------------------------------------------------------------------------
LEMMA Division ==
  ASSUME NEW a \in Nat, NEW b \in Nat \ {0}
  PROVE  /\ a % b \in 0 .. b - 1 /\ a \div b \in Nat
         /\ a < b => a % b = a /\ a \div b = 0
  OBVIOUS

\* What a quotient of milliseconds is worth in the units of a timeout.
LEMMA Quotient ==
  ASSUME NEW t \in Nat, NEW u \in Nat \ {0}
  PROVE  (t \div u) * u <= t /\ t < ((t \div u) + 1) * u
<1>1. PICK q \in Nat : q = t \div u
  BY Division
<1>2. t = q * u + (t % u) /\ t % u \in 0 .. u - 1
  BY <1>1
<1>3. (q + 1) * u = q * u + u /\ q * u \in Nat
  BY <1>1
<1> QED BY <1>1, <1>2, <1>3

LEMMA Scale ==
  ASSUME NEW a \in Nat, NEW b \in Nat, NEW c \in Nat, a <= b
  PROVE  a * c <= b * c
<1>1. PICK d \in Nat : b = a + d
  <2>1. b - a \in Nat /\ b = a + (b - a)
    OBVIOUS
  <2> QED BY <2>1
<1>2. (a + d) * c = a * c + d * c /\ d * c \in Nat /\ a * c \in Nat
  BY <1>1
<1> QED BY <1>1, <1>2

\* The limit is endless or one that fits an int, and exact when the timeout does.
LEMMA LimitFits ==
  ASSUME NEW t \in Nat
  PROVE  /\ Limit(Millis(t)) \in LimitSet
         /\ t \div UnitsPerMs \in 1 .. (Modulus \div 2 - 1) =>
              Limit(Millis(t)) \in {-1, t \div UnitsPerMs}
<1> DEFINE n == t \div UnitsPerMs
           h == Modulus \div 2
<1>1. n \in Nat /\ UnitsPerMs \in Nat \ {0} /\ Modulus \in Nat \ {0}
  BY TimeoutAssumption, Division
<1>2. h \in Nat /\ h <= Modulus
  BY <1>1
<1>3. n % Modulus \in 0 .. Modulus - 1 /\ (n < Modulus => n % Modulus = n)
  BY <1>1, Division
<1> HIDE DEF n, h
<1>4. /\ AsInt(n) \in Int /\ AsInt(n) < h
      /\ n \in 1 .. h - 1 => AsInt(n) = n
  <2> DEFINE r == n % Modulus
  <2>1. AsInt(n) = IF r < h THEN r ELSE r - Modulus
    BY DEF AsInt, h
  <2>2. r \in 0 .. Modulus - 1 /\ (n < Modulus => r = n)
    BY <1>3
  <2> HIDE DEF r
  <2> QED BY <1>1, <1>2, <2>1, <2>2
<1>5. Millis(t) \in {0, AsInt(n)}
  BY DEF Millis, n
<1>6. Limit(Millis(t)) \in {-1} \cup 1 .. h
  BY <1>2, <1>4, <1>5 DEF Limit
<1>7. n \in 1 .. h - 1 => Limit(Millis(t)) \in {-1, n}
  BY <1>2, <1>4, <1>5 DEF Limit
<1> QED BY <1>6, <1>7 DEF n, h, LimitSet

LEMMA StartTyped ==
  ASSUME request.timeout \in Nat
  PROVE  /\ StartOfWait \in WaitSet /\ StartOfWait.limit = Limit(Millis(request.timeout))
         /\ StartOfWait.remaining = NumFences /\ StartOfWait.seen = {}
         /\ StartOfWait.polled = [i \in Fence |-> i]
  BY LimitFits, FenceFinite DEF StartOfWait, WaitSet

\* In the first round every descriptor is polled.
LEMMA StartRemaining ==
  ASSUME wait.remaining = NumFences, wait.seen = {}, wait.polled = [i \in Fence |-> i]
  PROVE  Remaining
<1>1. Fence \ {} = Fence /\ 1 .. NumFences = Fence /\ Cardinality(Fence) = NumFences
  BY FenceFinite DEF Fence
<1>2. Fence \ wait.seen = Fence /\ wait.seen \subseteq signalled
  OBVIOUS
<1>3. \A k \in Fence : wait.polled[k] = k
  OBVIOUS
<1> HIDE DEF Fence
<1> QED BY <1>1, <1>2, <1>3 DEF Remaining

LEMMA InitIInv == Init => IInv
<1> SUFFICES ASSUME Init PROVE IInv
  OBVIOUS
<1>1. request.timeout = 0 /\ wait = StartOfWait /\ clock.round = 0 /\ clock.total = 0
  BY DEF Init
<1>2. wait \in WaitSet /\ wait.limit = Limit(Millis(0)) /\ Remaining /\ wait.seen = {}
      /\ wait.remaining = NumFences
  BY <1>1, StartTyped, StartRemaining
<1>3. Types
  BY <1>2 DEF Init, Types, SlotValues
<1>4. Exchange /\ Outcome /\ Closes /\ FirstRound
  BY <1>2 DEF Init, Exchange, Outcome, Closes, FirstRound, Nothing
<1>5. Timing
  <2>1. (NumFences - NumFences) * wait.limit = 0 /\ wait.limit \in LimitSet
    BY <1>2, FencesAssumption DEF WaitSet, LimitSet
  <2> QED BY <1>1, <1>2, <2>1 DEF Timing, LimitSet, Init
<1> QED BY <1>2, <1>3, <1>4, <1>5 DEF IInv

LEMMA TimeoutNat == Types => request.timeout \in Nat
<1>1. Types => request.timeout \in Timeouts \cup {0}
  BY DEF Types
<1>2. \A t \in Timeouts \cup {0} : t \in Nat
  BY TimeoutAssumption
<1> QED BY <1>1, <1>2

\* What a return of poll with ready descriptors does.
LEMMA PollStep ==
  ASSUME Types, Remaining, PollReturns
  PROVE  /\ wait' \in WaitSet /\ wait'.limit = wait.limit /\ clock' \in [round : Nat, total : Nat]
         /\ clock'.round = 0 /\ clock'.total = clock.total
         /\ \/ /\ wait' = wait /\ guest' = "done" /\ result' = "success" /\ guestFds' = {}
               /\ FirstIsEnough \/ Left[wait.remaining] = 0
            \/ /\ UNCHANGED <<guest, guestFds, result>> /\ ~FirstIsEnough
               /\ wait'.remaining < wait.remaining /\ Remaining'
<1> DEFINE seen == wait.seen \cup Noticed
           left == Left[wait.remaining]
           over == FirstIsEnough \/ left = 0
<1>1. Ready # {} /\ signalled' = signalled /\ clock' = [clock EXCEPT !.round = 0]
  BY DEF PollReturns
<1>2. clock' \in [round : Nat, total : Nat] /\ clock'.round = 0 /\ clock'.total = clock.total
  BY <1>1 DEF Types
<1>3. CASE over
  <2>1. wait' = wait /\ guest' = "done" /\ result' = "success" /\ guestFds' = {}
    BY <1>3 DEF PollReturns, Return, Closed
  <2> QED BY <1>2, <1>3, <2>1 DEF Types
<1>4. CASE ~over
  <2>1. /\ wait' = [wait EXCEPT !.remaining = left, !.seen = seen, !.polled = Repacked(seen)]
        /\ UNCHANGED <<guest, guestFds, result>> /\ ~FirstIsEnough
    BY <1>4 DEF PollReturns
  <2>2. /\ left \in Fence /\ left < wait.remaining
        /\ Repacked(seen) \in [Fence -> Fence] /\ seen \subseteq signalled
        /\ left = Cardinality(Fence \ seen)
        /\ \A k \in 1 .. left : Repacked(seen)[k] \in Fence \ seen
        /\ \A f \in Fence \ seen : \E k \in 1 .. left : Repacked(seen)[k] = f
        /\ \A j, k \in 1 .. left : Repacked(seen)[j] = Repacked(seen)[k] => j = k
    BY <1>1, <1>4, RoundKeepsRemaining
  <2>3. signalled \subseteq Fence /\ wait \in WaitSet
    BY DEF Types
  <2>4. PICK p : p = Repacked(seen)
    OBVIOUS
  <2> HIDE DEF seen, left
  <2>5. /\ wait' \in WaitSet /\ wait'.limit = wait.limit /\ wait'.remaining = left
        /\ wait'.seen = seen /\ wait'.polled = p
    BY <2>1, <2>2, <2>3, <2>4 DEF WaitSet
  <2>6. Remaining'
    <3>1. Fence' = Fence /\ Fence \ wait'.seen = Fence \ seen /\ wait'.remaining = left
          /\ wait'.polled = p /\ wait'.seen \subseteq signalled'
      BY <1>1, <2>2, <2>5 DEF Fence
    <3>2. /\ \A k \in 1 .. left : p[k] \in Fence \ seen
          /\ \A f \in Fence \ seen : \E k \in 1 .. left : p[k] = f
          /\ \A j, k \in 1 .. left : p[j] = p[k] => j = k
      BY <2>2, <2>4
    <3> HIDE DEF Fence
    <3> QED BY <2>2, <3>1, <3>2 DEF Remaining
  <2> QED BY <1>2, <2>1, <2>2, <2>5, <2>6
<1> QED BY <1>3, <1>4

LEMMA TypesKept == Types /\ Remaining /\ [Next]_vars => Types'
<1> SUFFICES ASSUME Types, Remaining, [Next]_vars PROVE Types'
  OBVIOUS
<1> USE DEF hostVars, guestVars
<1>1. CASE UNCHANGED vars
  BY <1>1 DEF vars, Types
<1>2. ASSUME NEW f \in Fence, Signal(f)
      PROVE  Types'
  BY <1>2 DEF Signal, Types
<1>3. ASSUME NEW t \in Timeouts, NEW all \in BOOLEAN, Call(t, all)
      PROVE  Types'
  BY <1>3 DEF Call, Types
<1>4. ASSUME HostStep \/ SetExit \/ HostEnds
      PROVE  Types'
  <2>1. CASE Query
    BY <2>1 DEF Query, Types, Results
  <2>2. ASSUME NEW k \in Fence, Export(k)
        PROVE  Types'
    BY <2>2 DEF Export, Types, SlotValues
  <2>3. CASE ExportFails \/ SendFds \/ SendFails
    BY <2>3 DEF ExportFails, SendFds, SendFails, Types, Results
  <2>4. CASE CloseFds \/ SetExit \/ HostEnds
    BY <2>4 DEF CloseFds, SetExit, HostEnds, Closed, Types
  <2> QED BY <1>4, <2>1, <2>2, <2>3, <2>4 DEF HostStep
<1>5. CASE ReceiveStatus
  BY <1>5 DEF ReceiveStatus, Types, Nothing
<1>6. CASE ReceiveFds
  <2>1. StartOfWait \in WaitSet
    BY StartTyped, TimeoutNat
  <2> QED BY <1>6, <2>1 DEF ReceiveFds, Types, Results
<1>7. CASE ReceiveEnd \/ Expires \/ PollFails
  BY <1>7 DEF ReceiveEnd, Expires, PollFails, Return, Closed, Types, Results
<1>8. CASE PollReturns
  <2>1. UNCHANGED <<signalled, request, hostVars, wire>>
    BY <1>8 DEF PollReturns
  <2>2. guest' \in {guest, "done"} /\ result' \in {result, "success"} /\ guestFds' \in {guestFds, {}}
    BY <1>8, PollStep
  <2>3. wait' \in WaitSet /\ clock' \in [round : Nat, total : Nat]
    BY <1>8, PollStep
  <2> QED BY <2>1, <2>2, <2>3 DEF Types, Results
<1>9. CASE Tick
  BY <1>9 DEF Tick, Types
<1> QED BY <1>1, <1>2, <1>3, <1>4, <1>5, <1>6, <1>7, <1>8, <1>9 DEF Next, GuestStep

LEMMA ExchangeKept ==
  Types /\ Types' /\ Remaining /\ Exchange /\ [Next]_vars => Exchange'
<1> SUFFICES ASSUME Types, Types', Remaining, Exchange, [Next]_vars PROVE Exchange'
  OBVIOUS
<1> USE DEF hostVars, guestVars
<1>1. CASE UNCHANGED vars
  BY <1>1 DEF vars, Exchange, Exported
<1>2. ASSUME NEW f \in Fence, Signal(f)
      PROVE  Exchange'
  BY <1>2 DEF Signal, Exchange, Exported
<1>3. ASSUME NEW t \in Timeouts, NEW all \in BOOLEAN, Call(t, all)
      PROVE  Exchange'
  <2>1. request'.timeout = t /\ wire.kind = "nothing"
    BY <1>3 DEF Call, Exchange, Nothing
  <2> QED BY <1>3, <2>1 DEF Call, Exchange
<1>4. ASSUME HostStep \/ SetExit \/ HostEnds
      PROVE  Exchange'
  <2>1. CASE Query
    BY <2>1 DEF Query, Exchange, Nothing
  <2>2. ASSUME NEW k \in Fence, Export(k)
        PROVE  Exchange'
    BY <2>2 DEF Export, Exchange, Nothing
  <2>3. CASE ExportFails \/ SendFails
    BY <2>3 DEF ExportFails, SendFails, Exchange, Nothing, Exported
  <2>4. CASE SendFds
    BY <2>4 DEF SendFds, Exchange, Nothing, Exported
  <2>5. CASE CloseFds \/ SetExit \/ HostEnds
    BY <2>5 DEF CloseFds, SetExit, HostEnds, Exchange, Exported
  <2> QED BY <1>4, <2>1, <2>2, <2>3, <2>4, <2>5 DEF HostStep
<1>5. CASE ReceiveStatus
  BY <1>5 DEF ReceiveStatus, Exchange, Nothing
<1>6. CASE ReceiveFds
  <2>1. wire # Nothing /\ host \notin {"query", "export", "send"}
    BY <1>6 DEF ReceiveFds, Exchange, Nothing
  <2> QED BY <1>6, <2>1 DEF ReceiveFds, Exchange, Nothing, Types
<1>7. CASE ReceiveEnd
  <2>1. request.timeout # 0 => host = "ended" /\ wire = Nothing
    BY <1>7 DEF ReceiveEnd, Released
  <2> QED BY <1>7, <2>1 DEF ReceiveEnd, Exchange, Exported
<1>10. CASE Expires \/ PollFails
  BY <1>10 DEF Expires, PollFails, Return, Closed, Exchange, Exported, Nothing
<1>8. CASE PollReturns
  <2>1. guest = "poll" /\ UNCHANGED <<signalled, request, hostVars, wire>>
    BY <1>8 DEF PollReturns
  <2>2. \/ guest' = "done" /\ result' = "success" /\ guestFds' = {}
        \/ UNCHANGED <<guest, guestFds, result>>
    BY <1>8, PollStep
  <2> QED BY <2>1, <2>2 DEF Exchange, Exported
<1>9. CASE Tick
  BY <1>9 DEF Tick, Exchange, Exported
<1> QED BY <1>1, <1>2, <1>3, <1>4, <1>5, <1>6, <1>7, <1>8, <1>9, <1>10 DEF Next, GuestStep

\* The poll loop reports success only when what it was asked to wait for is there.
LEMMA PollIsTrue ==
  ASSUME Types, Remaining, Ready # {}, FirstIsEnough \/ Left[wait.remaining] = 0
  PROVE  Satisfied
<1>1. signalled \subseteq Fence /\ request.all \in BOOLEAN
  BY DEF Types
<1>2. PICK k \in 1 .. wait.remaining : wait.polled[k] \in signalled
  BY DEF Ready
<1>3. CASE ~request.all
  BY <1>2, <1>3 DEF Satisfied
<1>4. CASE NumFences = 1
  <2>1. Fence = {1}
    BY <1>4 DEF Fence
  <2> QED BY <1>1, <1>2, <2>1 DEF Satisfied
<1>5. CASE Left[wait.remaining] = 0
  <2>1. \A j \in 1 .. wait.remaining : wait.polled[j] \in signalled
    BY <1>5, LeftBounds DEF Ready
  <2>2. \A f \in Fence \ wait.seen : f \in signalled
    BY <2>1 DEF Remaining
  <2>3. signalled = Fence
    BY <1>1, <2>2 DEF Remaining
  <2> QED BY <2>2, <2>3, <1>2 DEF Satisfied
<1> QED BY <1>3, <1>4, <1>5 DEF FirstIsEnough

\* It gives up only while that is not so.
LEMMA PollGivesUp ==
  ASSUME Types, Remaining, FirstRound, guest = "poll", Ready = {}
  PROVE  ~Satisfied
<1>1. wait.remaining \in Nat /\ 1 \in 1 .. wait.remaining
  BY FencesAssumption DEF Types, WaitSet, Fence
<1>2. \A k \in 1 .. wait.remaining : wait.polled[k] \notin signalled
  BY DEF Ready
<1>3. wait.polled[1] \in Fence /\ wait.polled[1] \notin signalled
  BY <1>1, <1>2 DEF Remaining
<1>4. CASE request.all
  <2>1. signalled # Fence
    BY <1>3
  <2> QED BY <1>4, <2>1 DEF Satisfied
<1>5. CASE ~request.all
  <2>1. wait.seen = {}
    BY <1>5 DEF FirstRound, FirstIsEnough
  <2>2. \A f \in Fence : f \notin signalled
    BY <1>2, <2>1 DEF Remaining
  <2>3. signalled = {}
    BY <2>2 DEF Types
  <2> QED BY <1>5, <2>3 DEF Satisfied
<1> QED BY <1>4, <1>5

LEMMA SatisfiedStays ==
  ASSUME Types, Types', Satisfied, signalled \subseteq signalled', request' = request
  PROVE  Satisfied'
<1>1. Fence' = Fence
  BY DEF Fence
<1>2. signalled' \subseteq Fence
  BY <1>1 DEF Types
<1> QED BY <1>1, <1>2 DEF Satisfied

LEMMA OutcomeKept ==
  Types /\ Types' /\ Remaining /\ Exchange /\ Outcome /\ [Next]_vars => Outcome'
<1> SUFFICES ASSUME Types, Types', Remaining, Exchange, Outcome, [Next]_vars PROVE Outcome'
  OBVIOUS
<1> USE DEF hostVars, guestVars
<1>1. CASE \/ UNCHANGED <<signalled, request, wire, result>>
           \/ \E f \in Fence : Signal(f)
  <2>1. signalled \subseteq signalled' /\ UNCHANGED <<request, wire, result>>
    BY <1>1 DEF Signal
  <2>2. Satisfied => Satisfied'
    BY <2>1, SatisfiedStays
  <2> QED BY <2>1, <2>2 DEF Outcome
<1>2. ASSUME NEW t \in Timeouts, NEW all \in BOOLEAN, Call(t, all)
      PROVE  Outcome'
  BY <1>2 DEF Call, Exchange, Outcome, Nothing
<1>3. CASE Query
  <2>1. UNCHANGED <<signalled, request, result>>
    BY <1>3 DEF Query
  <2>2. Satisfied => Satisfied'
    BY <2>1, SatisfiedStays
  <2>3. wire'.result = "success" => Satisfied
    BY <1>3 DEF Query
  <2>4. result' = "success" => Satisfied
    BY <2>1 DEF Outcome
  <2> QED BY <2>2, <2>3, <2>4 DEF Outcome
<1>4. CASE SendFds
  <2>1. UNCHANGED <<signalled, request, result>> /\ wire'.kind = "fds"
    BY <1>4 DEF SendFds
  <2>2. Satisfied => Satisfied'
    BY <2>1, SatisfiedStays
  <2> QED BY <2>1, <2>2 DEF Outcome
<1>5. CASE ReceiveStatus
  <2>1. UNCHANGED <<signalled, request>> /\ wire.kind = "status" /\ wire' = Nothing
        /\ result' = wire.result
    BY <1>5 DEF ReceiveStatus
  <2>2. Satisfied => Satisfied'
    BY <2>1, SatisfiedStays
  <2> QED BY <2>1, <2>2 DEF Outcome, Nothing
<1>6. CASE ReceiveFds \/ ReceiveEnd \/ Expires \/ PollFails
  <2>1. UNCHANGED <<signalled, request>> /\ wire' \in {wire, Nothing}
    BY <1>6 DEF ReceiveFds, ReceiveEnd, Expires, PollFails
  <2>2. Satisfied => Satisfied'
    BY <2>1, SatisfiedStays
  <2>3. result' \in {result, "lost", "timeout"}
    BY <1>6 DEF ReceiveFds, ReceiveEnd, Expires, PollFails, Return
  <2> QED BY <2>1, <2>2, <2>3 DEF Outcome, Nothing
<1>7. CASE PollReturns
  <2>1. UNCHANGED <<signalled, request, wire>> /\ Ready # {}
    BY <1>7 DEF PollReturns
  <2>2. Satisfied => Satisfied'
    BY <2>1, SatisfiedStays
  <2>3. result' = result \/ FirstIsEnough \/ Left[wait.remaining] = 0
    BY <1>7, PollStep
  <2>4. result' = result \/ Satisfied
    BY <2>1, <2>3, PollIsTrue
  <2> QED BY <2>1, <2>2, <2>4 DEF Outcome
<1>8. CASE ExportFails \/ SendFails \/ CloseFds \/ SetExit \/ HostEnds \/ Tick
  <2>1. UNCHANGED <<signalled, request, wire, result>>
    BY <1>8 DEF ExportFails, SendFails, CloseFds, SetExit, HostEnds, Tick
  <2> QED BY <1>1, <2>1
<1>9. ASSUME NEW k \in Fence, Export(k)
      PROVE  Outcome'
  <2>1. UNCHANGED <<signalled, request, wire, result>>
    BY <1>9 DEF Export
  <2> QED BY <1>1, <2>1
<1>10. CASE UNCHANGED vars
  BY <1>1, <1>10 DEF vars
<1> QED BY <1>1, <1>2, <1>3, <1>4, <1>5, <1>6, <1>7, <1>8, <1>9, <1>10
        DEF Next, HostStep, GuestStep

LEMMA ClosesKept ==
  Types /\ Remaining /\ Exchange /\ Closes /\ [Next]_vars => Closes'
<1> SUFFICES ASSUME Types, Remaining, Exchange, Closes, [Next]_vars PROVE Closes'
  OBVIOUS
<1> USE DEF hostVars, guestVars
<1>1. CASE UNCHANGED vars
  BY <1>1 DEF vars, Closes, Exported
<1>2. ASSUME NEW f \in Fence, Signal(f)
      PROVE  Closes'
  BY <1>2 DEF Signal, Closes, Exported
<1>3. ASSUME NEW t \in Timeouts, NEW all \in BOOLEAN, Call(t, all)
      PROVE  Closes'
  BY <1>3 DEF Call, Exchange, Closes
<1>4. ASSUME HostStep \/ SetExit \/ HostEnds
      PROVE  Closes'
  <2>1. CASE Query
    BY <2>1 DEF Query, Exchange, Closes, Exported
  <2>2. ASSUME NEW k \in Fence, Export(k)
        PROVE  Closes'
    BY <2>2 DEF Export, Exchange, Closes
  <2>3. CASE ExportFails \/ SendFds \/ SendFails
    BY <2>3 DEF ExportFails, SendFds, SendFails, Exchange, Closes
  <2>4. CASE CloseFds \/ SetExit \/ HostEnds
    BY <2>4 DEF CloseFds, SetExit, HostEnds, Closed, Exchange, Closes, Exported
  <2> QED BY <1>4, <2>1, <2>2, <2>3, <2>4 DEF HostStep
<1>5. CASE ReceiveStatus \/ ReceiveEnd
  BY <1>5 DEF ReceiveStatus, ReceiveEnd, Exchange, Closes, Exported
<1>6. CASE ReceiveFds
  <2>1. guest' = "done" => result' = "lost" /\ ~Exported
    BY <1>6 DEF ReceiveFds, Exchange
  <2>2. Exported' = Exported /\ UNCHANGED <<host, hostFds>>
    BY <1>6 DEF ReceiveFds, Exported
  <2> QED BY <2>1, <2>2 DEF Closes
<1>7. CASE Expires \/ PollFails
  BY <1>7 DEF Expires, PollFails, Return, Closed, Closes, Exported
<1>8. CASE PollReturns
  <2>1. guest = "poll" /\ UNCHANGED <<signalled, request, hostVars, wire>>
    BY <1>8 DEF PollReturns
  <2>2. \/ guest' = "done" /\ result' = "success" /\ guestFds' = {}
        \/ UNCHANGED <<guest, guestFds, result>>
    BY <1>8, PollStep
  <2> QED BY <2>1, <2>2 DEF Closes, Exported
<1>9. CASE Tick
  BY <1>9 DEF Tick, Closes, Exported
<1> QED BY <1>1, <1>2, <1>3, <1>4, <1>5, <1>6, <1>7, <1>8, <1>9 DEF Next, GuestStep

\* What a step does to the locals of the loop.
LEMMA WaitSteps ==
  ASSUME Types, [Next]_vars
  PROVE  \/ wait' = wait /\ signalled \subseteq signalled'
         \/ ReceiveFds /\ wait' = StartOfWait /\ guest' = "poll" /\ UNCHANGED signalled
         \/ PollReturns
<1> USE DEF hostVars, guestVars
<1>1. CASE UNCHANGED vars
  BY <1>1 DEF vars
<1>2. ASSUME NEW f \in Fence, Signal(f)
      PROVE  wait' = wait /\ signalled \subseteq signalled'
  BY <1>2 DEF Signal
<1>3. ASSUME NEW t \in Timeouts, NEW all \in BOOLEAN, Call(t, all)
      PROVE  UNCHANGED <<wait, signalled>>
  BY <1>3 DEF Call
<1>4. ASSUME HostStep \/ SetExit \/ HostEnds
      PROVE  UNCHANGED <<wait, signalled>>
  <2>1. ASSUME NEW k \in Fence, Export(k)
        PROVE  UNCHANGED <<wait, signalled>>
    BY <2>1 DEF Export
  <2>2. CASE Query \/ ExportFails \/ SendFds \/ SendFails \/ CloseFds \/ SetExit \/ HostEnds
    BY <2>2 DEF Query, ExportFails, SendFds, SendFails, CloseFds, SetExit, HostEnds
  <2> QED BY <1>4, <2>1, <2>2 DEF HostStep
<1>5. CASE ReceiveFds
  BY <1>5 DEF ReceiveFds
<1>6. CASE ReceiveStatus \/ ReceiveEnd \/ Expires \/ PollFails \/ Tick
  BY <1>6 DEF ReceiveStatus, ReceiveEnd, Expires, PollFails, Tick
<1> QED BY <1>1, <1>2, <1>3, <1>4, <1>5, <1>6 DEF Next, GuestStep

LEMMA RemainingKept == Types /\ Remaining /\ [Next]_vars => Remaining'
<1> SUFFICES ASSUME Types, Remaining, [Next]_vars PROVE Remaining'
  OBVIOUS
<1>1. CASE wait' = wait /\ signalled \subseteq signalled'
  <2>1. Fence' = Fence
    BY DEF Fence
  <2> HIDE DEF Fence
  <2> QED BY <1>1, <2>1 DEF Remaining
<1>2. CASE ReceiveFds /\ wait' = StartOfWait
  <2>1. /\ wait'.remaining = NumFences /\ wait'.seen = {}
        /\ wait'.polled = [i \in Fence |-> i]
    BY <1>2, StartTyped, TimeoutNat
  <2>2. Fence = 1 .. NumFences /\ Fence' = Fence /\ Cardinality(Fence) = NumFences
    BY FenceFinite DEF Fence
  <2>3. Fence \ wait'.seen = Fence /\ \A k \in Fence : wait'.polled[k] = k
    BY <2>1
  <2> HIDE DEF Fence
  <2> QED BY <2>1, <2>2, <2>3 DEF Remaining
<1>3. CASE PollReturns
  <2>1. CASE Remaining'
    BY <2>1
  <2>2. CASE wait' = wait
    <3>1. signalled' = signalled
      BY <1>3 DEF PollReturns
    <3> QED BY <1>1, <2>2, <3>1
  <2> QED BY <1>3, <2>1, <2>2, PollStep
<1> QED BY <1>1, <1>2, <1>3, WaitSteps

LEMMA FirstRoundKept ==
  Types /\ Remaining /\ FirstRound /\ [Next]_vars => FirstRound'
<1> SUFFICES ASSUME Types, Remaining, FirstRound, [Next]_vars PROVE FirstRound'
  OBVIOUS
<1> USE DEF hostVars, guestVars
<1>1. ASSUME guest \notin {"idle", "recv"}
      PROVE  guest' \notin {"idle", "recv"} /\ request' = request
  <2>1. ASSUME NEW f \in Fence, Signal(f)
        PROVE  UNCHANGED <<guest, request>>
    BY <2>1 DEF Signal
  <2>2. ASSUME NEW t \in Timeouts, NEW all \in BOOLEAN, Call(t, all)
        PROVE  FALSE
    BY <1>1, <2>2 DEF Call
  <2>3. ASSUME HostStep \/ SetExit \/ HostEnds \/ Tick \/ UNCHANGED vars
        PROVE  UNCHANGED <<guest, request>>
    <3>1. ASSUME NEW k \in Fence, Export(k)
          PROVE  UNCHANGED <<guest, request>>
      BY <3>1 DEF Export
    <3>2. CASE \/ Query \/ ExportFails \/ SendFds \/ SendFails \/ CloseFds \/ SetExit \/ HostEnds \/ Tick
               \/ UNCHANGED vars
      BY <3>2 DEF Query, ExportFails, SendFds, SendFails, CloseFds, SetExit, HostEnds, Tick, vars
    <3> QED BY <2>3, <3>1, <3>2 DEF HostStep
  <2>4. CASE PollReturns
    BY <1>1, <2>4, PollStep DEF PollReturns
  <2>5. CASE ReceiveStatus \/ ReceiveFds \/ ReceiveEnd \/ Expires \/ PollFails
    BY <2>5 DEF ReceiveStatus, ReceiveFds, ReceiveEnd, Expires, PollFails, Return
  <2> QED BY <1>1, <2>1, <2>2, <2>3, <2>4, <2>5 DEF Next, GuestStep
<1>2. wait' = wait \/ wait'.seen = {} \/ (PollReturns /\ ~FirstIsEnough)
  <2>1. CASE wait' = StartOfWait
    BY <2>1, StartTyped, TimeoutNat
  <2>2. CASE PollReturns
    BY <2>2, PollStep
  <2> QED BY <2>1, <2>2, WaitSteps
<1>3. CASE guest \in {"idle", "recv"}
  <2>1. ~PollReturns
    BY <1>3 DEF PollReturns
  <2> QED BY <1>2, <1>3, <2>1 DEF FirstRound
<1>4. CASE guest \notin {"idle", "recv"}
  <2>1. FirstIsEnough' = FirstIsEnough
    BY <1>1, <1>4 DEF FirstIsEnough
  <2> QED BY <1>1, <1>2, <1>4, <2>1 DEF FirstRound
<1> QED BY <1>3, <1>4

\* A round that takes the limit is paid for by the descriptors it notices.
LEMMA RoundTime ==
  ASSUME NEW n \in Nat, NEW r \in Nat, NEW s \in Nat, NEW m \in Nat, s < r, r <= n
  PROVE  (n - r) * m + m <= (n - s) * m
<1>1. PICK d \in Nat : r = s + 1 + d
  <2>1. r - s - 1 \in Nat /\ r = s + 1 + (r - s - 1)
    OBVIOUS
  <2> QED BY <2>1
<1>2. n - s = (n - r) + 1 + d /\ n - r \in Nat
  BY <1>1
<1>3. PICK a \in Nat : a = n - r
  BY <1>2
<1>4. (a + 1 + d) * m = a * m + m + d * m
  BY <1>3
<1>5. d * m \in Nat /\ a * m \in Nat
  BY <1>1, <1>3
<1> QED BY <1>2, <1>3, <1>4, <1>5

LEMMA TimingKept ==
  Types /\ Types' /\ Remaining /\ Exchange /\ Timing /\ [Next]_vars => Timing'
<1> SUFFICES ASSUME Types, Types', Remaining, Exchange, Timing, [Next]_vars PROVE Timing'
  OBVIOUS
<1> USE DEF hostVars, guestVars
<1>0. /\ NumFences \in Nat /\ wait.remaining \in Nat /\ wait.remaining <= NumFences
      /\ wait.limit \in Int /\ (wait.limit # -1 => wait.limit \in Nat \ {0})
      /\ clock.round \in Nat /\ clock.total \in Nat
  <2>1. NumFences \in Nat /\ wait.remaining \in Nat /\ wait.remaining <= NumFences
    BY FencesAssumption DEF Types, WaitSet, Fence
  <2>2. clock.round \in Nat /\ clock.total \in Nat /\ wait.limit \in LimitSet
    BY DEF Types, WaitSet
  <2>3. Modulus \div 2 \in Int
    BY TimeoutAssumption
  <2> QED BY <2>1, <2>2, <2>3 DEF LimitSet
<1> DEFINE L == Limit(Millis(request.timeout))
<1>1. CASE UNCHANGED <<request, guest, wait, clock, result>>
  <2>1. L' = L
    BY <1>1 DEF Limit, Millis, AsInt
  <2> HIDE DEF L
  <2> QED BY <1>1, <2>1 DEF Timing, L
<1>2. CASE UNCHANGED vars
  BY <1>1, <1>2 DEF vars
<1>3. ASSUME NEW f \in Fence, Signal(f)
      PROVE  Timing'
  BY <1>1, <1>3 DEF Signal
<1>4. ASSUME NEW t \in Timeouts, NEW all \in BOOLEAN, Call(t, all)
      PROVE  Timing'
  <2>1. guest = "idle" /\ guest' = "recv" /\ UNCHANGED <<wait, clock, result>> /\ result = "none"
    BY <1>4 DEF Call, Exchange
  <2> QED BY <1>0, <2>1 DEF Timing
<1>5. ASSUME HostStep \/ SetExit \/ HostEnds
      PROVE  Timing'
  <2>1. ASSUME NEW k \in Fence, Export(k)
        PROVE  Timing'
    BY <1>1, <2>1 DEF Export
  <2>2. CASE Query \/ ExportFails \/ SendFds \/ SendFails \/ CloseFds \/ SetExit \/ HostEnds
    BY <1>1, <2>2 DEF Query, ExportFails, SendFds, SendFails, CloseFds, SetExit, HostEnds
  <2> QED BY <1>5, <2>1, <2>2 DEF HostStep
<1>6. CASE ReceiveStatus \/ ReceiveEnd
  <2>1. guest = "recv" /\ guest' = "done" /\ UNCHANGED <<request, wait, clock>>
    BY <1>6 DEF ReceiveStatus, ReceiveEnd
  <2>2. result' = "timeout" => request'.timeout = 0
    BY <1>6 DEF ReceiveStatus, ReceiveEnd, Exchange
  <2>3. L' = L
    BY <2>1 DEF Limit, Millis, AsInt
  <2> HIDE DEF L
  <2> QED BY <1>0, <2>1, <2>2, <2>3 DEF Timing, L
<1>7. CASE ReceiveFds
  <2>1. guest = "recv" /\ guest' \in {"poll", "done"} /\ UNCHANGED <<request, clock>>
    BY <1>7 DEF ReceiveFds
  <2>2. clock.total = 0 /\ clock.round = 0
    BY <1>0, <2>1 DEF Timing
  <2>3. result' # "timeout"
    BY <1>7, <2>1 DEF ReceiveFds, Exchange
  <2>4. CASE wait' = wait /\ guest' = "done"
    BY <1>0, <2>1, <2>2, <2>3, <2>4 DEF Timing
  <2>5. CASE wait' = StartOfWait
    <3>1. wait'.limit = L /\ wait'.remaining = NumFences /\ wait'.limit \in LimitSet
      BY <2>5, StartTyped, TimeoutNat DEF WaitSet
    <3>2. L' = L
      BY <2>1 DEF Limit, Millis, AsInt
    <3>3. (NumFences - NumFences) * wait'.limit = 0 /\ wait'.limit >= -1
      BY <1>0, <3>1, TimeoutAssumption, Division DEF LimitSet
    <3>4. wait'.limit # -1 => wait'.limit \in Nat \ {0}
      BY <3>1, TimeoutAssumption, Division DEF LimitSet
    <3> HIDE DEF L
    <3> QED BY <2>1, <2>2, <2>3, <3>1, <3>2, <3>3, <3>4 DEF Timing, L
  <2> QED BY <1>7, <2>4, <2>5 DEF ReceiveFds
<1>8. CASE Expires \/ PollFails
  <2>1. guest = "poll" /\ guest' = "done" /\ UNCHANGED <<request, wait, clock>>
    BY <1>8 DEF Expires, PollFails, Return
  <2>2. L' = L /\ wait.limit = L
    BY <2>1 DEF Limit, Millis, AsInt, Timing
  <2>3. result' = "timeout" => wait.limit = clock.round
    BY <1>8 DEF Expires, PollFails, Return
  <2>4. result' = "timeout" => L \in 1 .. clock.total
    BY <1>0, <2>2, <2>3 DEF Timing
  <2> HIDE DEF L
  <2> QED BY <1>0, <2>1, <2>2, <2>4 DEF Timing, L
<1>9. CASE PollReturns
  <2>1. guest = "poll" /\ UNCHANGED request
    BY <1>9 DEF PollReturns
  <2>2. L' = L /\ wait.limit = L /\ wait'.limit = wait.limit
    BY <1>9, <2>1, PollStep DEF Limit, Millis, AsInt, Timing
  <2>3. clock'.round = 0 /\ clock'.total = clock.total
    BY <1>9, PollStep
  <2>4. result = "none"
    BY <2>1 DEF Exchange
  <2>5. CASE wait' = wait /\ guest' = "done" /\ result' = "success"
    <3> HIDE DEF L
    <3> QED BY <1>0, <2>1, <2>2, <2>3, <2>5 DEF Timing, L
  <2>6. CASE UNCHANGED <<guest, guestFds, result>> /\ wait'.remaining < wait.remaining
    <3>1. wait'.remaining \in Nat
      BY <1>9, PollStep DEF WaitSet, Fence
    <3>2. wait.limit # -1 =>
            (NumFences - wait.remaining) * wait.limit + wait.limit
              <= (NumFences - wait'.remaining) * wait.limit
      BY <1>0, <2>6, <3>1, RoundTime
    <3>3. PICK m, a, b : /\ m = wait.limit /\ a = (NumFences - wait.remaining) * wait.limit
                         /\ b = (NumFences - wait'.remaining) * wait.limit
      OBVIOUS
    <3>4. a \in Int /\ b \in Int
      BY <1>0, <3>1, <3>3
    <3>5. wait.limit # -1 => clock.total <= b
      BY <1>0, <2>1, <3>2, <3>3, <3>4 DEF Timing
    <3> HIDE DEF L
    <3> QED BY <1>0, <2>1, <2>2, <2>3, <2>4, <2>6, <3>3, <3>4, <3>5 DEF Timing, L
  <2> QED BY <1>9, <2>5, <2>6, PollStep
<1>10. CASE Tick
  <2>1. /\ guest = "poll" /\ UNCHANGED <<request, guest, wait, result>>
        /\ clock.round < wait.limit
        /\ clock'.round = clock.round + 1 /\ clock'.total = clock.total + 1
    BY <1>10 DEF Tick
  <2>2. L' = L /\ result = "none"
    BY <2>1 DEF Limit, Millis, AsInt, Exchange
  <2>3. (NumFences - wait.remaining) * wait.limit \in Int
    BY <1>0
  <2> HIDE DEF L
  <2> QED BY <1>0, <2>1, <2>2, <2>3 DEF Timing, L
<1> QED BY <1>2, <1>3, <1>4, <1>5, <1>6, <1>7, <1>8, <1>9, <1>10 DEF Next, GuestStep
-----------------------------------------------------------------------------
LEMMA StepKeepsIInv == IInv /\ [Next]_vars => IInv'
<1> SUFFICES ASSUME IInv, [Next]_vars PROVE IInv'
  OBVIOUS
<1>1. Types' /\ Remaining'
  BY TypesKept, RemainingKept DEF IInv
<1>2. Exchange' /\ Closes' /\ FirstRound'
  BY <1>1, ExchangeKept, ClosesKept, FirstRoundKept DEF IInv
<1>3. Outcome' /\ Timing'
  BY <1>1, OutcomeKept, TimingKept DEF IInv
<1> QED BY <1>1, <1>2, <1>3 DEF IInv

\* The invariant of a call: one answer, pfds as the loop needs them, and the
\* time the rounds took (waitForEvents, events.h:43).
THEOREM InductiveInvariant == Spec => []IInv
<1>1. Init => IInv
  BY InitIInv
<1>2. IInv /\ [Next]_vars => IInv'
  BY StepKeepsIInv
<1> QED BY <1>1, <1>2, PTL DEF Spec

\* A limited wait gets a limit that fits an int, takes no longer than its
\* timeout for each fence, and less than a millisecond less than its timeout.
LEMMA IInvTime == IInv => TimeHonoured
<1> SUFFICES ASSUME IInv PROVE TimeHonoured
  OBVIOUS
<1> DEFINE L  == Limit(Millis(request.timeout))
           h  == Modulus \div 2
           ms == request.timeout \div UnitsPerMs
<1>1. Types /\ Timing /\ request.timeout \in Nat
  BY TimeoutNat DEF IInv
<1>2. /\ Modulus \in Nat \ {0} /\ h \in Nat /\ h <= Modulus
  BY TimeoutAssumption, Division
<1>3. L \in {-1} \cup 1 .. h /\ (Limited => L \in {-1, ms} /\ ms \in 1 .. h - 1)
  BY <1>1, LimitFits DEF LimitSet, Limited
<1>4. /\ NumFences \in Nat \ {0} /\ wait.remaining \in 1 .. NumFences
      /\ wait.limit \in {-1} \cup 1 .. h /\ clock.round \in Nat /\ clock.total \in Nat
  BY <1>1, FencesAssumption DEF Types, WaitSet, Fence, LimitSet
<1>5. clock.round <= clock.total
  BY <1>1 DEF Timing
<1>6. clock.total > 0 => wait.limit = L /\ wait.limit # -1
  BY <1>1, <1>4 DEF Timing
<1>7. wait.limit # -1 => clock.round <= wait.limit /\ clock.total <= NumFences * wait.limit
  <2> SUFFICES ASSUME wait.limit # -1
               PROVE  clock.round <= wait.limit /\ clock.total <= NumFences * wait.limit
    OBVIOUS
  <2>1. (NumFences - wait.remaining) * wait.limit + wait.limit
          <= (NumFences - 0) * wait.limit
    BY <1>2, <1>4, RoundTime
  <2>2. NumFences * wait.limit \in Int /\ (NumFences - wait.remaining) * wait.limit \in Int
        /\ NumFences - 0 = NumFences
    BY <1>2, <1>4
  <2>3. PICK a, b : /\ a = (NumFences - wait.remaining) * wait.limit
                    /\ b = NumFences * wait.limit
    OBVIOUS
  <2>4. clock.round <= wait.limit
        /\ clock.total <= a + (IF guest = "poll" THEN clock.round ELSE wait.limit)
    BY <1>1, <2>3 DEF Timing
  <2>5. clock.total <= b
    BY <1>2, <1>4, <2>1, <2>2, <2>3, <2>4
  <2> QED BY <2>3, <2>4, <2>5
<1>8. clock.round \in 0 .. Modulus /\ clock.total \in clock.round .. (NumFences * Modulus)
  <2>1. CASE clock.total = 0
    <3>1. NumFences * Modulus \in Nat
      BY <1>2, <1>4
    <3>2. clock.round = 0
      BY <1>4, <1>5, <2>1
    <3> QED BY <1>2, <2>1, <3>1, <3>2
  <2>2. CASE clock.total > 0
    <3>1. wait.limit \in Nat /\ wait.limit <= Modulus /\ wait.limit # -1
      BY <1>2, <1>4, <1>6, <2>2
    <3>2. NumFences * wait.limit <= NumFences * Modulus
      <4>1. PICK d \in Nat : Modulus = wait.limit + d
        <5>1. Modulus - wait.limit \in Nat /\ Modulus = wait.limit + (Modulus - wait.limit)
          BY <1>2, <3>1
        <5> QED BY <5>1
      <4>2. NumFences * (wait.limit + d) = NumFences * wait.limit + NumFences * d
        BY <1>4, <3>1, <4>1
      <4>3. NumFences * d \in Nat /\ NumFences * wait.limit \in Nat
        BY <1>4, <3>1, <4>1
      <4> QED BY <4>1, <4>2, <4>3
    <3>3. NumFences * wait.limit \in Nat /\ NumFences * Modulus \in Nat
      BY <1>2, <1>4, <3>1
    <3>4. clock.round <= wait.limit /\ clock.total <= NumFences * wait.limit
      BY <1>7, <3>1
    <3>5. clock.round \in 0 .. Modulus
      BY <1>2, <1>4, <3>1, <3>4
    <3>6. PICK a, b : a = NumFences * wait.limit /\ b = NumFences * Modulus
      OBVIOUS
    <3>7. a \in Nat /\ b \in Nat /\ a <= b /\ clock.total <= a
      BY <3>2, <3>3, <3>4, <3>6
    <3>8. clock.total \in clock.round .. b
      BY <1>4, <1>5, <3>7
    <3> QED BY <3>5, <3>6, <3>8
  <2> QED BY <1>4, <2>1, <2>2
<1>9. TypeOK
  <2>1. wait.limit \in {-1} \cup 1 .. (Modulus \div 2)
    BY <1>4
  <2>2. /\ wait.polled \in [Fence -> Fence]
        /\ wait.remaining \in Fence /\ wait.seen \subseteq Fence
    BY <1>1 DEF Types, WaitSet
  <2> QED BY <1>1, <1>8, <2>1, <2>2 DEF Types, TypeOK
<1>10. Limited => clock.total <= NumFences * ms
  <2> SUFFICES ASSUME Limited PROVE clock.total <= NumFences * ms
    OBVIOUS
  <2>1. ms \in Nat
    BY <1>2, <1>3
  <2>2. CASE clock.total = 0
    <3>1. NumFences * ms \in Nat
      BY <1>4, <2>1
    <3> HIDE DEF ms
    <3> QED BY <2>2, <3>1
  <2>3. CASE clock.total > 0
    <3>1. wait.limit = ms /\ wait.limit # -1
      BY <1>3, <1>6, <2>3
    <3> HIDE DEF ms
    <3> QED BY <1>7, <3>1
  <2> QED BY <1>4, <2>2, <2>3
<1>11. Limited => (guest = "done" /\ result = "timeout" => clock.total >= ms)
  <2> SUFFICES ASSUME Limited, result = "timeout" PROVE clock.total >= ms
    OBVIOUS
  <2>1. ms \in 1 .. h - 1 /\ L \in {-1, ms}
    BY <1>3
  <2>2. request.timeout # 0
    <3>1. 0 \div UnitsPerMs = 0
      BY TimeoutAssumption, Division
    <3> QED BY <2>1, <3>1
  <2>3. L \in 1 .. clock.total
    BY <1>1, <2>2 DEF Timing
  <2> HIDE DEF L, ms
  <2> QED BY <1>2, <1>4, <2>1, <2>3
<1>12. Limited => clock.total * UnitsPerMs <= NumFences * request.timeout
  <2> SUFFICES ASSUME Limited
               PROVE  clock.total * UnitsPerMs <= NumFences * request.timeout
    OBVIOUS
  <2>1. PICK q \in Nat : q = ms /\ clock.total <= NumFences * q
    BY <1>2, <1>3, <1>10
  <2>2. PICK u \in Nat \ {0} : u = UnitsPerMs
    BY TimeoutAssumption
  <2>3. PICK n \in Nat : n = NumFences
    BY <1>4
  <2>4. PICK t \in Nat : t = request.timeout
    BY <1>1
  <2>5. q * u <= t /\ q * u \in Nat
    BY <2>1, <2>2, <2>4, Quotient
  <2>6. n * q \in Nat /\ (n * q) * u = (q * u) * n
    BY <2>1, <2>2, <2>3
  <2>7. clock.total * u <= (n * q) * u
    BY <1>4, <2>1, <2>2, <2>3, <2>6, Scale
  <2>8. (q * u) * n <= t * n
    BY <2>3, <2>4, <2>5, Scale
  <2>9. PICK a, b, c : a = clock.total * u /\ b = (n * q) * u /\ c = t * n
    OBVIOUS
  <2>10. a \in Int /\ b \in Int /\ c \in Int /\ t * n = n * t
    BY <1>4, <2>1, <2>2, <2>3, <2>4, <2>6, <2>9
  <2>11. a <= b /\ b <= c
    BY <2>6, <2>7, <2>8, <2>9
  <2>12. a <= c
    BY <2>10, <2>11
  <2> QED BY <2>2, <2>3, <2>4, <2>9, <2>10, <2>12
<1>13. Limited => (guest = "done" /\ result = "timeout" =>
                     (clock.total + 1) * UnitsPerMs > request.timeout)
  <2> SUFFICES ASSUME Limited, guest = "done", result = "timeout"
               PROVE  (clock.total + 1) * UnitsPerMs > request.timeout
    OBVIOUS
  <2>1. PICK q \in Nat : q = ms /\ clock.total >= q
    BY <1>2, <1>3, <1>11
  <2>2. PICK u \in Nat \ {0} : u = UnitsPerMs
    BY TimeoutAssumption
  <2>3. PICK t \in Nat : t = request.timeout
    BY <1>1
  <2>4. t < (q + 1) * u
    BY <2>1, <2>2, <2>3, Quotient
  <2>5. (q + 1) * u <= (clock.total + 1) * u
    BY <1>4, <2>1, <2>2, Scale
  <2>6. (q + 1) * u \in Int /\ (clock.total + 1) * u \in Int
    BY <1>4, <2>1, <2>2
  <2>7. PICK a, b : a = (q + 1) * u /\ b = (clock.total + 1) * u
    OBVIOUS
  <2>8. b > t
    BY <2>3, <2>4, <2>5, <2>6, <2>7
  <2> QED BY <2>2, <2>3, <2>7, <2>8
<1> QED BY <1>9, <1>12, <1>13 DEF TimeHonoured

\* A wait with a timeout of at least a millisecond that fits an int takes no
\* longer than the timeout asked for once for each fence, and VK_TIMEOUT is
\* early by less than a millisecond (vulkan_calls.c:607, events.h:53).
THEOREM TimeBound == Spec => []TimeHonoured
BY InductiveInvariant, IInvTime, PTL

\* A call that returned, and a handler that returned, left no descriptor open,
\* but for the failure whose descriptors the guest keeps (vulkan_calls.c:606).
THEOREM NoLeak == Spec => []DescriptorsClosed
<1>1. IInv => DescriptorsClosed
  BY DEF IInv, Closes, DescriptorsClosed
<1> QED BY <1>1, InductiveInvariant, PTL

\* What a call returns is true: of VK_SUCCESS the invariant says it, and of
\* VK_TIMEOUT it follows from what poll was last asked about.
THEOREM TrueOutcome == Spec => OutcomeIsTrue
<1> DEFINE A == /\ result' = "success" => Satisfied'
                /\ guest = "poll" /\ result' = "timeout" => ~Satisfied
<1>1. IInv /\ IInv' /\ [Next]_vars => [A]_vars
  <2> SUFFICES ASSUME IInv, IInv', [Next]_vars PROVE A
    OBVIOUS
  <2>1. result' = "success" => Satisfied'
    BY DEF IInv, Outcome
  <2>2. ASSUME guest = "poll", result' = "timeout"
        PROVE  ~Satisfied
    <3>1. result = "none"
      BY <2>2 DEF IInv, Exchange
    <3>2. Expires
      <4> USE DEF hostVars, guestVars
      <4>1. ASSUME NEW f \in Fence, Signal(f)
            PROVE  result' = result
        BY <4>1 DEF Signal
      <4>2. ASSUME NEW t \in Timeouts, NEW all \in BOOLEAN, Call(t, all)
            PROVE  result' = result
        BY <4>2 DEF Call
      <4>3. ASSUME HostStep \/ SetExit \/ HostEnds \/ Tick \/ UNCHANGED vars
            PROVE  result' = result
        <5>1. ASSUME NEW k \in Fence, Export(k)
              PROVE  result' = result
          BY <5>1 DEF Export
        <5>2. CASE \/ Query \/ ExportFails \/ SendFds \/ SendFails \/ CloseFds \/ SetExit \/ HostEnds \/ Tick
                   \/ UNCHANGED vars
          BY <5>2 DEF Query, ExportFails, SendFds, SendFails, CloseFds, SetExit, HostEnds, Tick, vars
        <5> QED BY <4>3, <5>1, <5>2 DEF HostStep
      <4>4. CASE ReceiveStatus \/ ReceiveFds \/ ReceiveEnd
        BY <2>2, <4>4 DEF ReceiveStatus, ReceiveFds, ReceiveEnd
      <4>5. CASE PollReturns
        <5>1. result' \in {result, "success"}
          BY <4>5, PollStep DEF IInv
        <5> QED BY <2>2, <3>1, <5>1
      <4>6. CASE PollFails
        BY <2>2, <4>6 DEF PollFails, Return
      <4> QED BY <2>2, <3>1, <4>1, <4>2, <4>3, <4>4, <4>5, <4>6 DEF Next, GuestStep
    <3> QED BY <2>2, <3>2, PollGivesUp DEF IInv, Expires
  <2> QED BY <2>1, <2>2
<1>2. Spec => [][Next]_vars
  BY DEF Spec
<1> QED BY <1>1, <1>2, InductiveInvariant, PTL DEF OutcomeIsTrue
=============================================================================
