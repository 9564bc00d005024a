-------------------------- MODULE XServerCoreProofs --------------------------
(***************************************************************************)
(* Theorems about XServerCore for any clients, any number of windows and   *)
(* any event masks.  The windows are a tree, which Reachable, a greatest   *)
(* set, does not say by itself: TopFirst does, and with it a window that   *)
(* is destroyed takes no ancestor with it.                                 *)
(***************************************************************************)
EXTENDS XServerCore, WellFoundedInduction, TLAPS

ClientTypes ==
  /\ status \in [Clients -> {"new", "connected", "gone"}]
  /\ base \in [Clients -> Bases \union {NoBase}]
  /\ idBases \subseteq Bases \union {NoBase}
  /\ resources \in [Clients -> SUBSET (1 .. MaxWindows)]
  /\ freeing \in Clients \union {NoClient}
  /\ freeing # NoClient => freeing \in Connected

\* The root has no parent, every other window has one.
TreeTypes ==
  /\ created \in 0 .. MaxWindows
  /\ windows \subseteq 0 .. created
  /\ parent \in [Windows -> Windows \union {NoWindow}]
  /\ origin \in [Windows -> Clients \union {NoClient}]
  /\ Root \in mapped /\ mapped \subseteq windows
  /\ parent[Root] = NoWindow
  /\ \A w \in windows : w = Root \/ parent[w] \in windows

EventTypes ==
  /\ listeners \in [Clients -> [Windows -> Masks]]
  /\ selected \in [Clients -> [Windows -> Masks]]
  /\ deselected \subseteq Clients \X Windows

FocusTypes ==
  /\ focus \in Windows \union {NoWindow}
  /\ revertTo \in {"NONE", "POINTER_ROOT", "PARENT"}
  /\ pointWindow \in Windows
  /\ buttons \in BOOLEAN
  /\ grab \in [window : Windows \union {NoWindow},
               client : Clients \union {NoClient}, auto : BOOLEAN]
  /\ selection \in [owner : Windows \union {NoWindow},
                    client : Clients \union {NoClient}]
  /\ escaped \in BOOLEAN

\* There is no cycle: of any windows one is the topmost.
TopFirst ==
  \A S \in SUBSET windows :
     S # {} => \E w \in S : w = Root \/ parent[w] \notin S

\* A client whose listener is gone from a window while its table still has
\* one has deselected it.
StaleEntries ==
  \A c \in Clients, w \in Windows :
     selected[c][w] # {} /\ listeners[c][w] = {} => <<c, w>> \in deselected

\* No client listens to a window before it is created; after it is destroyed
\* one may.
Unborn == \A c \in Clients, w \in Windows : w > created => listeners[c][w] = {}

\* The inductive invariant.
IInv ==
  /\ ClientTypes /\ TreeTypes /\ EventTypes /\ FocusTypes
  /\ TopFirst /\ Unborn /\ NoDanglingReference
  /\ NothingLeftBehind
  /\ ListenersAreConnected /\ StaleEntries /\ ExclusiveUnlessDeselected
-----------------------------------------------------------------------------
(* The tree *)

\* Reachable, of any tree
ReachableIn(p, M) ==
  UNION {S \in SUBSET M : \A w \in S : w = Root \/ p[w] \in S}

LEMMA ReachableIs ==
  /\ \A M : Reachable(M) = ReachableIn(parent, M)
  /\ Viewable = ReachableIn(parent, mapped)
  /\ Viewable' = ReachableIn(parent', mapped')
  BY DEF Reachable, ReachableIn, Viewable

\* The largest part of M that is closed under parent.
LEMMA ReachableClosed ==
  ASSUME NEW p, NEW M
  PROVE  /\ ReachableIn(p, M) \subseteq M
         /\ \A w \in ReachableIn(p, M) : w = Root \/ p[w] \in ReachableIn(p, M)
         /\ \A S \in SUBSET M :
              (\A w \in S : w = Root \/ p[w] \in S) => S \subseteq ReachableIn(p, M)
  BY DEF ReachableIn

LEMMA SubtreeIn == \A t : Subtree(t) \subseteq windows
  BY DEF Subtree

\* A subtree has its top, everything below what it has, and nothing else: not
\* the root and not the parent of its top.
LEMMA SubtreeIs ==
  ASSUME TreeTypes, TopFirst, NEW t \in windows \ {Root}
  PROVE  /\ t \in Subtree(t) /\ Root \notin Subtree(t)
         /\ \A w \in windows \ Subtree(t) : w = Root \/ parent[w] \in windows \ Subtree(t)
         /\ parent[t] \in windows \ Subtree(t)
<1> DEFINE R == ReachableIn(parent, windows \ {t})
           D == Subtree(t)
<1>1. D = windows \ R
  BY ReachableIs DEF Subtree
<1>2. /\ R \subseteq windows \ {t}
      /\ \A w \in R : w = Root \/ parent[w] \in R
      /\ \A S \in SUBSET (windows \ {t}) :
           (\A w \in S : w = Root \/ parent[w] \in S) => S \subseteq R
  BY ReachableClosed
<1>3. Root \in windows /\ \A w \in windows : w = Root \/ parent[w] \in windows
  BY DEF TreeTypes
<1> HIDE DEF R, D
<1>4. {Root} \subseteq R
  <2>1. {Root} \in SUBSET (windows \ {t}) /\ \A w \in {Root} : w = Root \/ parent[w] \in {Root}
    BY <1>3
  <2> QED BY <1>2, <2>1
<1>5. t \in D /\ Root \notin D
  BY <1>1, <1>2, <1>4
<1>6. ASSUME NEW w \in D, w # t
      PROVE  parent[w] \in D
  <2>1. SUFFICES ASSUME parent[w] \in R PROVE FALSE
    BY <1>1, <1>3, <1>5
  <2>2. R \union {w} \in SUBSET (windows \ {t})
    BY <1>1, <1>2, <1>6
  <2>3. \A v \in R \union {w} : v = Root \/ parent[v] \in R \union {w}
    BY <1>2, <2>1
  <2>4. w \in R
    BY <1>2, <2>2, <2>3
  <2> QED BY <1>1, <2>4
<1>7. PICK w \in D : w = Root \/ parent[w] \notin D
  <2>1. D \in SUBSET windows /\ D # {}
    BY <1>1, <1>5
  <2> QED BY <2>1 DEF TopFirst
<1>8. parent[t] \in windows \ D
  BY <1>3, <1>5, <1>6, <1>7
<1>9. \A v \in windows \ D : v = Root \/ parent[v] \in windows \ D
  BY <1>1, <1>2
<1> QED BY <1>5, <1>8, <1>9 DEF D

\* What can be seen before a window is destroyed that is not mapped itself is
\* not below it.
LEMMA HiddenSubtree ==
  ASSUME TreeTypes, NEW t, t \notin mapped
  PROVE  Viewable \cap Subtree(t) = {}
<1> DEFINE V == ReachableIn(parent, mapped)
           R == ReachableIn(parent, windows \ {t})
<1>1. V \subseteq mapped /\ \A w \in V : w = Root \/ parent[w] \in V
  BY ReachableClosed
<1>2. \A S \in SUBSET (windows \ {t}) :
        (\A w \in S : w = Root \/ parent[w] \in S) => S \subseteq R
  BY ReachableClosed
<1>3. Viewable = V /\ Subtree(t) = windows \ R
  BY ReachableIs DEF Subtree
<1>4. V \subseteq windows \ {t}
  BY <1>1 DEF TreeTypes
<1> HIDE DEF V, R
<1>5. V \subseteq R
  BY <1>1, <1>2, <1>4
<1> QED BY <1>3, <1>5

LEMMA ViewableIn ==
  /\ Viewable \subseteq mapped /\ Viewable' \subseteq mapped'
  /\ \A w \in Viewable : w = Root \/ parent[w] \in Viewable
  BY ReachableIs, ReachableClosed

\* What stays mapped below what stays mapped stays viewable.
LEMMA StaysViewable ==
  ASSUME Viewable \subseteq mapped', \A w \in Viewable : parent'[w] = parent[w]
  PROVE  Viewable \subseteq Viewable'
<1>1. \A w \in Viewable : w = Root \/ parent'[w] \in Viewable
  BY ViewableIn
<1>2. Viewable' = ReachableIn(parent', mapped')
  BY ReachableIs
<1>3. \A S \in SUBSET mapped' :
        (\A w \in S : w = Root \/ parent'[w] \in S) => S \subseteq ReachableIn(parent', mapped')
  BY ReachableClosed
<1>4. PICK V : V = Viewable
  OBVIOUS
<1>5. V \in SUBSET mapped' /\ \A w \in V : w = Root \/ parent'[w] \in V
  BY <1>1, <1>4
<1>6. V \subseteq ReachableIn(parent', mapped')
  BY <1>3, <1>5
<1> QED BY <1>2, <1>4, <1>6
-----------------------------------------------------------------------------
(* The destruction of a window *)

\* The tree that is left, and who no longer refers to the rest.
LEMMA DestroyTree ==
  ASSUME TreeTypes, TopFirst, FocusTypes, NoDanglingReference,
         NEW t \in windows \ {Root}, Destroy(t)
  PROVE  /\ TreeTypes' /\ TopFirst'
         /\ focus' \in windows' \union {NoWindow} /\ pointWindow' \in windows'
         /\ selection' \in {selection, NoSelection}
         /\ selection'.owner \in windows' \union {NoWindow}
         /\ grab' \in {grab, NoGrab} /\ UNCHANGED <<revertTo, buttons>>
<1> DEFINE D == Subtree(t)
<1>1. /\ t \in D /\ Root \notin D /\ D \subseteq windows
      /\ \A w \in windows \ D : w = Root \/ parent[w] \in windows \ D
      /\ parent[t] \in windows \ D
  BY SubtreeIs, SubtreeIn
<1>2. /\ windows' = windows \ D /\ mapped' = mapped \ D
      /\ parent' = [w \in Windows |-> IF w \in D THEN NoWindow ELSE parent[w]]
      /\ focus' = IF focus \in D THEN Reverted(t) ELSE focus
      /\ grab' = GrabAfterUnmap(t)
      /\ selection' = IF selection.owner \in D THEN NoSelection ELSE selection
      /\ pointWindow' \in Viewable'
      /\ UNCHANGED <<created, origin, revertTo, buttons>>
  BY DEF Destroy, Removes, FocusAfterDestroy, SelectionAfterFree, UpdatePointWindow
<1> HIDE DEF D
<1>3. windows \subseteq Windows /\ Root \in Windows /\ Windows' = Windows
  BY XServerAssumption DEF TreeTypes, Windows, Root
<1>4. \A w \in windows' : parent'[w] = parent[w]
  BY <1>2, <1>3
<1>5. TreeTypes'
  <2>1. parent' \in [Windows -> Windows \union {NoWindow}]
    BY <1>2 DEF TreeTypes
  <2>2. parent'[Root] = NoWindow
    BY <1>1, <1>2, <1>3 DEF TreeTypes
  <2>3. \A w \in windows' : w = Root \/ parent'[w] \in windows'
    BY <1>1, <1>2, <1>4
  <2> QED BY <1>1, <1>2, <1>3, <2>1, <2>2, <2>3 DEF TreeTypes, Root
<1>6. TopFirst'
  BY <1>2, <1>4 DEF TopFirst, Root
<1>7. Reverted(t) \in windows' \union {NoWindow}
  <2>1. Root \in windows' /\ parent[t] \in windows' /\ parent[t] # NoWindow
    BY <1>1, <1>2, <1>3 DEF TreeTypes, Windows, NoWindow
  <2>2. revertTo \in {"NONE", "POINTER_ROOT", "PARENT"}
    BY DEF FocusTypes
  <2> QED BY <2>1, <2>2 DEF Reverted
<1>8. focus' \in windows' \union {NoWindow}
  BY <1>2, <1>7 DEF NoDanglingReference
<1>9. pointWindow' \in windows'
  BY <1>2, <1>5, ViewableIn DEF TreeTypes
<1>10. selection'.owner \in windows' \union {NoWindow}
  BY <1>2 DEF NoDanglingReference, NoSelection
<1>11. grab' \in {grab, NoGrab} /\ selection' \in {selection, NoSelection}
  BY <1>2 DEF GrabAfterUnmap
<1> QED BY <1>2, <1>5, <1>6, <1>8, <1>9, <1>10, <1>11

LEMMA DestroyKeepsIInv ==
  ASSUME IInv, NEW t \in windows \ {Root}, Destroy(t),
         UNCHANGED <<status, base, idBases, freeing>>, escaped' \in BOOLEAN
  PROVE  IInv'
<1> DEFINE D == Subtree(t)
<1>1. /\ windows' = windows \ D
      /\ \A c \in Clients : resources'[c] = resources[c] \ D
      /\ resources' \in [Clients -> SUBSET (1 .. MaxWindows)]
      /\ UNCHANGED origin
  BY DEF Destroy, Removes, OwnedAfterFree, IInv, ClientTypes
<1>2. /\ selected' = WithoutFreed(t) /\ UNCHANGED <<listeners, created>>
      /\ deselected' = {p \in deselected : p[2] \notin D}
  BY DEF Destroy, Removes
<1>3. {} \in Masks /\ Windows' = Windows /\ Connected' = Connected /\ Events' = Events
  BY XServerAssumption DEF Windows, Connected, Events
<1>4. listeners \in [Clients -> [Windows -> Masks]]
  BY DEF IInv, EventTypes
<1>5. /\ selected' \in [Clients -> [Windows -> Masks]]
      /\ \A c \in Clients, w \in Windows :
           selected'[c][w] = IF w \in D THEN {} ELSE selected[c][w]
  <2>1. selected' = [c \in Clients |-> [w \in Windows |-> IF w \in D THEN {} ELSE selected[c][w]]]
    BY <1>2 DEF WithoutFreed
  <2> HIDE DEF D
  <2> QED BY <1>3, <2>1 DEF IInv, EventTypes
<1>6. /\ TreeTypes' /\ TopFirst'
      /\ focus' \in windows' \union {NoWindow} /\ pointWindow' \in windows'
      /\ selection' \in {selection, NoSelection}
      /\ selection'.owner \in windows' \union {NoWindow}
      /\ grab' \in {grab, NoGrab} /\ UNCHANGED <<revertTo, buttons>>
  BY DestroyTree DEF IInv
<1> HIDE DEF D
<1>7. /\ \A c \in Clients, w \in Windows : <<c, w>> \in deselected /\ w \notin D => <<c, w>> \in deselected'
      /\ listeners' = listeners
  BY <1>2
<1>8. ClientTypes'
  BY <1>1, <1>3 DEF IInv, ClientTypes
<1>9. EventTypes'
  BY <1>2, <1>3, <1>4, <1>5 DEF IInv, EventTypes
<1>10. FocusTypes'
  <2>1. windows' \subseteq Windows
    BY <1>3, <1>6, XServerAssumption DEF TreeTypes, Windows
  <2>2. FocusTypes /\ escaped' \in BOOLEAN
    BY DEF IInv
  <2>3. focus' \in Windows \union {NoWindow} /\ pointWindow' \in Windows
    BY <1>6, <2>1
  <2>4. grab' \in [window : Windows \union {NoWindow},
                  client : Clients \union {NoClient}, auto : BOOLEAN]
    <3>1. NoGrab \in [window : Windows \union {NoWindow},
                     client : Clients \union {NoClient}, auto : BOOLEAN]
      BY DEF NoGrab
    <3> QED BY <1>6, <2>2, <3>1 DEF FocusTypes
  <2>5. selection' \in [owner : Windows \union {NoWindow}, client : Clients \union {NoClient}]
    BY <1>6, <2>2 DEF FocusTypes, NoSelection
  <2> QED BY <1>3, <1>6, <2>2, <2>3, <2>4, <2>5 DEF FocusTypes
<1>11. NoDanglingReference'
  BY <1>1, <1>6 DEF IInv, NoDanglingReference
<1>12. NothingLeftBehind'
  <2>1. NothingLeftBehind /\ UNCHANGED <<base, idBases>>
    BY DEF IInv
  <2>2. \A w \in windows' \ {Root} : /\ w \in windows \ {Root}
                                     /\ origin[w] \in Clients /\ w \in resources[origin[w]]
                                          => w \in resources'[origin'[w]]
    BY <1>1
  <2>3. Connected \subseteq Clients
    BY DEF Connected
  <2>4. \A w \in windows' \ {Root} : origin'[w] \in Connected /\ w \in resources'[origin'[w]]
    BY <1>1, <2>1, <2>2, <2>3 DEF NothingLeftBehind
  <2>5. \A c \in Connected : base[c] # NoBase =>
          /\ base'[c] \notin idBases'
          /\ \A d \in Connected \ {c} : base'[d] # base'[c]
    BY <2>1 DEF NothingLeftBehind
  <2> QED BY <1>3, <2>1, <2>4, <2>5 DEF NothingLeftBehind, Root, NoBase
<1>13. ListenersAreConnected' /\ Unborn'
  <2>1. windows \subseteq Windows
    BY XServerAssumption DEF IInv, TreeTypes, Windows
  <2>2. \A c \in Clients, w \in windows' :
          listeners'[c][w] # {} => selected'[c][w] = listeners'[c][w]
    BY <1>1, <1>5, <1>7, <2>1 DEF IInv, ListenersAreConnected
  <2>3. \A c \in Clients, w \in Windows :
          selected'[c][w] # {} => w \in windows' /\ c \in Connected'
    BY <1>1, <1>3, <1>5 DEF IInv, ListenersAreConnected
  <2>4. Unborn'
    BY <1>2, <1>3 DEF IInv, Unborn
  <2> QED BY <1>3, <2>2, <2>3, <2>4 DEF ListenersAreConnected
<1>14. StaleEntries'
  BY <1>3, <1>5, <1>7 DEF IInv, StaleEntries
<1>15. ExclusiveUnlessDeselected'
  <2>1. windows \subseteq Windows /\ windows' \subseteq windows
    BY <1>1, XServerAssumption DEF IInv, TreeTypes, Windows
  <2>2. ASSUME NEW w \in windows', NEW e \in Events, NEW c \in Clients, NEW d \in Clients,
               c # d, e \in listeners'[c][w], e \in listeners'[d][w]
        PROVE  <<c, w>> \in deselected' \/ <<d, w>> \in deselected'
    <3>1. w \in windows /\ w \in Windows /\ w \notin D
      BY <1>1, <2>1
    <3>2. e \in listeners[c][w] /\ e \in listeners[d][w]
      BY <1>7, <2>2
    <3> QED BY <1>7, <2>2, <3>1, <3>2 DEF IInv, ExclusiveUnlessDeselected
  <2> QED BY <1>3, <2>2 DEF ExclusiveUnlessDeselected
<1> QED BY <1>6, <1>8, <1>9, <1>10, <1>11, <1>12, <1>13, <1>14, <1>15 DEF IInv
-----------------------------------------------------------------------------
(* Clients come and go *)

LEMMA InitIInv == Init => IInv
<1> SUFFICES ASSUME Init PROVE IInv
  OBVIOUS
<1>1. {} \in Masks /\ MaxWindows \in Nat /\ Root \in Windows
  BY XServerAssumption DEF Windows, Root
<1>2. ClientTypes
  BY DEF Init, ClientTypes
<1>3. TreeTypes
  BY <1>1 DEF Init, TreeTypes, Root, Windows
<1>4. EventTypes
  BY <1>1 DEF Init, EventTypes
<1>5. FocusTypes
  BY <1>1 DEF Init, FocusTypes, NoGrab, NoSelection
<1>6. TopFirst
  BY DEF Init, TopFirst
<1>7. NoDanglingReference
  BY DEF Init, NoDanglingReference, NoSelection
<1>8. NothingLeftBehind
  BY DEF Init, NothingLeftBehind, Connected
<1>9. \A c \in Clients, w \in Windows : listeners[c][w] = {} /\ selected[c][w] = {}
  BY DEF Init
<1>10. windows \subseteq Windows
  BY <1>1 DEF Init
<1>11. ListenersAreConnected /\ StaleEntries /\ Unborn
  BY <1>9, <1>10 DEF ListenersAreConnected, StaleEntries, Unborn
<1>12. ExclusiveUnlessDeselected
  BY <1>9, <1>10 DEF ExclusiveUnlessDeselected
<1> QED BY <1>2, <1>3, <1>4, <1>5, <1>6, <1>7, <1>8, <1>11, <1>12 DEF IInv

\* Steps that leave all of this alone, except the types.
LEMMA Untouched ==
  ASSUME UNCHANGED <<created, windows, parent, listeners, selected, deselected>>,
         Connected \subseteq Connected'
  PROVE  /\ TopFirst => TopFirst'
         /\ Unborn => Unborn'
         /\ ListenersAreConnected => ListenersAreConnected'
         /\ StaleEntries => StaleEntries'
         /\ ExclusiveUnlessDeselected => ExclusiveUnlessDeselected'
<1>1. TopFirst => TopFirst'
  BY DEF TopFirst, Root
<1>2. ListenersAreConnected => ListenersAreConnected'
  BY DEF ListenersAreConnected, Windows
<1>3. StaleEntries => StaleEntries'
  BY DEF StaleEntries, Windows
<1>4. ExclusiveUnlessDeselected => ExclusiveUnlessDeselected'
  BY DEF ExclusiveUnlessDeselected, Events
<1>5. Unborn => Unborn'
  BY DEF Unborn, Windows
<1> QED BY <1>1, <1>2, <1>3, <1>4, <1>5

\* Steps that leave the clients, the tree and the listeners alone.
LEMMA OnlyFocus ==
  ASSUME IInv, UNCHANGED <<clientVars, created, windows, parent, origin, eventVars>>,
         Root \in mapped', mapped' \subseteq windows, FocusTypes',
         focus' \in windows \union {NoWindow}, pointWindow' \in windows,
         selection'.owner \in windows \union {NoWindow}
  PROVE  IInv'
<1> USE DEF clientVars, eventVars
<1>1. UNCHANGED <<Windows, Connected>>
  BY DEF Windows, Connected
<1>2. TopFirst' /\ Unborn' /\ ListenersAreConnected' /\ StaleEntries' /\ ExclusiveUnlessDeselected'
  BY <1>1, Untouched DEF IInv
<1>3. ClientTypes' /\ TreeTypes' /\ EventTypes'
  BY <1>1 DEF IInv, ClientTypes, TreeTypes, EventTypes, Root, NoWindow
<1>4. NoDanglingReference' /\ NothingLeftBehind'
  BY <1>1 DEF IInv, NoDanglingReference, NothingLeftBehind, Root, NoBase, NoWindow
<1> QED BY <1>2, <1>3, <1>4 DEF IInv

LEMMA ConnectKeepsIInv == \A c \in Clients : IInv /\ Connect(c) => IInv'
<1> SUFFICES ASSUME NEW c \in Clients, IInv, Connect(c) PROVE IInv'
  OBVIOUS
<1> USE DEF treeVars, eventVars, focusVars
<1>1. /\ status[c] = "new" /\ freeing = NoClient /\ status' = [status EXCEPT ![c] = "connected"]
      /\ UNCHANGED <<resources, freeing, treeVars, eventVars, focusVars, pointWindow,
                     buttons, grab, selection, escaped>>
  BY DEF Connect, Idle
<1>2. PICK b : /\ b \in idBases \/ b = NoBase
               /\ base' = [base EXCEPT ![c] = b]
               /\ idBases' \subseteq idBases
               /\ b = NoBase \/ b \notin idBases'
  BY DEF Connect, TakesBase
<1>3. ClientTypes
  BY DEF IInv
<1>4. Connected' = Connected \union {c} /\ Windows' = Windows /\ c \notin Connected
  BY <1>1, <1>3 DEF Connected, ClientTypes, Windows
<1>5. /\ base'[c] = b /\ base' \in [Clients -> Bases \union {NoBase}]
      /\ \A d \in Clients : d # c => base'[d] = base[d]
  BY <1>2, <1>3 DEF ClientTypes
<1>6. ClientTypes'
  BY <1>1, <1>2, <1>3, <1>4, <1>5 DEF ClientTypes, NoBase
<1>7. TreeTypes' /\ EventTypes' /\ FocusTypes' /\ NoDanglingReference'
  BY <1>1, <1>4 DEF IInv, TreeTypes, EventTypes, FocusTypes, NoDanglingReference,
                   Root, NoWindow
<1>8. TopFirst' /\ Unborn' /\ ListenersAreConnected' /\ StaleEntries' /\ ExclusiveUnlessDeselected'
  BY <1>1, <1>4, Untouched DEF IInv
<1>9. NothingLeftBehind'
  <2>1. \A w \in windows' \ {Root} : origin'[w] \in Connected' /\ w \in resources'[origin'[w]]
    BY <1>1, <1>4 DEF IInv, NothingLeftBehind
  <2>2. Connected \subseteq Clients
    BY DEF Connected
  <2>3. \A d \in Connected : base[d] # NoBase =>
          base[d] \notin idBases /\ \A e \in Connected \ {d} : base[e] # base[d]
    BY DEF IInv, NothingLeftBehind
  <2>4. ASSUME NEW d \in Connected', base'[d] # NoBase
        PROVE  base'[d] \notin idBases' /\ \A e \in Connected' \ {d} : base'[e] # base'[d]
    <3>1. CASE d = c
      BY <1>2, <1>4, <1>5, <2>2, <2>3, <2>4, <3>1
    <3>2. CASE d # c
      BY <1>2, <1>4, <1>5, <2>2, <2>3, <2>4, <3>2
    <3> QED BY <3>1, <3>2
  <2> QED BY <2>1, <2>4 DEF NothingLeftBehind, Root, NoBase
<1> QED BY <1>6, <1>7, <1>8, <1>9 DEF IInv

LEMMA DisconnectKeepsIInv == \A c \in Clients : IInv /\ Disconnect(c) => IInv'
<1> SUFFICES ASSUME NEW c \in Clients, IInv, Disconnect(c) PROVE IInv'
  OBVIOUS
<1> USE DEF treeVars, eventVars, focusVars
<1>1. /\ c \in Connected /\ freeing' = c
      /\ UNCHANGED <<status, base, idBases, resources, treeVars, eventVars, focusVars,
                     pointWindow, buttons, grab, selection, escaped>>
  BY DEF Disconnect
<1>2. UNCHANGED <<Windows, Connected>>
  BY <1>1 DEF Windows, Connected
<1>3. ClientTypes' /\ TreeTypes' /\ EventTypes' /\ FocusTypes'
  BY <1>1, <1>2 DEF IInv, ClientTypes, TreeTypes, EventTypes, FocusTypes, Root, NoWindow
<1>4. TopFirst' /\ Unborn' /\ ListenersAreConnected' /\ StaleEntries' /\ ExclusiveUnlessDeselected'
  BY <1>1, <1>2, Untouched DEF IInv
<1>5. NoDanglingReference' /\ NothingLeftBehind'
  BY <1>1, <1>2 DEF IInv, NoDanglingReference, NothingLeftBehind, Root, NoBase, NoWindow
<1> QED BY <1>3, <1>4, <1>5 DEF IInv

LEMMA LeastElement ==
  ASSUME NEW T, T \subseteq Nat, T # {}
  PROVE  \E m \in T : \A n \in T : m <= n
<1> DEFINE R == OpToRel(<, Nat)
<1>1. IsWellFoundedOn(R, Nat)
  BY NatLessThanWellFounded
<1>2. \A a, b \in Nat : a < b => <<a, b>> \in R
  BY DEF OpToRel
<1> HIDE DEF R
<1>3. PICK m \in T : \A n \in T : ~(<<n, m>> \in R)
  BY <1>1, WFMin
<1>4. \A n \in T : ~(n < m)
  BY <1>2, <1>3
<1>5. \A n \in T : m <= n
  BY <1>4
<1> QED BY <1>5

\* Of a client's windows one is the newest.
LEMMA NewestIs ==
  ASSUME NEW S \in SUBSET (1 .. MaxWindows), S # {}
  PROVE  Newest(S) \in S
<1> DEFINE T == {n \in Nat : MaxWindows - n \in S}
<1>1. MaxWindows \in Nat
  BY XServerAssumption
<1>2. \A w \in S : MaxWindows - w \in T
  <2> SUFFICES ASSUME NEW w \in S PROVE MaxWindows - w \in T
    OBVIOUS
  <2>1. w \in Nat /\ w <= MaxWindows
    BY <1>1
  <2>2. MaxWindows - w \in Nat /\ MaxWindows - (MaxWindows - w) = w
    BY <1>1, <2>1
  <2> QED BY <2>2
<1>3. PICK m \in T : \A n \in T : m <= n
  <2>1. T \subseteq Nat /\ T # {}
    BY <1>2
  <2> HIDE DEF T
  <2> QED BY <2>1, LeastElement
<1>4. m \in Nat /\ MaxWindows - m \in S
  OBVIOUS
<1>5. \A x \in S : x <= MaxWindows - m
  <2> SUFFICES ASSUME NEW x \in S PROVE x <= MaxWindows - m
    OBVIOUS
  <2>1. m <= MaxWindows - x
    BY <1>2, <1>3
  <2>2. x \in Nat
    BY <1>1
  <2> QED BY <1>1, <1>4, <2>1, <2>2
<1> QED BY <1>4, <1>5 DEF Newest

LEMMA FreeResourceKeepsIInv == IInv /\ FreeResource => IInv'
<1> SUFFICES ASSUME IInv, FreeResource PROVE IInv'
  OBVIOUS
<1> DEFINE t == Newest(resources[freeing])
<1>1. /\ freeing # NoClient /\ resources[freeing] # {} /\ Destroy(t) /\ SendsToGrab
      /\ UNCHANGED <<status, base, idBases, freeing>>
  BY DEF FreeResource
<1>2. freeing \in Clients
  BY <1>1 DEF IInv, ClientTypes
<1>3. resources[freeing] \in SUBSET (1 .. MaxWindows)
  BY <1>2 DEF IInv, ClientTypes
<1>4. t \in resources[freeing]
  BY <1>1, <1>3, NewestIs
<1>5. t \in windows \ {Root}
  BY <1>2, <1>3, <1>4 DEF IInv, NoDanglingReference, Root
<1>6. escaped' \in BOOLEAN
  BY <1>1 DEF SendsToGrab
<1> HIDE DEF t
<1> QED BY <1>1, <1>5, <1>6, DestroyKeepsIInv

LEMMA FreeEndKeepsIInv == IInv /\ FreeEnd => IInv'
<1> SUFFICES ASSUME IInv, FreeEnd PROVE IInv'
  OBVIOUS
<1> USE DEF treeVars, focusVars
<1> DEFINE c == freeing
<1>1. /\ c # NoClient /\ resources[c] = {}
      /\ listeners' = WithoutListenersOf(c)
      /\ selected' = [selected EXCEPT ![c] = [w \in Windows |-> {}]]
      /\ deselected' = {p \in deselected : p[1] # c}
      /\ idBases' = idBases \union {base[c]}
      /\ status' = [status EXCEPT ![c] = "gone"]
      /\ freeing' = NoClient
      /\ UNCHANGED <<base, resources, treeVars, focusVars, pointWindow, buttons,
                     grab, selection, escaped>>
  BY DEF FreeEnd
<1> HIDE DEF c
<1>2. c \in Clients /\ c \in Connected /\ Connected \subseteq Clients
  BY <1>1 DEF IInv, ClientTypes, c, Connected
<1>3. Connected' = Connected \ {c} /\ Windows' = Windows /\ Events' = Events /\ {} \in Masks
  BY <1>1, <1>2, XServerAssumption DEF IInv, ClientTypes, Connected, Windows, Events
<1>4. /\ selected' \in [Clients -> [Windows -> Masks]]
      /\ \A d \in Clients, w \in Windows :
           selected'[d][w] = IF d = c THEN {} ELSE selected[d][w]
  BY <1>1, <1>2, <1>3 DEF IInv, EventTypes
<1>5. /\ listeners' \in [Clients -> [Windows -> Masks]]
      /\ \A d \in Clients, w \in Windows :
           listeners'[d][w] = IF d = c /\ selected[c][w] # {} THEN {} ELSE listeners[d][w]
  <2>1. listeners' = [listeners EXCEPT ![c] = [w \in Windows |->
                        IF selected[c][w] # {} THEN {} ELSE listeners[c][w]]]
    BY <1>1 DEF WithoutListenersOf
  <2>2. listeners \in [Clients -> [Windows -> Masks]]
    BY DEF IInv, EventTypes
  <2>3. [w \in Windows |-> IF selected[c][w] # {} THEN {} ELSE listeners[c][w]]
          \in [Windows -> Masks]
    BY <1>2, <1>3, <2>2
  <2> QED BY <1>2, <2>1, <2>2, <2>3
<1>6. \A d \in Clients, w \in Windows : <<d, w>> \in deselected /\ d # c => <<d, w>> \in deselected'
  BY <1>1
<1>7. ClientTypes'
  BY <1>1, <1>2 DEF IInv, ClientTypes
<1>8. TreeTypes' /\ FocusTypes' /\ NoDanglingReference' /\ TopFirst'
  BY <1>1, <1>3 DEF IInv, TreeTypes, FocusTypes, NoDanglingReference, TopFirst, Root, NoWindow
<1>9. EventTypes'
  BY <1>1, <1>3, <1>4, <1>5 DEF IInv, EventTypes
<1>10. NothingLeftBehind'
  <2>1. \A w \in windows' \ {Root} : origin'[w] \in Connected' /\ w \in resources'[origin'[w]]
    BY <1>1, <1>3 DEF IInv, NothingLeftBehind
  <2>2. \A d \in Connected : base[d] # NoBase =>
          base[d] \notin idBases /\ \A e \in Connected \ {d} : base[e] # base[d]
    BY DEF IInv, NothingLeftBehind
  <2>3. ASSUME NEW d \in Connected', base'[d] # NoBase
        PROVE  base'[d] \notin idBases' /\ \A e \in Connected' \ {d} : base'[e] # base'[d]
    <3>1. d \in Connected /\ d # c /\ base' = base
      BY <1>1, <1>3, <2>3
    <3>2. base[c] # base[d]
      BY <1>2, <2>2, <2>3, <3>1
    <3> QED BY <1>1, <1>3, <2>2, <2>3, <3>1, <3>2
  <2> QED BY <2>1, <2>3 DEF NothingLeftBehind, Root, NoBase
\* On windows that exist the client has no listener without an entry.
<1>11. windows \subseteq Windows /\ windows' = windows /\ created' = created
  BY <1>1, XServerAssumption DEF IInv, TreeTypes, Windows
<1>12. \A w \in windows : listeners'[c][w] = {}
  BY <1>2, <1>5, <1>11 DEF IInv, ListenersAreConnected
<1>13. ListenersAreConnected' /\ Unborn'
  <2>1. \A d \in Clients, w \in windows' :
          listeners'[d][w] # {} => selected'[d][w] = listeners'[d][w]
    BY <1>4, <1>5, <1>11, <1>12 DEF IInv, ListenersAreConnected
  <2>2. \A d \in Clients, w \in Windows :
          selected'[d][w] # {} => w \in windows' /\ d \in Connected'
    BY <1>3, <1>4, <1>11 DEF IInv, ListenersAreConnected
  <2>3. \A d \in Clients, w \in Windows : w > created => listeners'[d][w] = {}
    BY <1>5 DEF IInv, Unborn
  <2> QED BY <1>3, <1>11, <2>1, <2>2, <2>3 DEF ListenersAreConnected, Unborn
<1>14. StaleEntries'
  BY <1>3, <1>4, <1>5, <1>6 DEF IInv, StaleEntries
<1>15. ExclusiveUnlessDeselected'
  <2>1. windows \subseteq Windows /\ windows' = windows
    BY <1>1, XServerAssumption DEF IInv, TreeTypes, Windows
  <2>2. ASSUME NEW w \in windows', NEW e \in Events, NEW d \in Clients, NEW f \in Clients,
               d # f, e \in listeners'[d][w], e \in listeners'[f][w]
        PROVE  <<d, w>> \in deselected' \/ <<f, w>> \in deselected'
    <3>1. w \in windows /\ w \in Windows
      BY <2>1
    <3>2. e \in listeners[d][w] /\ e \in listeners[f][w] /\ d # c /\ f # c
      BY <1>5, <1>12, <2>2, <3>1
    <3> QED BY <1>6, <2>2, <3>1, <3>2 DEF IInv, ExclusiveUnlessDeselected
  <2> QED BY <1>3, <2>2 DEF ExclusiveUnlessDeselected
<1> QED BY <1>7, <1>8, <1>9, <1>10, <1>13, <1>14, <1>15 DEF IInv
-----------------------------------------------------------------------------
(* Requests about windows *)

LEMMA CreateWindowKeepsIInv ==
  \A c \in Clients, p \in Windows, mask \in Masks :
     IInv /\ CreateWindow(c, p, mask) => IInv'
<1> SUFFICES ASSUME NEW c \in Clients, NEW p \in Windows, NEW mask \in Masks,
                    IInv, CreateWindow(c, p, mask)
             PROVE  IInv'
  OBVIOUS
<1> DEFINE w == created + 1
<1> USE DEF focusVars
<1>1. /\ c \in Connected /\ p \in windows /\ created < MaxWindows /\ created' = w
      /\ windows' = windows \union {w}
      /\ parent' = [parent EXCEPT ![w] = p]
      /\ origin' = [origin EXCEPT ![w] = c]
      /\ listeners' = [listeners EXCEPT ![c][w] = mask]
      /\ selected' = [selected EXCEPT ![c][w] = mask]
      /\ resources' = [resources EXCEPT ![c] = @ \union {w}]
      /\ mapped' = mapped /\ pointWindow' \in Viewable'
      /\ UNCHANGED <<status, base, idBases, freeing, deselected, focusVars,
                     buttons, grab, selection, escaped>>
  BY DEF CreateWindow, UpdatePointWindow
<1>2. /\ w \in 1 .. MaxWindows /\ w \in Windows /\ w \notin windows /\ w # Root /\ p # w
      /\ windows \subseteq Windows /\ windows' \subseteq 0 .. w /\ windows' \subseteq Windows
  BY <1>1, XServerAssumption DEF IInv, TreeTypes, Windows, Root
<1> HIDE DEF w
<1>3. Connected' = Connected /\ Windows' = Windows /\ Events' = Events /\ Connected \subseteq Clients
  BY <1>1 DEF Connected, Windows, Events
<1>4. /\ parent' \in [Windows -> Windows \union {NoWindow}] /\ parent'[w] = p
      /\ \A v \in Windows : v # w => parent'[v] = parent[v]
  BY <1>1, <1>2 DEF IInv, TreeTypes
<1>5. /\ origin' \in [Windows -> Clients \union {NoClient}] /\ origin'[w] = c
      /\ \A v \in Windows : v # w => origin'[v] = origin[v]
  BY <1>1, <1>2 DEF IInv, TreeTypes
<1>6. /\ listeners' \in [Clients -> [Windows -> Masks]]
      /\ \A d \in Clients, v \in Windows :
           listeners'[d][v] = IF d = c /\ v = w THEN mask ELSE listeners[d][v]
  BY <1>1, <1>2 DEF IInv, EventTypes
<1>7. /\ selected' \in [Clients -> [Windows -> Masks]]
      /\ \A d \in Clients, v \in Windows :
           selected'[d][v] = IF d = c /\ v = w THEN mask ELSE selected[d][v]
  BY <1>1, <1>2 DEF IInv, EventTypes
<1>8. /\ resources' \in [Clients -> SUBSET (1 .. MaxWindows)]
      /\ \A d \in Clients : resources'[d] = IF d = c THEN resources[d] \union {w} ELSE resources[d]
  BY <1>1, <1>2 DEF IInv, ClientTypes
<1>9. ClientTypes'
  BY <1>1, <1>3, <1>8 DEF IInv, ClientTypes
<1>10. TreeTypes'
  <2>1. /\ Root \in mapped /\ mapped \subseteq windows /\ parent[Root] = NoWindow
        /\ \A v \in windows : v = Root \/ parent[v] \in windows
    BY DEF IInv, TreeTypes
  <2>2. \A v \in windows' : v = Root \/ parent'[v] \in windows'
    BY <1>1, <1>2, <1>4, <2>1
  <2>3. parent'[Root] = NoWindow
    BY <1>2, <1>4, <2>1
  <2>4. created' \in 0 .. MaxWindows
    BY <1>1, <1>2
  <2> QED BY <1>1, <1>2, <1>3, <1>4, <1>5, <2>1, <2>2, <2>3, <2>4 DEF TreeTypes, Root, NoWindow
<1>11. EventTypes'
  BY <1>1, <1>3, <1>6, <1>7 DEF IInv, EventTypes
<1>12. pointWindow' \in windows'
  BY <1>1, <1>10, ViewableIn DEF TreeTypes
<1>13. FocusTypes'
  BY <1>1, <1>2, <1>3, <1>12 DEF IInv, FocusTypes, NoWindow
<1>14. TopFirst'
  <2>1. ASSUME NEW S \in SUBSET windows', S # {}
        PROVE  \E v \in S : v = Root \/ parent'[v] \notin S
    <3>1. CASE S = {w}
      BY <1>2, <1>4, <3>1
    <3>2. CASE S # {w}
      <4>1. S \ {w} \in SUBSET windows /\ S \ {w} # {}
        BY <1>1, <2>1, <3>2
      <4>2. PICK v \in S \ {w} : v = Root \/ parent[v] \notin S \ {w}
        BY <4>1 DEF IInv, TopFirst
      <4>3. v = Root \/ parent[v] # w
        BY <1>2, <4>1 DEF IInv, TreeTypes
      <4> QED BY <1>2, <1>4, <4>1, <4>2, <4>3
    <3> QED BY <3>1, <3>2
  <2> QED BY <2>1 DEF TopFirst, Root
<1>15. NoDanglingReference'
  BY <1>1, <1>8, <1>12 DEF IInv, NoDanglingReference, NoWindow
<1>16. NothingLeftBehind'
  <2>1. ASSUME NEW v \in windows' \ {Root}
        PROVE  origin'[v] \in Connected' /\ v \in resources'[origin'[v]]
    <3>1. CASE v = w
      BY <1>1, <1>3, <1>5, <1>8, <3>1
    <3>2. CASE v # w
      BY <1>1, <1>2, <1>3, <1>5, <1>8, <2>1, <3>2 DEF IInv, NothingLeftBehind
    <3> QED BY <3>1, <3>2
  <2>2. \A d \in Connected : base[d] # NoBase =>
          base[d] \notin idBases /\ \A e \in Connected \ {d} : base[e] # base[d]
    BY DEF IInv, NothingLeftBehind
  <2> QED BY <1>1, <1>3, <2>1, <2>2 DEF NothingLeftBehind, Root, NoBase
<1>17. w > created /\ \A d \in Clients : listeners[d][w] = {}
  <2>1. w > created
    BY <1>2 DEF IInv, TreeTypes, w
  <2> QED BY <1>2, <2>1 DEF IInv, Unborn
<1>18. ListenersAreConnected' /\ Unborn'
  <2>1. \A d \in Clients, v \in windows' :
          listeners'[d][v] # {} => selected'[d][v] = listeners'[d][v]
    BY <1>1, <1>2, <1>6, <1>7, <1>17 DEF IInv, ListenersAreConnected
  <2>2. \A d \in Clients, v \in Windows :
          selected'[d][v] # {} => v \in windows' /\ d \in Connected'
    BY <1>1, <1>3, <1>7 DEF IInv, ListenersAreConnected
  <2>3. \A d \in Clients, v \in Windows : v > w => v > created /\ v # w
    BY XServerAssumption DEF IInv, TreeTypes, Windows, w
  <2>4. \A d \in Clients, v \in Windows : v > w => listeners'[d][v] = {}
    BY <1>6, <2>3 DEF IInv, Unborn
  <2> QED BY <1>1, <1>3, <2>1, <2>2, <2>4 DEF ListenersAreConnected, Unborn
<1>19. StaleEntries'
  BY <1>1, <1>3, <1>6, <1>7 DEF IInv, StaleEntries
<1>20. ExclusiveUnlessDeselected'
  <2>1. ASSUME NEW v \in windows', NEW e \in Events, NEW d \in Clients, NEW f \in Clients,
               d # f, e \in listeners'[d][v], e \in listeners'[f][v]
        PROVE  <<d, v>> \in deselected' \/ <<f, v>> \in deselected'
    <3>1. v \in Windows
      BY <1>2
    <3>2. v # w
      BY <1>6, <1>17, <2>1, <3>1
    <3>3. v \in windows /\ e \in listeners[d][v] /\ e \in listeners[f][v]
      BY <1>1, <1>6, <2>1, <3>1, <3>2
    <3> QED BY <1>1, <2>1, <3>3 DEF IInv, ExclusiveUnlessDeselected
  <2> QED BY <1>3, <2>1 DEF ExclusiveUnlessDeselected
<1> QED BY <1>9, <1>10, <1>11, <1>13, <1>14, <1>15, <1>16, <1>18, <1>19, <1>20 DEF IInv

LEMMA DestroyRequestsKeepIInv ==
  \A t \in Windows : IInv /\ (DestroyWindow(t) \/ DestroySubWindows(t)) => IInv'
<1>1. SUFFICES ASSUME NEW t \in Windows, IInv, DestroyWindow(t) \/ DestroySubWindows(t)
               PROVE  IInv'
  OBVIOUS
<1>2. CASE DestroyWindow(t)
  <2>1. /\ t \in windows \ {Root} /\ Destroy(t) /\ SendsToGrab
        /\ UNCHANGED <<status, base, idBases, freeing>>
    BY <1>2 DEF DestroyWindow
  <2>2. escaped' \in BOOLEAN
    BY <2>1 DEF SendsToGrab
  <2> QED BY <1>1, <2>1, <2>2, DestroyKeepsIInv
<1>3. CASE DestroySubWindows(t)
  <2>1. PICK w \in Children(t) : Destroy(w)
    BY <1>3 DEF DestroySubWindows
  <2>2. t \in windows /\ UNCHANGED <<status, base, idBases, freeing>> /\ escaped' \in BOOLEAN
    BY <1>3 DEF DestroySubWindows, SendsToGrab
  <2>3. w \in windows \ {Root}
    BY <1>1, <2>2 DEF IInv, TreeTypes, Children, NoWindow
  <2> QED BY <1>1, <2>1, <2>2, <2>3, DestroyKeepsIInv
<1> QED BY <1>1, <1>2, <1>3

LEMMA ReparentKeepsIInv ==
  \A w, p \in Windows : IInv /\ ReparentWindow(w, p) => IInv'
<1> SUFFICES ASSUME NEW w \in Windows, NEW p \in Windows, IInv, ReparentWindow(w, p)
             PROVE  IInv'
  OBVIOUS
<1> USE DEF clientVars, eventVars, focusVars
<1> DEFINE D == Subtree(w)
<1>1. /\ w \in windows \ {Root} /\ p \in windows \ D
      /\ parent' = [parent EXCEPT ![w] = p]
      /\ UNCHANGED <<clientVars, created, windows, origin, mapped, eventVars,
                     focusVars, pointWindow, buttons, grab, selection, escaped>>
  BY DEF ReparentWindow
<1>2. /\ w \in D /\ Root \notin D
      /\ \A v \in windows \ D : v = Root \/ parent[v] \in windows \ D
  BY <1>1, SubtreeIs DEF IInv
<1> HIDE DEF D
<1>3. Windows' = Windows /\ Connected' = Connected /\ Events' = Events
  BY <1>1 DEF Windows, Connected, Events
<1>4. /\ parent' \in [Windows -> Windows \union {NoWindow}] /\ parent'[w] = p
      /\ \A v \in Windows : v # w => parent'[v] = parent[v]
  BY <1>1 DEF IInv, TreeTypes
<1>5. windows \subseteq Windows /\ Root \in Windows
  BY XServerAssumption DEF IInv, TreeTypes, Windows, Root
<1>6. TreeTypes'
  <2>1. /\ parent[Root] = NoWindow
        /\ \A v \in windows : v = Root \/ parent[v] \in windows
    BY DEF IInv, TreeTypes
  <2>2. \A v \in windows : v = Root \/ parent'[v] \in windows
    BY <1>1, <1>4, <1>5, <2>1
  <2>3. parent'[Root] = NoWindow
    BY <1>1, <1>4, <1>5, <2>1
  <2> QED BY <1>1, <1>3, <1>4, <2>2, <2>3 DEF IInv, TreeTypes, Root, NoWindow
<1>7. TopFirst'
  <2>1. ASSUME NEW S \in SUBSET windows, S # {}
        PROVE  \E v \in S : v = Root \/ parent'[v] \notin S
    <3>1. CASE S \subseteq D
      <4>1. PICK v \in S : v = Root \/ parent[v] \notin S
        BY <2>1 DEF IInv, TopFirst
      <4>2. CASE w \in S
        BY <1>1, <1>4, <3>1, <4>2
      <4>3. CASE w \notin S
        BY <1>4, <1>5, <4>1, <4>3
      <4> QED BY <4>2, <4>3
    <3>2. CASE ~(S \subseteq D)
      <4>1. S \ D \in SUBSET windows /\ S \ D # {}
        BY <3>2
      <4>2. PICK v \in S \ D : v = Root \/ parent[v] \notin S \ D
        BY <4>1 DEF IInv, TopFirst
      <4>3. v = Root \/ parent[v] \notin S
        BY <1>2, <4>1, <4>2
      <4> QED BY <1>2, <1>4, <1>5, <4>1, <4>3
    <3> QED BY <3>1, <3>2
  <2> QED BY <1>1, <2>1 DEF TopFirst, Root
<1>8. ClientTypes' /\ EventTypes' /\ FocusTypes' /\ NoDanglingReference'
  BY <1>1, <1>3 DEF IInv, ClientTypes, EventTypes, FocusTypes, NoDanglingReference, NoWindow
<1>9. NothingLeftBehind'
  BY <1>1, <1>3 DEF IInv, NothingLeftBehind, Root, NoBase
<1>10. ListenersAreConnected' /\ Unborn' /\ StaleEntries' /\ ExclusiveUnlessDeselected'
  BY <1>1, <1>3 DEF IInv, ListenersAreConnected, Unborn, StaleEntries, ExclusiveUnlessDeselected
<1> QED BY <1>6, <1>7, <1>8, <1>9, <1>10 DEF IInv

LEMMA SelectEventsKeepsIInv ==
  \A c \in Clients, w \in Windows, mask \in Masks : IInv /\ SelectEvents(c, w, mask) => IInv'
<1> SUFFICES ASSUME NEW c \in Clients, NEW w \in Windows, NEW mask \in Masks,
                    IInv, SelectEvents(c, w, mask)
             PROVE  IInv'
  OBVIOUS
<1> USE DEF clientVars, treeVars, focusVars
<1>1. /\ c \in Connected /\ w \in windows
      /\ \A e \in Events : CanSelect(c, e, w, mask)
      /\ listeners' = [listeners EXCEPT ![c][w] = mask]
      /\ UNCHANGED <<clientVars, treeVars, focusVars, pointWindow, buttons, grab,
                     selection, escaped>>
  BY DEF SelectEvents
<1>2. /\ mask = {} => /\ selected' = selected
                      /\ deselected' = IF selected[c][w] = {} THEN deselected
                                       ELSE deselected \union {<<c, w>>}
      /\ mask # {} => /\ selected' = [selected EXCEPT ![c][w] = mask]
                      /\ deselected' = deselected
  BY DEF SelectEvents
<1>3. Windows' = Windows /\ Connected' = Connected /\ Events' = Events
  BY <1>1 DEF Windows, Connected, Events
<1>4. /\ listeners' \in [Clients -> [Windows -> Masks]]
      /\ \A d \in Clients, v \in Windows :
           listeners'[d][v] = IF d = c /\ v = w THEN mask ELSE listeners[d][v]
  BY <1>1 DEF IInv, EventTypes
<1>5. /\ selected' \in [Clients -> [Windows -> Masks]]
      /\ \A d \in Clients, v \in Windows :
           selected'[d][v] = IF d = c /\ v = w /\ mask # {} THEN mask ELSE selected[d][v]
  <2>1. CASE mask = {}
    BY <1>2, <2>1 DEF IInv, EventTypes
  <2>2. CASE mask # {}
    <3>1. selected' = [selected EXCEPT ![c][w] = mask]
      BY <1>2, <2>2
    <3>2. selected \in [Clients -> [Windows -> Masks]]
      BY DEF IInv, EventTypes
    <3>3. /\ selected' \in [Clients -> [Windows -> Masks]]
          /\ \A d \in Clients, v \in Windows :
               selected'[d][v] = IF d = c /\ v = w THEN mask ELSE selected[d][v]
      BY <3>1, <3>2
    <3> QED BY <2>2, <3>3
  <2> QED BY <2>1, <2>2
<1>6. /\ deselected \subseteq deselected' /\ deselected' \subseteq deselected \union {<<c, w>>}
      /\ mask = {} /\ selected[c][w] # {} => <<c, w>> \in deselected'
  BY <1>2
<1>7. EventTypes'
  BY <1>3, <1>4, <1>5, <1>6 DEF IInv, EventTypes
<1>8. ClientTypes' /\ TreeTypes' /\ FocusTypes' /\ TopFirst'
  BY <1>1, <1>3 DEF IInv, ClientTypes, TreeTypes, FocusTypes, TopFirst, Root, NoWindow
<1>9. NoDanglingReference' /\ NothingLeftBehind'
  BY <1>1, <1>3 DEF IInv, NoDanglingReference, NothingLeftBehind, Root, NoBase, NoWindow
<1>10. ListenersAreConnected' /\ Unborn'
  <2>1. windows \subseteq Windows /\ windows' = windows /\ created' = created
    BY <1>1, XServerAssumption DEF IInv, TreeTypes, Windows
  <2>2. \A d \in Clients, v \in windows' :
          listeners'[d][v] # {} => selected'[d][v] = listeners'[d][v]
    BY <1>4, <1>5, <2>1 DEF IInv, ListenersAreConnected
  <2>3. \A d \in Clients, v \in Windows :
          selected'[d][v] # {} => v \in windows' /\ d \in Connected'
    BY <1>1, <1>3, <1>5, <2>1 DEF IInv, ListenersAreConnected
  <2>4. ~(w > created)
    BY <1>1, XServerAssumption DEF IInv, TreeTypes
  <2>5. \A d \in Clients, v \in Windows : v > created => listeners'[d][v] = {}
    BY <1>4, <2>4 DEF IInv, Unborn
  <2> QED BY <1>3, <2>1, <2>2, <2>3, <2>5 DEF ListenersAreConnected, Unborn
<1>11. StaleEntries'
  <2>1. ASSUME NEW d \in Clients, NEW v \in Windows, selected'[d][v] # {}, listeners'[d][v] = {}
        PROVE  <<d, v>> \in deselected'
    <3>1. CASE d = c /\ v = w
      BY <1>4, <1>5, <1>6, <2>1, <3>1
    <3>2. CASE ~(d = c /\ v = w)
      <4>1. selected[d][v] # {} /\ listeners[d][v] = {}
        BY <1>4, <1>5, <2>1, <3>2
      <4> QED BY <1>6, <4>1 DEF IInv, StaleEntries
    <3> QED BY <3>1, <3>2
  <2> QED BY <1>3, <2>1 DEF StaleEntries
\* Whoever else has selected the event, the client has it in its table: with a
\* listener for it, or because it has deselected it.
<1>12. ASSUME NEW e \in Events, NEW d \in Clients, d # c, e \in mask, e \in listeners[d][w]
       PROVE  <<c, w>> \in deselected \/ <<d, w>> \in deselected
  <2>1. e \in selected[c][w]
    BY <1>1, <1>12 DEF CanSelect, HasListener
  <2>2. CASE listeners[c][w] = {}
    BY <2>1, <2>2 DEF IInv, StaleEntries
  <2>3. CASE listeners[c][w] # {}
    <3>1. e \in listeners[c][w]
      BY <2>1, <2>3 DEF IInv, ListenersAreConnected
    <3> QED BY <1>1, <1>12, <3>1 DEF IInv, ExclusiveUnlessDeselected
  <2> QED BY <2>2, <2>3
<1>13. ExclusiveUnlessDeselected'
  <2>1. windows \subseteq Windows /\ windows' = windows
    BY <1>1, XServerAssumption DEF IInv, TreeTypes, Windows
  <2>2. ASSUME NEW v \in windows', NEW e \in Events, NEW d \in Clients, NEW f \in Clients,
               d # f, e \in listeners'[d][v], e \in listeners'[f][v]
        PROVE  <<d, v>> \in deselected' \/ <<f, v>> \in deselected'
    <3>1. v \in windows /\ v \in Windows
      BY <2>1
    <3>2. CASE d = c /\ v = w
      BY <1>4, <1>6, <1>12, <2>2, <3>1, <3>2
    <3>3. CASE f = c /\ v = w
      BY <1>4, <1>6, <1>12, <2>2, <3>1, <3>3
    <3>4. CASE v # w \/ (d # c /\ f # c)
      <4>1. e \in listeners[d][v] /\ e \in listeners[f][v]
        BY <1>4, <2>2, <3>1, <3>4
      <4> QED BY <1>6, <2>2, <3>1, <4>1 DEF IInv, ExclusiveUnlessDeselected
    <3> QED BY <3>2, <3>3, <3>4
  <2> QED BY <1>3, <2>2 DEF ExclusiveUnlessDeselected
<1> QED BY <1>7, <1>8, <1>9, <1>10, <1>11, <1>13 DEF IInv

LEMMA MapKeepsIInv ==
  \A T \in SUBSET windows : IInv /\ Map(T) => IInv'
<1> SUFFICES ASSUME NEW T \in SUBSET windows, IInv, Map(T) PROVE IInv'
  OBVIOUS
<1> USE DEF focusVars
<1>1. UNCHANGED <<clientVars, created, windows, parent, origin, eventVars,
                  buttons, grab, selection, escaped>>
  BY DEF Map
<1>2. PICK done \in SUBSET (T \ mapped) :
        /\ mapped' = mapped \union done
        /\ \/ UNCHANGED focusVars
           \/ \E w \in done \intersect Applications :
                /\ focus' = w
                /\ revertTo' = IF parent[w] = Root THEN "POINTER_ROOT" ELSE "PARENT"
        /\ IF done = {} THEN UNCHANGED pointWindow ELSE UpdatePointWindow
  BY DEF Map
<1>3. Root \in mapped' /\ mapped' \subseteq windows
  BY <1>2 DEF IInv, TreeTypes
<1>4. focus' \in windows \union {NoWindow} /\ revertTo' \in {"NONE", "POINTER_ROOT", "PARENT"}
  BY <1>2 DEF IInv, NoDanglingReference, FocusTypes
<1>5. pointWindow' \in windows
  BY <1>2, <1>3, ViewableIn DEF UpdatePointWindow, IInv, NoDanglingReference
<1>6. windows \subseteq Windows /\ Windows' = Windows
  BY XServerAssumption DEF IInv, TreeTypes, Windows
<1>7. FocusTypes'
  BY <1>1, <1>4, <1>5, <1>6 DEF IInv, FocusTypes, NoWindow
<1>8. selection'.owner \in windows \union {NoWindow}
  BY <1>1 DEF IInv, NoDanglingReference
<1> QED BY <1>1, <1>3, <1>4, <1>5, <1>7, <1>8, OnlyFocus

\* The requests that change the focus, the pointer, the grab or the selection.
LEMMA OtherRequestsKeepIInv ==
  ASSUME IInv,
         \/ \E w \in Windows : \/ MapWindow(w) \/ MapSubWindows(w)
                               \/ UnmapWindow(w) \/ ConfigureWindow(w)
         \/ \E mode \in FocusModes, w \in Windows : SetInputFocus(mode, w)
         \/ \E c \in Clients, w \in Windows : SetSelectionOwner(c, w)
         \/ Pointer
  PROVE  IInv'
<1> USE DEF focusVars
<1>0. /\ windows \subseteq Windows /\ Windows' = Windows /\ Root \in windows
      /\ mapped \subseteq windows /\ Root \in mapped /\ FocusTypes
      /\ focus \in windows \union {NoWindow} /\ pointWindow \in windows
      /\ selection.owner \in windows \union {NoWindow}
  BY XServerAssumption DEF IInv, TreeTypes, NoDanglingReference, Windows
<1>1. ASSUME NEW w \in Windows, MapWindow(w) \/ MapSubWindows(w)
      PROVE  IInv'
  <2>1. CASE MapWindow(w)
    <3>1. {w} \in SUBSET windows /\ Map({w})
      BY <2>1 DEF MapWindow
    <3> QED BY <3>1, MapKeepsIInv
  <2>2. CASE MapSubWindows(w)
    <3>1. Subtree(w) \in SUBSET windows /\ Map(Subtree(w))
      BY <2>2, SubtreeIn DEF MapSubWindows
    <3> QED BY <3>1, MapKeepsIInv
  <2> QED BY <1>1, <2>1, <2>2
<1>2. ASSUME NEW w \in Windows, UnmapWindow(w)
      PROVE  IInv'
  <2>1. /\ w \in mapped \ {Root} /\ mapped' = mapped \ {w}
        /\ focus' = IF focus = w THEN Reverted(w) ELSE focus
        /\ grab' = GrabAfterUnmap(w) /\ escaped' \in BOOLEAN
        /\ UNCHANGED <<clientVars, created, windows, parent, origin, eventVars,
                       revertTo, buttons, selection>>
        /\ pointWindow' \in Viewable'
    BY <1>2 DEF UnmapWindow, SendsToGrab, UpdatePointWindow
  <2>2. Root \in mapped' /\ mapped' \subseteq windows
    BY <1>0, <2>1
  <2>3. Reverted(w) \in windows \union {NoWindow}
    <3>1. parent[w] \in windows
      BY <1>0, <2>1 DEF IInv, TreeTypes
    <3>2. revertTo \in {"NONE", "POINTER_ROOT", "PARENT"}
      BY <1>0 DEF FocusTypes
    <3> QED BY <1>0, <2>1, <3>1, <3>2 DEF Reverted
  <2>4. focus' \in windows \union {NoWindow} /\ pointWindow' \in windows
    BY <1>0, <2>1, <2>2, <2>3, ViewableIn
  <2>5. grab' \in [window : Windows \union {NoWindow},
                   client : Clients \union {NoClient}, auto : BOOLEAN]
    BY <1>0, <2>1 DEF GrabAfterUnmap, NoGrab, FocusTypes
  <2>6. FocusTypes'
    BY <1>0, <2>1, <2>4, <2>5 DEF FocusTypes, NoWindow
  <2> QED BY <1>0, <2>1, <2>2, <2>4, <2>6, OnlyFocus
<1>3. ASSUME NEW w \in Windows, ConfigureWindow(w)
      PROVE  IInv'
  <2>1. /\ UNCHANGED <<clientVars, treeVars, eventVars, focusVars, buttons, grab,
                       selection, escaped>>
        /\ pointWindow' \in Viewable'
    BY <1>3 DEF ConfigureWindow, UpdatePointWindow
  <2>2. pointWindow' \in windows /\ mapped' = mapped
    BY <1>0, <2>1, ViewableIn DEF treeVars
  <2>3. FocusTypes'
    BY <1>0, <2>1, <2>2 DEF FocusTypes, NoWindow
  <2> QED BY <1>0, <2>1, <2>2, <2>3, OnlyFocus DEF treeVars
<1>4. ASSUME NEW mode \in FocusModes, NEW w \in Windows, SetInputFocus(mode, w)
      PROVE  IInv'
  <2>1. mode \in {"NONE", "POINTER_ROOT", "PARENT"}
    BY XServerAssumption
  <2>2. /\ w \in windows /\ revertTo' = mode
        /\ UNCHANGED <<clientVars, treeVars, eventVars, pointWindow, buttons, grab,
                       selection, escaped>>
        /\ focus' = CASE mode = "NONE" -> NoWindow
                      [] mode = "POINTER_ROOT" -> Root
                      [] mode = "PARENT" -> w
    BY <1>4 DEF SetInputFocus
  <2>3. focus' \in windows \union {NoWindow}
    BY <1>0, <2>1, <2>2
  <2>4. FocusTypes'
    BY <1>0, <2>1, <2>2, <2>3 DEF FocusTypes, NoWindow
  <2> QED BY <1>0, <2>2, <2>3, <2>4, OnlyFocus DEF treeVars
<1>5. ASSUME NEW c \in Clients, NEW w \in Windows, SetSelectionOwner(c, w)
      PROVE  IInv'
  <2>1. /\ w \in windows /\ selection' \in {selection, [owner |-> w, client |-> c]}
        /\ escaped' \in {escaped, TRUE}
        /\ UNCHANGED <<clientVars, treeVars, eventVars, focusVars, pointWindow,
                       buttons, grab>>
    BY <1>5 DEF SetSelectionOwner
  <2>2. /\ selection' \in [owner : Windows \union {NoWindow}, client : Clients \union {NoClient}]
        /\ selection'.owner \in windows \union {NoWindow}
    BY <1>0, <2>1 DEF FocusTypes
  <2>3. FocusTypes'
    BY <1>0, <2>1, <2>2 DEF FocusTypes, NoWindow
  <2> QED BY <1>0, <2>1, <2>2, <2>3, OnlyFocus DEF treeVars
<1>6. CASE Pointer
  <2> DEFINE Grabs == [window : Windows \union {NoWindow},
                       client : Clients \union {NoClient}, auto : BOOLEAN]
  <2>1. ASSUME UNCHANGED <<clientVars, treeVars, eventVars, selection>>,
               focus' \in windows \union {NoWindow},
               revertTo' \in {"NONE", "POINTER_ROOT", "PARENT"},
               pointWindow' \in windows, grab' \in Grabs,
               buttons' \in BOOLEAN, escaped' \in BOOLEAN
        PROVE  IInv'
    <3>1. FocusTypes'
      BY <1>0, <2>1 DEF FocusTypes, NoWindow
    <3> QED BY <1>0, <2>1, <3>1, OnlyFocus DEF treeVars
  <2>2. /\ NoGrab \in Grabs /\ grab \in Grabs /\ buttons \in BOOLEAN /\ escaped \in BOOLEAN
        /\ revertTo \in {"NONE", "POINTER_ROOT", "PARENT"}
        /\ \A w \in Windows, c \in Clients, b \in BOOLEAN :
             [window |-> w, client |-> c, auto |-> b] \in Grabs
    BY <1>0 DEF FocusTypes, NoGrab
  <2>3. Viewable \subseteq windows
    BY <1>0, ViewableIn
  <2> HIDE DEF Grabs
  <2>4. ASSUME NEW c \in Clients, NEW w \in Windows, GrabPointer(c, w)
        PROVE  IInv'
    BY <1>0, <2>1, <2>2, <2>4 DEF GrabPointer
  <2>5. CASE UngrabPointer
    BY <1>0, <2>1, <2>2, <2>5 DEF UngrabPointer, SendsToGrab
  <2>6. CASE PointerMove
    <3>1. pointWindow' \in Viewable' /\ mapped' = mapped
      BY <2>6 DEF PointerMove, UpdatePointWindow, treeVars
    <3>2. pointWindow' \in windows
      BY <1>0, <3>1, ViewableIn
    <3> QED BY <1>0, <2>1, <2>2, <2>6, <3>2 DEF PointerMove, SendsToGrab
  <2>7. CASE ButtonPress
    <3>1. /\ buttons' = TRUE
          /\ UNCHANGED <<clientVars, treeVars, eventVars, pointWindow, selection>>
          /\ escaped' \in BOOLEAN
      BY <2>7 DEF ButtonPress, SendsToGrabWindow
    <3>2. focus' \in windows \union {NoWindow} /\ revertTo' \in {"NONE", "POINTER_ROOT", "PARENT"}
      BY <1>0, <2>2, <2>3, <2>7 DEF ButtonPress, FocusUnderPointer
    <3>3. grab' \in Grabs
      <4>1. \A e, v : Nearest(e, v) \subseteq windows
        BY DEF Nearest
      <4>2. CASE grab' = grab
        BY <2>2, <4>2
      <4>3. CASE grab' # grab
        <5>1. PICK g \in Nearest("press", pointWindow), c \in Clients :
                grab' = [window |-> g, client |-> c, auto |-> TRUE]
          BY <2>7, <4>3 DEF ButtonPress
        <5>2. g \in Windows
          BY <1>0, <4>1, <5>1
        <5> QED BY <2>2, <5>1, <5>2
      <4> QED BY <4>2, <4>3
    <3> QED BY <1>0, <2>1, <2>2, <3>1, <3>2, <3>3
  <2>8. CASE ButtonRelease
    BY <1>0, <2>1, <2>2, <2>8 DEF ButtonRelease, SendsToGrab
  <2> QED BY <1>6, <2>4, <2>5, <2>6, <2>7, <2>8 DEF Pointer
<1> QED BY <1>1, <1>2, <1>3, <1>4, <1>5, <1>6
-----------------------------------------------------------------------------
LEMMA StepKeepsIInv == IInv /\ [Next]_vars => IInv'
<1> SUFFICES ASSUME IInv, [Next]_vars PROVE IInv'
  OBVIOUS
<1>1. CASE UNCHANGED vars
  <2>1. /\ UNCHANGED <<clientVars, created, windows, parent, origin, eventVars, mapped>>
        /\ UNCHANGED <<focus, revertTo, pointWindow, buttons, grab, selection, escaped>>
    BY <1>1 DEF vars, treeVars, focusVars
  <2>2. FocusTypes'
    BY <2>1 DEF IInv, FocusTypes, Windows, NoWindow
  <2> QED BY <2>1, <2>2, OnlyFocus DEF IInv, TreeTypes, NoDanglingReference
<1>2. CASE Lifecycle
  BY <1>2, ConnectKeepsIInv, DisconnectKeepsIInv, FreeResourceKeepsIInv, FreeEndKeepsIInv
     DEF Lifecycle
<1>3. CASE WindowRequest
  <2>1. ASSUME NEW c \in Clients, NEW p \in Windows, NEW mask \in Masks,
               CreateWindow(c, p, mask) \/ SelectEvents(c, p, mask)
        PROVE  IInv'
    BY <2>1, CreateWindowKeepsIInv, SelectEventsKeepsIInv
  <2>2. ASSUME NEW w \in Windows, \/ DestroyWindow(w) \/ DestroySubWindows(w)
                                  \/ MapWindow(w) \/ MapSubWindows(w)
                                  \/ UnmapWindow(w) \/ ConfigureWindow(w)
        PROVE  IInv'
    BY <2>2, DestroyRequestsKeepIInv, OtherRequestsKeepIInv
  <2>3. ASSUME NEW w \in Windows, NEW p \in Windows, ReparentWindow(w, p)
        PROVE  IInv'
    BY <2>3, ReparentKeepsIInv
  <2>4. ASSUME NEW mode \in FocusModes, NEW w \in Windows, SetInputFocus(mode, w)
        PROVE  IInv'
    BY <2>4, OtherRequestsKeepIInv
  <2>5. ASSUME NEW c \in Clients, NEW w \in Windows, SetSelectionOwner(c, w)
        PROVE  IInv'
    BY <2>5, OtherRequestsKeepIInv
  <2> QED BY <1>3, <2>1, <2>2, <2>3, <2>4, <2>5 DEF WindowRequest
<1>4. CASE Pointer
  BY <1>4, OtherRequestsKeepIInv
<1>5. CASE Stopped
  BY <1>1, <1>5 DEF Stopped
<1> QED BY <1>1, <1>2, <1>3, <1>4, <1>5 DEF Next

\* The invariant of the shared objects: a tree of windows, each owned by a
\* connected client, whose tables and listeners agree but for deselections.
THEOREM InductiveInvariant == Spec => []IInv
<1>1. Init => IInv
  BY InitIInv
<1>2. IInv /\ [Next]_vars => IInv'
  BY StepKeepsIInv
<1> QED BY <1>1, <1>2, PTL DEF Spec

\* Types, and every window is reached from the root.
THEOREM TypeCorrect == Spec => []TypeOK
<1>1. IInv => TypeOK
  <2> SUFFICES ASSUME IInv PROVE TypeOK
    OBVIOUS
  <2>1. windows = Reachable(windows)
    <3>1. /\ ReachableIn(parent, windows) \subseteq windows
          /\ \A S \in SUBSET windows :
               (\A w \in S : w = Root \/ parent[w] \in S) => S \subseteq ReachableIn(parent, windows)
      BY ReachableClosed
    <3>2. windows \subseteq ReachableIn(parent, windows)
      BY <3>1 DEF IInv, TreeTypes
    <3> QED BY <3>1, <3>2, ReachableIs
  <2>2. ClientTypes /\ TreeTypes
    BY DEF IInv
  <2>3. EventTypes /\ FocusTypes
    BY DEF IInv
  <2> HIDE DEF IInv
  <2> QED BY <2>1, <2>2, <2>3 DEF TypeOK, ClientTypes, TreeTypes, EventTypes, FocusTypes
<1> QED BY <1>1, InductiveInvariant, PTL

\* Nothing but a grab refers to a window that was destroyed, however the tree
\* was rearranged before (WindowManager.removeAllSubwindowsAndWindow).
THEOREM References == Spec => []NoDanglingReference
<1>1. IInv => NoDanglingReference
  BY DEF IInv
<1> QED BY <1>1, InductiveInvariant, PTL

\* A client that is gone left no window and no used id (XClient.freeResources).
THEOREM CleanExit == Spec => []NothingLeftBehind
<1>1. IInv => NothingLeftBehind
  BY DEF IInv
<1> QED BY <1>1, InductiveInvariant, PTL

\* Events go through a window that exists only to connected clients
\* (XClient.setEventListenerForWindow, freeResources).
THEOREM ListenersConnected == Spec => []ListenersAreConnected
<1>1. IInv => ListenersAreConnected
  BY DEF IInv
<1> QED BY <1>1, InductiveInvariant, PTL

\* Exclusive events have one client, unless one deselected them before
\* (WindowRequests.isClientCanSelectFor).
THEOREM Exclusive == Spec => []ExclusiveUnlessDeselected
<1>1. IInv => ExclusiveUnlessDeselected
  BY DEF IInv
<1> QED BY <1>1, InductiveInvariant, PTL
-----------------------------------------------------------------------------
(* The grab *)

\* Steps that leave the tree alone, or change it only where it is not seen.
LEMMA GrabStays ==
  ASSUME Viewable \subseteq mapped', \A w \in Viewable : parent'[w] = parent[w],
         grab.window \in Viewable, grab' = grab
  PROVE  grab'.window \in Viewable'
  BY StaysViewable

\* A window that is destroyed is not below a grab that stays.
LEMMA GrabOfDestroy ==
  ASSUME IInv, NEW t \in windows, Destroy(t), grab.window \in Viewable, grab' = grab
  PROVE  grab'.window \in Viewable'
<1> DEFINE D == Subtree(t)
<1>1. grab.window \in windows /\ windows \subseteq Windows
  <2>1. Viewable \subseteq mapped
    BY ViewableIn
  <2>2. mapped \subseteq windows /\ windows \subseteq 0 .. created /\ created \in 0 .. MaxWindows
    BY DEF IInv, TreeTypes
  <2>3. windows \subseteq Windows
    BY <2>2, XServerAssumption DEF Windows
  <2> QED BY <2>1, <2>2, <2>3
<1>2. t \notin mapped
  <2>1. grab' = GrabAfterUnmap(t)
    BY DEF Destroy
  <2>2. NoWindow \notin windows
    BY XServerAssumption DEF IInv, TreeTypes, NoWindow
  <2> QED BY <1>1, <2>1, <2>2 DEF GrabAfterUnmap, NoGrab
<1>3. Viewable \cap D = {} /\ Viewable \subseteq mapped /\ mapped \subseteq windows
  BY <1>2, HiddenSubtree, ViewableIn DEF IInv, TreeTypes
<1>4. /\ mapped' = mapped \ D
      /\ parent' = [w \in Windows |-> IF w \in D THEN NoWindow ELSE parent[w]]
  BY DEF Destroy, Removes
<1> HIDE DEF D
<1>5. Viewable \subseteq mapped' /\ \A w \in Viewable : parent'[w] = parent[w]
  BY <1>1, <1>3, <1>4
<1> QED BY <1>5, GrabStays

\* A grab ends with the visibility of its window, whichever window was
\* unmapped or destroyed (GrabManager.onUnmapWindow).
THEOREM GrabFollowsView == Spec => GrabEndsWithView
<1> DEFINE A == (/\ grab.window \in Viewable
                 /\ grab' = grab
                 /\ \A w \in windows \intersect windows' : parent'[w] = parent[w])
                => grab.window \in Viewable'
<1>1. IInv /\ [Next]_vars => [A]_vars
  <2> SUFFICES ASSUME IInv, [Next]_vars, grab.window \in Viewable, grab' = grab,
                      \A w \in windows \intersect windows' : parent'[w] = parent[w]
               PROVE  grab'.window \in Viewable'
    OBVIOUS
  <2>1. /\ windows \subseteq Windows /\ NoWindow \notin windows /\ mapped \subseteq windows
        /\ Viewable \subseteq mapped /\ Viewable \subseteq windows
    BY ViewableIn, XServerAssumption DEF IInv, TreeTypes, Windows, NoWindow
  <2>2. ASSUME mapped \subseteq mapped', UNCHANGED parent
        PROVE  grab'.window \in Viewable'
    BY <2>1, <2>2, GrabStays
  <2>3. CASE UNCHANGED vars
    BY <2>2, <2>3 DEF vars, treeVars
  <2>4. CASE Lifecycle
    <3>1. ASSUME NEW c \in Clients, Connect(c) \/ Disconnect(c)
          PROVE  grab'.window \in Viewable'
      BY <2>2, <3>1 DEF Connect, Disconnect, treeVars
    <3>2. CASE FreeResource
      <4>1. Newest(resources[freeing]) \in windows
        <5>1. freeing \in Clients /\ resources[freeing] # {}
          BY <3>2 DEF FreeResource, IInv, ClientTypes
        <5>2. resources[freeing] \in SUBSET (1 .. MaxWindows)
          BY <5>1 DEF IInv, ClientTypes
        <5>3. Newest(resources[freeing]) \in resources[freeing]
          BY <5>1, <5>2, NewestIs
        <5> QED BY <5>1, <5>3 DEF IInv, NoDanglingReference
      <4> QED BY <3>2, <4>1, GrabOfDestroy DEF FreeResource
    <3>3. CASE FreeEnd
      BY <2>2, <3>3 DEF FreeEnd, treeVars
    <3> QED BY <2>4, <3>1, <3>2, <3>3 DEF Lifecycle
  <2>5. CASE WindowRequest
    <3>1. ASSUME NEW c \in Clients, NEW p \in Windows, NEW mask \in Masks, CreateWindow(c, p, mask)
          PROVE  grab'.window \in Viewable'
      <4>1. mapped' = mapped /\ windows \subseteq windows'
        BY <3>1 DEF CreateWindow
      <4> QED BY <2>1, <4>1, GrabStays
    <3>2. ASSUME NEW c \in Clients, NEW p \in Windows, NEW mask \in Masks, SelectEvents(c, p, mask)
          PROVE  grab'.window \in Viewable'
      BY <2>2, <3>2 DEF SelectEvents, treeVars
    <3>3. ASSUME NEW w \in Windows, DestroyWindow(w) \/ DestroySubWindows(w)
          PROVE  grab'.window \in Viewable'
      <4>1. PICK t \in windows : Destroy(t)
        BY <3>3 DEF DestroyWindow, DestroySubWindows, Children
      <4> QED BY <4>1, GrabOfDestroy
    <3>4. ASSUME NEW w \in Windows, MapWindow(w) \/ MapSubWindows(w)
          PROVE  grab'.window \in Viewable'
      <4>1. PICK T : Map(T)
        BY <3>4 DEF MapWindow, MapSubWindows
      <4>2. mapped \subseteq mapped' /\ UNCHANGED parent
        BY <4>1 DEF Map
      <4> QED BY <2>2, <4>2
    <3>5. ASSUME NEW w \in Windows, UnmapWindow(w)
          PROVE  FALSE
      BY <2>1, <3>5 DEF UnmapWindow, GrabAfterUnmap, NoGrab
    <3>6. ASSUME NEW w \in Windows, ConfigureWindow(w)
          PROVE  grab'.window \in Viewable'
      BY <2>2, <3>6 DEF ConfigureWindow, treeVars
    <3>7. ASSUME NEW w \in Windows, NEW p \in Windows, ReparentWindow(w, p)
          PROVE  grab'.window \in Viewable'
      <4>1. UNCHANGED <<windows, mapped>>
        BY <3>7 DEF ReparentWindow
      <4> QED BY <2>1, <4>1, GrabStays
    <3>8. ASSUME NEW mode \in FocusModes, NEW w \in Windows, SetInputFocus(mode, w)
          PROVE  grab'.window \in Viewable'
      BY <2>2, <3>8 DEF SetInputFocus, treeVars
    <3>9. ASSUME NEW c \in Clients, NEW w \in Windows, SetSelectionOwner(c, w)
          PROVE  grab'.window \in Viewable'
      BY <2>2, <3>9 DEF SetSelectionOwner, treeVars
    <3> QED BY <2>5, <3>1, <3>2, <3>3, <3>4, <3>5, <3>6, <3>7, <3>8, <3>9 DEF WindowRequest
  <2>6. CASE Pointer
    <3>1. UNCHANGED treeVars
      BY <2>6 DEF Pointer, GrabPointer, UngrabPointer, PointerMove, ButtonPress, ButtonRelease
    <3> QED BY <2>2, <3>1 DEF treeVars
  <2>7. CASE Stopped
    BY <2>3, <2>7 DEF Stopped
  <2> QED BY <2>3, <2>4, <2>5, <2>6, <2>7 DEF Next
<1>2. Spec => [][Next]_vars
  BY DEF Spec
<1> QED BY <1>1, <1>2, InductiveInvariant, PTL DEF GrabEndsWithView
=============================================================================
