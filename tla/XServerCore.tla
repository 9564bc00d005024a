----------------------------- MODULE XServerCore -----------------------------
(***************************************************************************)
(* The objects the X server shares between its clients: the tree of        *)
(* windows, the input focus, the window under the pointer, the pointer     *)
(* grab, a selection, the event listeners, and what is left of all that    *)
(* when a window is destroyed or a client goes away.                       *)
(*                                                                         *)
(* Requests run on the X server's one epoll thread and input comes from    *)
(* the activity's threads; each holds the WINDOW_MANAGER lock from its     *)
(* first access to its last, so each is one action.  XClient.freeResources *)
(* holds every lock while it goes through the resources of a client: its   *)
(* steps are the actions with freeing # NoClient, which exclude all others.*)
(*                                                                         *)
(* Windows are numbered in the order of their creation and a number is the *)
(* object, not its X id: an id that is used again names another object.    *)
(* Geometry is abstracted: the pointer may be over any viewable window.    *)
(* Attributes that a client may set at any time (override-redirect, what   *)
(* makes a window an application window, do-not-propagate masks) are       *)
(* choices.  Clients are assumed not to reparent a window below itself,    *)
(* which the X protocol forbids and the code does not test.                *)
(***************************************************************************)
EXTENDS Integers, FiniteSets

CONSTANTS
  Clients,       \* XClient objects: each connects once
  NoClient,
  MaxWindows,    \* bound: windows ever created
  Bases,         \* the id bases of ResourceIDs: one per client served
  Masks,         \* the event masks that clients use: sets of "press"
                 \* (ButtonPress) and "redirect" (SubstructureRedirect)
  EventWindows,  \* bound: the windows on which clients select events
  FocusModes,    \* the revert-to values of SetInputFocus requests
  Applications,  \* windows that are, if their client wants, applications
  Selecting      \* whether clients own selections

ASSUME XServerAssumption ==
  /\ NoClient \notin Clients
  /\ MaxWindows \in Nat
  /\ Bases \subseteq Nat
  /\ {} \in Masks /\ Masks \subseteq SUBSET {"press", "redirect"}
  /\ EventWindows \subseteq 0..MaxWindows
  /\ FocusModes \subseteq {"NONE", "POINTER_ROOT", "PARENT"}
  /\ Applications \subseteq 1..MaxWindows
  /\ Selecting \in BOOLEAN

Root == 0
NoWindow == -1
NoBase == -1
Windows == 0..MaxWindows
Events == UNION Masks

VARIABLES
  status,      \* of a client: "new", "connected" or "gone"
  base,        \* XClient.resourceIDBase
  idBases,     \* ResourceIDs.idBases, the free ones
  resources,   \* XClient.resources (windows)
  freeing,     \* the client whose freeResources holds all locks
  created,     \* number of windows created so far
  windows,     \* WindowManager.windows, the root included
  parent,      \* Window.parent
  origin,      \* Window.originClient
  mapped,      \* windows whose attributes.isMapped()
  listeners,   \* Window.eventListeners: the mask of each client's listener
  selected,    \* XClient.eventListeners: the mask of each window's listener
  deselected,  \* history: <<client, window>> whose client selected nothing
               \* after it had selected something
  focus,       \* WindowManager.focusedWindow
  revertTo,    \* WindowManager.focusRevertTo
  pointWindow, \* InputDeviceManager.pointWindow
  buttons,     \* whether a button of the pointer is down
  grab,        \* GrabManager: window, client of the listener, and
               \* releaseWithButtons
  selection,   \* SelectionManager: owner window and client of one atom
  escaped      \* an exception other than XRequestError left a handler

clientVars == <<status, base, idBases, resources, freeing>>
treeVars   == <<created, windows, parent, origin, mapped>>
eventVars  == <<listeners, selected, deselected>>
focusVars  == <<focus, revertTo>>
vars == <<clientVars, treeVars, eventVars, focusVars, pointWindow, buttons,
          grab, selection, escaped>>

NoGrab      == [window |-> NoWindow, client |-> NoClient, auto |-> FALSE]
NoSelection == [owner |-> NoWindow, client |-> NoClient]

Connected == {c \in Clients : status[c] = "connected"}

-----------------------------------------------------------------------------
(* The tree of windows. *)

\* The windows that a path through members of M leads to from the root: the
\* largest part of M that holds the parent of each of its members but the root.
Reachable(M) ==
  UNION {S \in SUBSET M : \A w \in S : w = Root \/ parent[w] \in S}

\* The window t and everything below it: what only paths through t lead to
Subtree(t) == windows \ Reachable(windows \ {t})

Children(t) == {w \in windows : parent[w] = t}

\* Window.getMapState() = VIEWABLE: the window and its ancestors are mapped.
Viewable == Reachable(mapped)

\* updatePointWindow: geometry is abstracted, the root contains every point.
UpdatePointWindow == pointWindow' \in Viewable'

\* Window.hasEventListenerFor
HasListener(e, w) == \E c \in Clients : e \in listeners[c][w]

(* Exceptions.  A disconnected client has no output stream: an event sent   *)
(* to it is a NullPointerException.  Such clients are left in a grab, as    *)
(* that of its listener, and among the listeners of its window when that    *)
(* was destroyed; whether the listener selected the event and the window    *)
(* is enabled is a choice.                                                  *)

OrphanGrab == grab.window # NoWindow /\ status[grab.client] = "gone"

\* InputDeviceManager.sendEvent
SendsToGrab == escaped' \in IF OrphanGrab THEN BOOLEAN ELSE {FALSE}

OrphanListener ==
  grab.window # NoWindow /\ \E c \in Clients : /\ "press" \in listeners[c][grab.window]
                                             /\ status[c] = "gone"

\* A press goes to every listener of the grab's window.
SendsToGrabWindow == escaped' \in IF OrphanListener THEN BOOLEAN ELSE {FALSE}

-----------------------------------------------------------------------------
(* What unmapping and freeing windows does to those who refer to them. *)

\* revertFocus, for the focused window f
Reverted(f) == CASE revertTo = "NONE" -> NoWindow
                 [] revertTo = "POINTER_ROOT" -> Root
                 [] revertTo = "PARENT" ->
                      IF parent[f] # NoWindow THEN parent[f] ELSE f

\* mutant: destroying a window reverts the focus only if it is the window
\* itself that has it
FocusOfTop(t) == IF focus = t THEN Reverted(t) ELSE focus

\* destroyWindow: unmapWindow and the removal of each window below t, the
\* deepest first, leave the focus where reverting from t leaves it
FocusAfterDestroy(t) ==
  IF focus \in Subtree(t) THEN Reverted(t) ELSE focus

\* mutant: the grab ends only if its own window is unmapped
GrabOfWindow(w) == IF w \in mapped /\ grab.window = w THEN NoGrab ELSE grab

\* GrabManager.onUnmapWindow: its parameter hides the field, so the unmapping
\* of any mapped window ends the grab
GrabAfterUnmap(w) == IF w \in mapped THEN NoGrab ELSE grab

\* SelectionManager.onFreeResource.  The client is left behind when the owner
\* is cleared, and not used again.
SelectionAfterFree(t) ==
  IF selection.owner \in Subtree(t) THEN NoSelection ELSE selection

\* XClient.onFreeResource, for each client: its table forgets the windows, but
\* the windows keep their listeners
WithoutFreed(t) ==
  [c \in Clients |-> [w \in Windows |->
     IF w \in Subtree(t) THEN {} ELSE selected[c][w]]]

OwnedAfterFree(t) == [c \in Clients |-> resources[c] \ Subtree(t)]

\* mutant: the windows below stay
RemovesTop(t) == {t}

\* removeAllSubwindowsAndWindow
Removes(t) == Subtree(t)

\* WindowManager.destroyWindow
Destroy(t) ==
  LET dead == Removes(t) IN
  /\ windows' = windows \ dead
  /\ mapped' = mapped \ dead
  /\ parent' = [w \in Windows |-> IF w \in dead THEN NoWindow ELSE parent[w]]
  /\ focus' = FocusAfterDestroy(t)
  /\ grab' = GrabAfterUnmap(t)
  /\ selection' = SelectionAfterFree(t)
  /\ selected' = WithoutFreed(t)
  /\ deselected' = {p \in deselected : p[2] \notin dead}
  /\ resources' = OwnedAfterFree(t)
  /\ UpdatePointWindow
  /\ UNCHANGED <<created, origin, listeners, revertTo, buttons>>

-----------------------------------------------------------------------------
(* Clients come and go. *)

Idle == freeing = NoClient /\ ~escaped

\* mutant: the base stays in the pool
GivesBase(b) == idBases

\* ResourceIDs.get
TakesBase(b) == idBases \ {b}

Connect(c) ==
  /\ Idle
  /\ status[c] = "new"
  /\ status' = [status EXCEPT ![c] = "connected"]
  /\ IF idBases = {}
     THEN base' = [base EXCEPT ![c] = NoBase] /\ UNCHANGED idBases
     ELSE \E b \in idBases : /\ base' = [base EXCEPT ![c] = b]
                             /\ idBases' = TakesBase(b)
  /\ UNCHANGED <<resources, freeing, treeVars, eventVars, focusVars,
                 pointWindow, buttons, grab, selection, escaped>>

\* XClient.freeResources takes every lock
Disconnect(c) ==
  /\ Idle
  /\ c \in Connected
  /\ freeing' = c
  /\ UNCHANGED <<status, base, idBases, resources, treeVars, eventVars,
                 focusVars, pointWindow, buttons, grab, selection, escaped>>

Newest(S) == CHOOSE w \in S : \A x \in S : x <= w

\* One round of its loop.  The client is still able to receive.
FreeResource ==
  /\ freeing # NoClient
  /\ ~escaped
  /\ resources[freeing] # {}
  /\ Destroy(Newest(resources[freeing]))
  /\ SendsToGrab
  /\ UNCHANGED <<status, base, idBases, freeing>>

\* mutant: listeners on windows of others stay
KeepsListeners(c) == listeners

\* The listener of every entry of the client's table leaves its window.
WithoutListenersOf(c) ==
  [listeners EXCEPT ![c] = [w \in Windows |->
     IF selected[c][w] # {} THEN {} ELSE listeners[c][w]]]

\* Its end: the client's listeners go and its base is free again;
\* ConnectedClient.destroy follows.
FreeEnd ==
  /\ freeing # NoClient
  /\ ~escaped
  /\ resources[freeing] = {}
  /\ listeners' = WithoutListenersOf(freeing)
  /\ selected' = [selected EXCEPT ![freeing] = [w \in Windows |-> {}]]
  /\ deselected' = {p \in deselected : p[1] # freeing}
  /\ idBases' = idBases \union {base[freeing]}
  /\ status' = [status EXCEPT ![freeing] = "gone"]
  /\ freeing' = NoClient
  /\ UNCHANGED <<base, resources, treeVars, focusVars, pointWindow, buttons,
                 grab, selection, escaped>>

-----------------------------------------------------------------------------
(* Requests about windows. *)

CreateWindow(c, p, mask) ==
  LET w == created + 1 IN
  /\ Idle
  /\ c \in Connected
  /\ p \in windows
  /\ created < MaxWindows
  /\ mask # {} => w \in EventWindows
  /\ created' = w
  /\ windows' = windows \union {w}
  /\ parent' = [parent EXCEPT ![w] = p]
  /\ origin' = [origin EXCEPT ![w] = c]
  /\ listeners' = [listeners EXCEPT ![c][w] = mask]
  /\ selected' = [selected EXCEPT ![c][w] = mask]
  /\ resources' = [resources EXCEPT ![c] = @ \union {w}]
  /\ UNCHANGED mapped
  /\ UpdatePointWindow
  /\ UNCHANGED <<status, base, idBases, freeing, deselected, focusVars,
                 buttons, grab, selection, escaped>>

\* Any client may destroy any window but the root.
DestroyWindow(w) ==
  /\ Idle
  /\ w \in windows \ {Root}
  /\ Destroy(w)
  /\ SendsToGrab
  /\ UNCHANGED <<status, base, idBases, freeing>>

\* The loop goes through the live list of children while destroyWindow takes
\* one out of it: it destroys one, and then ends if there were two and throws
\* a ConcurrentModificationException otherwise.
DestroySubWindows(t) ==
  /\ Idle
  /\ t \in windows
  /\ \E w \in Children(t) : Destroy(w)
  /\ IF Cardinality(Children(t)) = 2 THEN SendsToGrab ELSE escaped' = TRUE
  /\ UNCHANGED <<status, base, idBases, freeing>>

\* mapSubWindows maps the descendants of a window and then, unlike
\* the X protocol, the window itself.  A window whose parent has a listener
\* for redirection is only mapped with override-redirect.  DesktopHelper gives
\* the focus to the application windows mapped, in turn: which is last is a
\* choice.
Map(targets) ==
  LET candidates == targets \ mapped
      free == {w \in candidates : ~HasListener("redirect", parent[w])}
  IN
  /\ UNCHANGED <<clientVars, created, windows, parent, origin, eventVars,
                 buttons, grab, selection, escaped>>
  /\ \E done \in SUBSET candidates :
       /\ free \subseteq done
       /\ mapped' = mapped \union done
       /\ \/ UNCHANGED focusVars
          \/ \E w \in done \intersect Applications :
               /\ focus' = w
               /\ revertTo' = IF parent[w] = Root THEN "POINTER_ROOT"
                                                  ELSE "PARENT"
       /\ IF done = {} THEN UNCHANGED pointWindow ELSE UpdatePointWindow

MapWindow(w) == Idle /\ w \in windows /\ w \notin mapped /\ Map({w})

MapSubWindows(t) == Idle /\ t \in windows /\ Map(Subtree(t))

UnmapWindow(w) ==
  /\ Idle
  /\ w \in mapped \ {Root}
  /\ mapped' = mapped \ {w}
  /\ focus' = IF focus = w THEN Reverted(w) ELSE focus
  /\ grab' = GrabAfterUnmap(w)
  /\ SendsToGrab
  /\ UNCHANGED <<clientVars, created, windows, parent, origin, eventVars,
                 revertTo, buttons, selection>>
  /\ UpdatePointWindow

\* ConfigureWindow changes geometry and order, and may be redirected.
ConfigureWindow(w) ==
  /\ Idle
  /\ w \in windows \ {Root}
  /\ UNCHANGED <<clientVars, treeVars, eventVars, focusVars, buttons, grab,
                 selection, escaped>>
  /\ UpdatePointWindow

\* No listener hears of it: the window under the pointer and the grab stay.
ReparentWindow(w, p) ==
  /\ Idle
  /\ w \in windows \ {Root}
  /\ p \in windows \ Subtree(w)
  /\ parent' = [parent EXCEPT ![w] = p]
  /\ UNCHANGED <<clientVars, created, windows, origin, mapped, eventVars,
                 focusVars, pointWindow, buttons, grab, selection, escaped>>

SetInputFocus(mode, w) ==
  /\ Idle
  /\ w \in windows
  /\ focus' = CASE mode = "NONE" -> NoWindow
                [] mode = "POINTER_ROOT" -> Root
                [] mode = "PARENT" -> w
  /\ revertTo' = mode
  /\ UNCHANGED <<clientVars, treeVars, eventVars, pointWindow, buttons, grab,
                 selection, escaped>>

\* mutant: another client's selection does not count
CanSelectAlways(c, e, w, mask) == e \in mask => e \in Events

\* isClientCanSelectFor
CanSelect(c, e, w, mask) ==
  e \in mask => (HasListener(e, w) => e \in selected[c][w])

\* ChangeWindowAttributes with an event mask.  XClient.setEventListenerForWindow
\* leaves the old entry in the client's table when the new mask is empty.
SelectEvents(c, w, mask) ==
  /\ Idle
  /\ c \in Connected
  /\ w \in windows \intersect EventWindows
  /\ \A e \in Events : CanSelect(c, e, w, mask)
  /\ listeners' = [listeners EXCEPT ![c][w] = mask]
  /\ IF mask = {}
     THEN /\ UNCHANGED selected
          /\ deselected' = IF selected[c][w] = {} THEN deselected
                           ELSE deselected \union {<<c, w>>}
     ELSE /\ selected' = [selected EXCEPT ![c][w] = mask]
          /\ UNCHANGED deselected
  /\ UNCHANGED <<clientVars, treeVars, focusVars, pointWindow, buttons, grab,
                 selection, escaped>>

\* SetSelectionOwner: the previous owner's client is told, if it is another
SetSelectionOwner(c, w) ==
  /\ Idle
  /\ Selecting
  /\ c \in Connected
  /\ w \in windows
  /\ IF /\ selection.owner # NoWindow
        /\ selection.client # c
        /\ status[selection.client] = "gone"
     THEN escaped' = TRUE /\ UNCHANGED selection
     ELSE /\ selection' = [owner |-> w, client |-> c]
          /\ UNCHANGED escaped
  /\ UNCHANGED <<clientVars, treeVars, eventVars, focusVars, pointWindow,
                 buttons, grab>>

-----------------------------------------------------------------------------
(* The pointer. *)

GrabPointer(c, w) ==
  /\ Idle
  /\ c \in Connected
  /\ grab.window = NoWindow \/ grab.client = c
  /\ w \in Viewable
  /\ grab' = [window |-> w, client |-> c, auto |-> FALSE]
  /\ UNCHANGED <<clientVars, treeVars, eventVars, focusVars, pointWindow,
                 buttons, selection, escaped>>

\* UngrabPointer ends the grab, whoever holds it.
UngrabPointer ==
  /\ Idle
  /\ Connected # {}
  /\ grab.window # NoWindow
  /\ SendsToGrab
  /\ grab' = NoGrab
  /\ UNCHANGED <<clientVars, treeVars, eventVars, focusVars, pointWindow,
                 buttons, selection>>

PointerMove ==
  /\ Idle
  /\ SendsToGrab
  /\ UNCHANGED <<clientVars, treeVars, eventVars, focusVars, buttons, grab,
                 selection>>
  /\ UpdatePointWindow

\* The nearest window around w that has a listener for e
Nearest(e, w) ==
  {a \in windows :
     /\ w \in Subtree(a)
     /\ HasListener(e, a)
     /\ \A b \in Subtree(a) \ {a} : w \in Subtree(b) => ~HasListener(e, b)}

\* DesktopHelper: the application under the pointer gets the focus.
FocusUnderPointer ==
  \/ UNCHANGED focusVars
  \/ \E w \in Viewable \intersect Applications :
       /\ w # focus
       /\ focus' = w
       /\ revertTo' = IF parent[w] = Root THEN "POINTER_ROOT" ELSE "PARENT"

\* A press goes to the window of the grab.  Without one it grabs the pointer for
\* the first listener of the nearest window that has one, unless a
\* do-not-propagate mask is in between.
ButtonPress ==
  /\ Idle
  /\ buttons' = TRUE
  /\ FocusUnderPointer
  /\ \/ UNCHANGED grab
     \/ /\ grab.window = NoWindow
        /\ \E g \in Nearest("press", pointWindow), c \in Clients :
             /\ "press" \in listeners[c][g]
             /\ grab' = [window |-> g, client |-> c, auto |-> TRUE]
  /\ SendsToGrabWindow
  /\ UNCHANGED <<clientVars, treeVars, eventVars, pointWindow, selection>>

\* The last button released ends a grab that a press began.
ButtonRelease ==
  /\ Idle
  /\ buttons
  /\ SendsToGrab
  /\ buttons' \in BOOLEAN
  /\ grab' = IF ~buttons' /\ grab.auto THEN NoGrab ELSE grab
  /\ UNCHANGED <<clientVars, treeVars, eventVars, focusVars, pointWindow,
                 selection>>

-----------------------------------------------------------------------------

Init ==
  /\ status = [c \in Clients |-> "new"]
  /\ base = [c \in Clients |-> NoBase]
  /\ idBases = Bases
  /\ resources = [c \in Clients |-> {}]
  /\ freeing = NoClient
  /\ created = 0
  /\ windows = {Root}
  /\ parent = [w \in Windows |-> NoWindow]
  /\ origin = [w \in Windows |-> NoClient]
  /\ mapped = {Root}
  /\ listeners = [c \in Clients |-> [w \in Windows |-> {}]]
  /\ selected = [c \in Clients |-> [w \in Windows |-> {}]]
  /\ deselected = {}
  /\ focus = NoWindow
  /\ revertTo = "NONE"
  /\ pointWindow = Root
  /\ buttons = FALSE
  /\ grab = NoGrab
  /\ selection = NoSelection
  /\ escaped = FALSE

\* After such an exception nothing is promised: the model stops.
Stopped == escaped /\ UNCHANGED vars

Lifecycle == \/ \E c \in Clients : Connect(c) \/ Disconnect(c)
             \/ FreeResource \/ FreeEnd

WindowRequest ==
  /\ Connected # {}
  /\ \/ \E c \in Clients, p \in Windows, mask \in Masks :
          CreateWindow(c, p, mask) \/ SelectEvents(c, p, mask)
     \/ \E w \in Windows : \/ DestroyWindow(w) \/ DestroySubWindows(w)
                           \/ MapWindow(w) \/ MapSubWindows(w)
                           \/ UnmapWindow(w) \/ ConfigureWindow(w)
     \/ \E w, p \in Windows : ReparentWindow(w, p)
     \/ \E mode \in FocusModes, w \in Windows : SetInputFocus(mode, w)
     \/ \E c \in Clients, w \in Windows : SetSelectionOwner(c, w)

Pointer == \/ \E c \in Clients, w \in Windows : GrabPointer(c, w)
           \/ UngrabPointer \/ PointerMove \/ ButtonPress \/ ButtonRelease

Next == Lifecycle \/ WindowRequest \/ Pointer \/ Stopped

Spec == Init /\ [][Next]_vars

-----------------------------------------------------------------------------

\* Every variable has its type; the windows form a tree under the root.
TypeOK ==
  /\ status \in [Clients -> {"new", "connected", "gone"}]
  /\ base \in [Clients -> Bases \union {NoBase}]
  /\ idBases \subseteq Bases \union {NoBase}
  /\ resources \in [Clients -> SUBSET (1..MaxWindows)]
  /\ freeing \in Clients \union {NoClient}
  /\ freeing # NoClient => freeing \in Connected
  /\ created \in 0..MaxWindows
  /\ windows \subseteq 0..created
  /\ parent \in [Windows -> Windows \union {NoWindow}]
  /\ origin \in [Windows -> Clients \union {NoClient}]
  /\ Root \in mapped /\ mapped \subseteq windows
  /\ windows = Reachable(windows)
  /\ listeners \in [Clients -> [Windows -> Masks]]
  /\ selected \in [Clients -> [Windows -> Masks]]
  /\ deselected \subseteq Clients \X Windows
  /\ focus \in Windows \union {NoWindow}
  /\ revertTo \in {"NONE", "POINTER_ROOT", "PARENT"}
  /\ pointWindow \in Windows
  /\ buttons \in BOOLEAN
  /\ grab \in [window : Windows \union {NoWindow},
               client : Clients \union {NoClient}, auto : BOOLEAN]
  /\ selection \in [owner : Windows \union {NoWindow},
                    client : Clients \union {NoClient}]
  /\ escaped \in BOOLEAN

\* Whoever destroys a window, and however the tree was rearranged before,
\* nothing but a grab refers to it afterwards: not the focus, not the window
\* under the pointer, not a selection, not a client's list of resources
\* (WindowManager.removeAllSubwindowsAndWindow and its listeners).
NoDanglingReference ==
  /\ focus \in windows \union {NoWindow}
  /\ pointWindow \in windows
  /\ selection.owner \in windows \union {NoWindow}
  /\ \A c \in Clients : resources[c] \subseteq windows

\* A listener on a window that exists belongs to a connected client whose table
\* has it, and tables have only windows that exist: no event is ever sent through
\* such a window to a client that is gone.  A window that was destroyed keeps its
\* listeners for ever; only a grab that was not ended with it sends through them
\* (XClient.freeResources, setEventListenerForWindow, onFreeResource).
ListenersAreConnected ==
  /\ \A c \in Clients, w \in windows :
       listeners[c][w] # {} => selected[c][w] = listeners[c][w]
  /\ \A c \in Clients, w \in Windows :
       selected[c][w] # {} => w \in windows /\ c \in Connected

\* A client leaves no window behind, and the ids of a base that is free or was
\* given to another client are all unused (XClient.freeResources, ResourceIDs).
NothingLeftBehind ==
  /\ \A w \in windows \ {Root} : /\ origin[w] \in Connected
                                 /\ w \in resources[origin[w]]
  /\ \A c \in Connected : base[c] # NoBase =>
       /\ base[c] \notin idBases
       /\ \A d \in Connected \ {c} : base[d] # base[c]

\* Two clients select an event on a window that only one may select, only if
\* one of them had stopped selecting it before: its table still says it does
\* (WindowRequests.isClientCanSelectFor, XClient.setEventListenerForWindow).
ExclusiveUnlessDeselected ==
  \A w \in windows, e \in Events, c, d \in Clients :
     (c # d /\ e \in listeners[c][w] /\ e \in listeners[d][w]) =>
        <<c, w>> \in deselected \/ <<d, w>> \in deselected

\* A grab does not outlive the visibility of its window, unless the window or
\* an ancestor is moved in the tree (GrabManager.onUnmapWindow).
GrabEndsWithView ==
  [][(/\ grab.window \in Viewable
      /\ grab' = grab
      /\ \A w \in windows \intersect windows' : parent'[w] = parent[w])
     => grab.window \in Viewable']_vars

=============================================================================
