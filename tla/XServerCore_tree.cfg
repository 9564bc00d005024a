\* Focus, selections and requested grabs; no client selects events.
CONSTANTS
  c1 = c1
  c2 = c2
  Clients <- MCClients
  NoClient = NoClient
  MaxWindows = 2
  Bases = {1, 2}
  Masks = {{}}
  EventWindows = {}
  FocusModes = {"NONE", "POINTER_ROOT", "PARENT"}
  Applications = {1, 2}
  Selecting = TRUE
SPECIFICATION Spec
SYMMETRY Symmetry
INVARIANTS TypeOK NoDanglingReference NothingLeftBehind
PROPERTY GrabEndsWithView
