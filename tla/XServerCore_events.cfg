\* Selected events and the grabs of button presses; focus stays away.
CONSTANTS
  c1 = c1
  c2 = c2
  Clients <- MCClients
  NoClient = NoClient
  MaxWindows = 2
  Bases = {1}
  Masks = {{}, {"press"}, {"press", "redirect"}}
  EventWindows = {1}
  FocusModes = {}
  Applications = {}
  Selecting = FALSE
SPECIFICATION Spec
SYMMETRY Symmetry
INVARIANTS ListenersAreConnected ExclusiveUnlessDeselected
