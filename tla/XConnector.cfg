\* Three clients, a shutdown at any point, interrupted waits.
SPECIFICATION FairSpec
CONSTANTS
  x = x
  y = y
  z = z
  Clients <- MCClients
  NoClient = NoClient
INVARIANTS TypeOK ClientsEndFirst
PROPERTY DestroyReturns
