\* Three fences, every kind of timeout.  A behaviour is one call: it ends.
SPECIFICATION FairSpec
CONSTANTS
  NumFences = 3
  Timeouts <- MCTimeouts
  Forever = 100
  UnitsPerMs = 2
  Modulus = 8
INVARIANTS TimeHonoured DescriptorsClosed
PROPERTIES OutcomeIsTrue CallReturns
CHECK_DEADLOCK FALSE
