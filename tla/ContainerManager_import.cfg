\* One kill is enough for an import to work on a container that exists.
SPECIFICATION Spec
CONSTANTS
  MaxId = 3
  MaxFaults = 1
INVARIANTS ImportIsNew
