SPECIFICATION Spec
CONSTANTS
  Callers = {c1}
  Absent = Absent
  Empty = Empty
  MaxPairs = 1
  MaxCrashes = 1
INVARIANT
  ExistingIsLoaded
CHECK_DEADLOCK FALSE
