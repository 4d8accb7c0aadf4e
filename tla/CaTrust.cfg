SPECIFICATION TrustSpec
CONSTANTS
  Callers = {c1, c2}
  Absent = Absent
  Empty = Empty
  MaxPairs = 3
  MaxCrashes = 2
SYMMETRY CallSymmetry
INVARIANTS
  ImportedIsServed
  CaInv
  InstalledIsServed
PROPERTIES
  CompleteStays
CHECK_DEADLOCK FALSE
