SPECIFICATION Spec
CONSTANTS
  Client = {f1, f2}
  Plain = {k1, k2}
  Request = {r1, r2, r3}
  None = None
  Faults = {"crash", "error", "lockloss"}
  MaxFaults = 1
SYMMETRY MCSymmetry
CHECK_DEADLOCK FALSE
INVARIANTS
  RowHasObject
  NoOrphanObject
