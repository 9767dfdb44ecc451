SPECIFICATION Spec
CONSTANTS
  u = u
  s = s
  Account = {u, s}
  Superadmin = {s}
  Place = {p1, p2}
  MaxMedia = 3
  Owner <- MCOwner
  Limit = 1
  Faults = {"crash", "error", "lost"}
  MaxFaults = 2
SYMMETRY MCSymmetry
INVARIANTS
  ReferencedIsStored
  KnownIsStored
  NothingLeaks
PROPERTIES
  FreshStays
