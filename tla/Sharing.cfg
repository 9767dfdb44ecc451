SPECIFICATION Spec
CONSTANTS
  Account = {1, 2}
  Superadmin = {2}
  Legacy = {1}
  Request = {q1, q2}
  Api = {a1, a2}
  Place = {p1, p2}
  Review = {r1}
  Course = {c1}
  None = None
  MaxRows = 3
SYMMETRY MCSymmetry
CONSTRAINT MCFewRows
INVARIANTS
  OnePendingRequest
  ListedIsFetched
  ServedIsOwned
PROPERTIES
  ImplementsRelation
  OwnersStay
  WrittenOnOpenPlaces
