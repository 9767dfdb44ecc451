SPECIFICATION Spec
CONSTANTS
  c1 = c1
  c2 = c2
  p1 = p1
  p2 = p2
  x1 = x1
  x2 = x2
  d1 = d1
  sea = sea
  OldPlace = {p1, p2}
  None = None
  Cluster = {c1}
  Asset = {x1}
  Draft = {d1}
  Content = {sea}
  AssetCluster <- MCOnePhotoCluster
  AssetContent <- MCOnePhotoContent
  InitRole <- MCOnePhotoRole
  DraftCluster <- MCDraftCluster
  OldContent <- MCTwoOldPlaces
  Api = {a1, a2}
  Faults = {"crash", "cleancrash", "commitlost", "noconnection"}
  MaxFaults = 2
SYMMETRY MCSymmetry
INVARIANTS
  OnePublisher
  ReservationsHold
PROPERTIES
  PublishesWhole
  StrandedOnlyByFault
