SPECIFICATION Spec
CONSTANTS
  c1 = c1
  c2 = c2
  p1 = p1
  p2 = p2
  x1 = x1
  x2 = x2
  d1 = d1
  sea = sea
  OldPlace = {p1}
  None = None
  Cluster = {c1, c2}
  Asset = {x1, x2}
  Draft = {d1}
  Content = {sea}
  AssetCluster <- MCTwoClusters
  AssetContent <- MCSameContent
  InitRole <- MCInitRole
  DraftCluster <- MCDraftCluster
  OldContent <- MCNoOldContent
  Api = {a1}
  Faults = {"crash", "commitlost"}
  MaxFaults = 2
INVARIANTS
  ReferencedIsStored
PROPERTIES
  PublishedIsFinal
  ImplementsPublication
