SPECIFICATION Spec
CONSTANTS
  early = early
  late = late
  Asset <- MCAsset
  Cluster = {c1, c2}
  Draft = {d1, d2}
  None = None
  Screenshot <- MCLate
  Duplicate = {}
  Located <- MCAsset
  Fits <- MCFits
  Captured <- MCCaptured
  JobFails = TRUE
SYMMETRY Symmetry
INVARIANTS
  RowsAgree
  LinkInCluster
PROPERTIES
  DatesFollowPhotos
  MergeKeepsDrafts
