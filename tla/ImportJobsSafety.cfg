SPECIFICATION Spec
CONSTANTS
  up = up
  dir = dir
  photo = photo
  zip = zip
  inner = inner
  Batch <- MCBatch
  LocalBatch <- MCLocal
  File <- MCFile
  Upload <- MCUpload
  Archive = {zip}
  Members <- MCMembers
  LocalFile <- MCLocalFile
  Worker = {w1, w2}
  Api = {a1}
  None = None
  MaxJobs = 3
  Faults = {"crash", "error", "stop"}
  MaxFaults = 2
SYMMETRY MCSymmetry
INVARIANTS
  ClaimIsExclusive
  ReadyIsProcessed
PROPERTIES
  UploadReviewKept
  ImplementsRequests
