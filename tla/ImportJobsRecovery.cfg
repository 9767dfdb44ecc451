SPECIFICATION FairSpec
CONSTANTS
  up = up
  dir = dir
  photo = photo
  zip = zip
  inner = inner
  Batch <- MCUploadOnly
  LocalBatch <- MCNoLocal
  File <- MCFile
  Upload = {zip}
  Archive = {zip}
  Members <- MCMembers
  LocalFile <- MCLocalFile
  Worker = {w1, w2}
  Api = {a1, a2}
  None = None
  MaxJobs = 2
  Faults = {"crash", "error", "stop", "lockloss", "apicrash"}
  MaxFaults = 2
INVARIANTS
  OneActiveJob
  NoOrphanedBatch
  SoundUntilFault
PROPERTIES
  BatchSettles
