SPECIFICATION Spec
CONSTANTS
  up = up
  dir = dir
  photo = photo
  zip = zip
  inner = inner
  Batch <- MCUploadOnly
  LocalBatch <- MCNoLocal
  File <- MCFile
  Upload <- MCUpload
  Archive = {zip}
  Members <- MCMembers
  LocalFile <- MCLocalFile
  Worker = {w1}
  Api = {a1}
  None = None
  MaxJobs = 1
  Faults = {}
  MaxFaults = 0
PROPERTIES
  PublishedIsFinal
