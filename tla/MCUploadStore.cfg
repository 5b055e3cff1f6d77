SPECIFICATION Spec
CONSTANTS
  u1 = u1
  u2 = u2
  u3 = u3
  d1 = d1
  d2 = d2
  Uploads <- MCUploads
  Deletions <- MCDeletions
  Blobs <- MCBlobs
  Size <- MCSize
  Files <- MCFiles
  ContentLength <- MCContentLength
  Target <- MCTarget
  storageLimit = 5
  Faults = {"crash", "db", "disk"}
INVARIANTS
  TypeOK
  NoDanglingReference
  BooksBalance
  AdmittedUploadFits
  DiskWithinLimit
  UnreferencedBlobExplained
CHECK_DEADLOCK FALSE
