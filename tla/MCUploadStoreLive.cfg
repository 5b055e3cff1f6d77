SPECIFICATION FairSpec
CONSTANTS
  u1 = u1
  u2 = u2
  u3 = u3
  d1 = d1
  d2 = d2
  Uploads <- LiveUploads
  Deletions <- LiveDeletions
  Blobs <- MCBlobs
  Size <- MCSize
  Files <- LiveFiles
  ContentLength <- LiveContentLength
  Target <- LiveTarget
  storageLimit = 5
  Faults = {"crash", "db"}
INVARIANTS
  NoLeftoverPart
PROPERTIES
  LockedWorkEnds
CHECK_DEADLOCK FALSE
