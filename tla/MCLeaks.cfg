SPECIFICATION FairSpec
CONSTANTS
  b1 = b1
  k1 = k1
  d1 = d1
  d2 = d2
  d3 = d3
  u1 = u1
  p1 = p1
  p2 = p2
  p3 = p3
  Bucket = {b1}
  Key = {k1}
  BlobId = {d1, d2}
  UploadId = {u1}
  Proc = {p1, p2}
  None = None
  Byte = {1, 2}
  PartSize = 1
  MaxParts = 1
  PutBodies <- MCTwoBodies
  PartBodies <- MCOnePart
  CompleteCounts <- MCAllParts
  Ops = {"put", "delete", "createUpload", "part", "complete", "abort"}
  Faults = {"stream", "corrupt", "disk", "expiry"}
INVARIANTS NoOrphan
PROPERTIES UnreferencedIsTransient
