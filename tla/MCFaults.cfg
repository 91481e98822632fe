SPECIFICATION Spec
SYMMETRY Symmetry
CONSTANTS
  b1 = b1
  k1 = k1
  d1 = d1
  d2 = d2
  d3 = d3
  u1 = u1
  p1 = p1
  p2 = p2
  p3 = p3
  Bucket = {b1}
  Key = {k1}
  BlobId = {d1, d2}
  UploadId = {u1}
  Proc = {p1, p2}
  None = None
  Byte = {1, 2}
  PartSize = 1
  MaxParts = 2
  PutBodies <- MCOneBody
  PartBodies <- MCSingleBytes
  CompleteCounts <- MCAllParts
  Ops = {"put", "delete", "createBucket", "deleteBucket", "createUpload", "part", "complete", "abort"}
  Faults = {"kill", "crash", "stream", "disk", "close", "remove", "store", "ambiguous", "expiry"}
INVARIANTS NoDanglingObject ObjectIntact RowsHaveBuckets OneOwner RemovalIsFinal
