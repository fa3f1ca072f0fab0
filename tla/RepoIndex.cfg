SPECIFICATION Spec
CONSTANTS
  None = None
  n1 = n1
  n2 = n2
  p = p
  q = q
  s = s
  Names = {n1, n2}
  Paths = {p, q}
  Symbols = {s}
  Requests <- MCRequests
  Segments = 2
  MaxChunks = 2
  Syncs = {c1, c2, c3}
  Limit = 1
SYMMETRY CallSymmetry
INVARIANTS RemoteFollows GraphDrift SegmentsDrift FoundIsIndexed
