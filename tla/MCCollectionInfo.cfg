SPECIFICATION Spec
CONSTANTS
  r1 = r1
  r2 = r2
  r3 = r3
  s1 = s1
  s2 = s2
  Requests = {r1, r2, r3}
  Servers = {s1, s2}
  ServerOf <- MCServerOf
  Docs = {d1, d2}
  Pdfs = {d2}
  Fields = {tags}
  Backends = {"milvus", "elastic", "lancedb"}
  Splits = {TRUE, FALSE}
  BypassMetadataThreshold = 1
INVARIANT InfoRight
INVARIANT LatestSurvives
SYMMETRY MCSymmetry
CHECK_DEADLOCK FALSE
