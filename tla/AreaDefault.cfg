SPECIFICATION Spec
CONSTANTS
  doc = doc
  f1 = f1
  f2 = f2
  s1 = s1
  g1 = g1
  o1 = o1
  o2 = o2
  o3 = o3
  s2 = s2
  i1 = i1
  i2 = i2
  a1 = a1
  a2 = a2
  v = v
  w = w
  NULL = NULL
  Fault = Fault
  Node = {doc, f1, f2, s1, g1, o1, o2, o3, s2, i1, i2, a1, a2}
  Document = doc
  Kind <- MCKind
  Pools <- MCPools
  Contents <- MCContents
  Value = {v, w}
  Text <- MCText
PROPERTY DefaultIsSaved
CHECK_DEADLOCK FALSE
