SPECIFICATION Spec
CONSTANTS
  doc = doc
  h = h
  t1 = t1
  t2 = t2
  b1 = b1
  b2 = b2
  fs = fs
  o1 = o1
  o2 = o2
  ap = ap
  a1 = a1
  a2 = a2
  fm = fm
  im = im
  cm = cm
  s1 = s1
  s2 = s2
  NULL = NULL
  Fault = Fault
  Node = {doc, h, t1, t2, b1, b2, fs, o1, o2, ap, a1, a2, fm, im, cm}
  Document = doc
  Kind <- MCKind
  Has <- MCHas
  String = {s1, s2}
  Contents <- MCContents
  Pools <- MCPools
INVARIANT DestructionWaits
CHECK_DEADLOCK FALSE
