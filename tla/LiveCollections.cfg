SPECIFICATION Spec
CONSTANTS
  doc = doc
  e1 = e1
  e2 = e2
  e3 = e3
  t1 = t1
  l1 = l1
  l2 = l2
  NULL = NULL
  Fault = Fault
  Node = {doc, e1, e2, e3, t1}
  Document = doc
  Element = {e1, e2, e3}
  Name <- MCName
  Space <- MCSpace
  Key <- MCKey
  List = {l1, l2}
  MaxRefs = 2
  MaxLoad = 4
INVARIANTS
  RegistryIsSound WalksMeetSubtree
