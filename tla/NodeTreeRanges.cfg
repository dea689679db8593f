SPECIFICATION Spec
CONSTANTS
  d = d
  e1 = e1
  e2 = e2
  c1 = c1
  c2 = c2
  c3 = c3
  f = f
  t = t
  NULL = NULL
  Node = {d, c1, c2, c3, f}
  Type <- MCType
  MaxRef = 2
  Contract = "disciplined"
  Careful = TRUE
SYMMETRY Symmetric
INVARIANT
  OneListPerParent
PROPERTY
  ImplementsOrder
