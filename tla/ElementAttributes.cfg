SPECIFICATION Spec
CONSTANTS
  e1 = e1
  e2 = e2
  c1 = c1
  c2 = c2
  c3 = c3
  class = class
  ns = ns
  v = v
  NULL = NULL
  Freed = Freed
  Element = {e1, e2}
  Attr = {c1, c2, c3}
  Name <- MCName
  Namespace <- MCNamespace
  Class = class
  Value = {v}
  MaxRef = 2
  Careful = TRUE
SYMMETRY Symmetric
INVARIANTS
  ListsAreSound LooseIsPending ClassesAreCurrent
PROPERTY
  ImplementsMaps
