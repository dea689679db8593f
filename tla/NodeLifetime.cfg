SPECIFICATION Spec
CONSTANTS
  d = d
  g = g
  e1 = e1
  e2 = e2
  f = f
  t = t
  NULL = NULL
  Node = {d, g, t, e1, e2, f}
  Type <- MCType
  MaxRef = 2
  Contract = "keeps_document"
SYMMETRY Symmetric
INVARIANTS
  TypeOK CountsAgree PendingIsExact OwnerOutlivesNode KeptIsNeeded NoLeak TreesInOneDocument
PROPERTIES
  HeldSubtreeSurvives OwnerForLife
