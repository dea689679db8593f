SPECIFICATION Spec
CONSTANTS
  e1 = e1
  e2 = e2
  t1 = t1
  t2 = t2
  t3 = t3
  cd = cd
  cm = cm
  x = x
  y = y
  NULL = NULL
  Fault = Fault
  Node = {e1, e2, t1, t2, t3, cd, cm}
  Kind <- MCKind
  Char = {x, y}
  Width = 3
  Pools <- MCPools
  MaxLength = 4
  MaxHeld = 1
PROPERTY NormalizeKeepsText
CHECK_DEADLOCK FALSE
