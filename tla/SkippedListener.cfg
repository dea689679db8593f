SPECIFICATION Spec
CONSTANTS
  n1 = n1
  n2 = n2
  r1 = r1
  r2 = r2
  r3 = r3
  l1 = l1
  l2 = l2
  l3 = l3
  x = x
  y = y
  foo = foo
  bar = bar
  NULL = NULL
  Path <- OneNode
  Entry = {r1, r2, r3}
  Reg <- AllAtTarget
  Listener = {l1, l2, l3}
  EventType = {foo, bar}
  Event = {x}
  Type <- MCType
  MaxDepth = 1
  Careful = TRUE
PROPERTY
  CalledWheneverRegistered
