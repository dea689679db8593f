SPECIFICATION FairSpec
CONSTANTS
  n1 = n1
  n2 = n2
  r1 = r1
  r2 = r2
  r3 = r3
  l1 = l1
  l2 = l2
  l3 = l3
  x = x
  y = y
  foo = foo
  bar = bar
  NULL = NULL
  Path <- MCPath
  Entry = {r1, r2, r3}
  Reg <- MCReg
  Listener = {l1, l2}
  EventType = {foo, bar}
  Event = {x, y}
  Type <- MCType
  MaxDepth = 2
  Careful = TRUE
INVARIANT
  WalksAreOrderly
PROPERTIES
  NothingSkipped StopIsFinal Terminates
