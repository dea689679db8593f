SPECIFICATION Spec
CONSTANTS
  page = page
  note = note
  table = table
  cap1 = cap1
  cap2 = cap2
  hd = hd
  body1 = body1
  body2 = body2
  foot = foot
  inner = inner
  r1 = r1
  r2 = r2
  r3 = r3
  td1 = td1
  td2 = td2
  th1 = th1
  NULL = NULL
  Fault = Fault
  IndexError = IndexError
  NotFound = NotFound
  Node = {page, note, table, cap1, cap2, hd, body1, body2, foot, inner, r1, r2, r3, td1, td2, th1}
  Table = table
  Kind <- MCKind
  Outside <- MCOutside
  Contents <- MCContents
  Pools <- MCPools
INVARIANTS
  IndexIsRespected RowIndexIsLogical PartSetIsFound
CHECK_DEADLOCK FALSE
