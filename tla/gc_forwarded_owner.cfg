SPECIFICATION Spec
CONSTANTS
  c1 = c1
  c2 = c2
  c3 = c3
  A = A
  B = B
  Nil = Nil
  None = None
  Cells = {c1, c2, c3}
  RawCells = {c3}
  Chunks = {A}
  Hosts <- ForwardedHosts
INVARIANTS RememberedIsComplete
CHECK_DEADLOCK FALSE
