SPECIFICATION Spec
CONSTANTS
  c1 = c1
  c2 = c2
  c3 = c3
  A = A
  B = B
  Nil = Nil
  None = None
  Cells = {c1, c2}
  RawCells = {}
  Chunks = {A}
  Hosts <- AtomicHosts
SYMMETRY CellsAreSymmetric
INVARIANTS TypeOK StorageIsDisjoint RememberedIsComplete RegistriesAreExact
PROPERTIES ImplementsObjectGraph
CHECK_DEADLOCK FALSE
