SPECIFICATION Spec
CONSTANTS
  c1 = c1
  c2 = c2
  c3 = c3
  A = A
  B = B
  Nil = Nil
  None = None
  Cells = {c1, c2}
  RawCells = {}
  Chunks = {A}
  Hosts <- TextHosts
SYMMETRY CellsAreSymmetric
INVARIANTS GcLayoutInv CanonicalIsUnique CompactionMatchesAtomic StorageIsDisjoint
PROPERTIES ImplementsObjectGraph
CHECK_DEADLOCK FALSE
