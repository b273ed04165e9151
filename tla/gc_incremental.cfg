SPECIFICATION Spec
CONSTANTS
  c1 = c1
  c2 = c2
  c3 = c3
  A = A
  B = B
  Nil = Nil
  None = None
  Cells = {c1, c2, c3}
  RawCells = {c3}
  Chunks = {A}
  Hosts <- IncrementalHosts
SYMMETRY CellsAreSymmetric
INVARIANTS GcReferenceInv GcNameInv GcShadowInv RegistriesAreExact StorageIsDisjoint NoBlackToWhite RememberedIsComplete CompactionMatchesAtomic MajorCollectionIsPrecise
CHECK_DEADLOCK FALSE
