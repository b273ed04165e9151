SPECIFICATION Spec
CONSTANTS
  o1 = o1
  o2 = o2
  o3 = o3
  o4 = o4
  Tenants = {o1, o2, o3, o4}
  Widths = {1, 2, 3}
  SlotLimit = 4
SYMMETRY TenantsAreSymmetric
INVARIANTS IdsNeverAlias
CHECK_DEADLOCK FALSE
