SPECIFICATION Spec
CONSTANTS
  o1 = o1
  o2 = o2
  o3 = o3
  o4 = o4
  Tenants = {o1, o2, o3}
  Widths = {1, 2, 3}
  SlotLimit = 100
SYMMETRY TenantsAreSymmetric
INVARIANTS TypeOK RunsAreDisjoint IdsNeverAlias NothingLostOrDuplicated
CHECK_DEADLOCK FALSE
