SPECIFICATION Spec
CONSTANTS
  k1 = k1
  k2 = k2
  k3 = k3
  r1 = r1
  r2 = r2
  r3 = r3
  v1 = v1
  v2 = v2
  Contents = {k1, k2, k3}
  Refs = {r1, r2, r3}
  Values = {v1, v2}
  HashOf <- Hashes
  MinCapacity = 4
  MaxEntries = 3
INVARIANTS TypeOK IndexValidates LookupIsExact
PROPERTIES IsOrderedMap StoreTerminates
