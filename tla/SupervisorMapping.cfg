CONSTANTS
  Users = {u1, u2}
  Requests = {r1, r2}
  MaxRows = 3
SPECIFICATION MappingSpec
INVARIANTS
  MappingTypeOK
  OrphanFree
  NoDuplicates
PROPERTIES
  RemovalTakesEffect
  DemotionCuts
