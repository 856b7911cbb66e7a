CONSTANTS
  Users = {u1, u2}
  Domains = {d1, d2}
  Requests = {r1, r2}
  Lines = {l1, l2}
  MaxRows = 2
  NoUser = NoUser
  Nothing = Nothing
SPECIFICATION Spec
INVARIANTS
  TypeOK
  OrphanFree
  AloneIsAtomic
SYMMETRY Symmetry
