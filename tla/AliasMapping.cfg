CONSTANTS
  ann = ann
  bob = bob
  Users = {ann, bob}
  Null = Null
  Expiry = 1
  Asked <- MCAsked
  Files <- MCFiles
  Slots = {s1, s2}
  MaxRows = 2
  MaxHistory = 3
  Days = {1}
SPECIFICATION Spec
INVARIANTS
  TypeOK
  OneRowPerPair
  GrantedWasAsked
  UploadIsTheFile
SYMMETRY Symmetry
