CONSTANTS
  admin = admin
  ann = ann
  bob = bob
  Users = {admin, ann, bob}
  Admins = {admin}
  Unknown = Unknown
  None = None
  Requests = {}
  MaxRows = 2
  Files <- AllFiles
  Uploads = {1}
SPECIFICATION Spec
INVARIANTS
  UploadIsTheFile
PROPERTIES
  UploadEnds
