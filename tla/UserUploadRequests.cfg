CONSTANTS
  admin = admin
  ann = ann
  bob = bob
  Users = {ann, bob}
  Admins = {}
  Unknown = Unknown
  None = None
  Requests = {r1}
  MaxRows = 2
  Files <- ShortFiles
  Uploads = {1}
SPECIFICATION Spec
INVARIANTS
  UploadIsTheFile
VIEW View
