CONSTANTS
  Downloads = {d, e}
  Chunks = 3
  MaxTries = 2
  NoFile = NoFile
  User = User
SPECIFICATION Spec
CHECK_DEADLOCK FALSE
INVARIANTS TypeOK
PROPERTIES NoDownloadReplaced ImplementsStore
