CONSTANTS
  Scans = {r, s}
  Uploads = {u}
  Chunks = 2
  MaxVersion = 2
  MaxRestarts = 1
  NoFile = NoFile
  FileSystems <- Trees
  Root = "r"
  Hidden = {".h"}
  MaxDepth = 3
SPECIFICATION DirectorySpec
CHECK_DEADLOCK FALSE
INVARIANTS TypesOK UploadIsSnapshot ReportedListingIsWhole ListingIsTree
PROPERTIES ScanAnswered WalkEnds
