CONSTANTS
  FileSystems <- OneMount
  Root = "r"
  Hidden = {".h"}
  MaxDepth = 3
SPECIFICATION Spec
CHECK_DEADLOCK FALSE
INVARIANTS OnlyLinksOmitted
