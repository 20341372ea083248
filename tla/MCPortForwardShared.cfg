CONSTANTS
  c = c
  d = d
  Conns <- TwoConns
  MaxUser <- OneEach
  MaxLocal <- OneEach
SPECIFICATION Spec
CHECK_DEADLOCK FALSE
INVARIANTS OwnFailureOnly
