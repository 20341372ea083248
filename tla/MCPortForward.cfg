CONSTANTS
  c = c
  d = d
  Conns <- TwoConns
  MaxUser <- UserSends
  MaxLocal <- LocalSent
SPECIFICATION Spec
CHECK_DEADLOCK FALSE
INVARIANTS TypeOK NothingLost
PROPERTIES ClosedEnds ImplementsPipe
