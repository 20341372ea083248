CONSTANTS
  c = c
  d = d
  Conns <- OneConn
  MaxUser <- OneChunk
  MaxLocal <- OneChunk
SPECIFICATION Spec
CHECK_DEADLOCK FALSE
PROPERTIES EofClosesChannel
