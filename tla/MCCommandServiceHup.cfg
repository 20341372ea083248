CONSTANTS
  MaxOut = 1
  PipeSize = 1
SPECIFICATION Spec
CHECK_DEADLOCK FALSE
PROPERTIES FinishedClosesAnywhere
