CONSTANTS
  Terms = {t, u}
  MaxTyped = 1
  MaxOutput = 1
SPECIFICATION Spec
CHECK_DEADLOCK FALSE
INVARIANTS TypeOK ReadsOwnPty
PROPERTIES  HangupEnds ExitEnds
