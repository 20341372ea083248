CONSTANTS
  Ports = {p, q}
  MaxSession = 2
  MaxData <- TwoThenOne
  MaxConnect = 2
SPECIFICATION PartsSpec
INVARIANTS TypeOK NoGhostChannel ToldOfEnd DataArrives OneStray PacketsAsSent
PROPERTIES ImplementsSession
SYMMETRY PortSymmetry
