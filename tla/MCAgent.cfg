CONSTANTS
  Launchers = {w, v}
  Services = {s1, s2, s3, s4}
  Limit = 2
  NoOne = NoOne
  Size = 4
  MaxOut = 2
  PipeSize = 2
  Instructions = {i, j}
SPECIFICATION PartsSpec
INVARIANTS TypesOK SlotAccounting
PROPERTIES ImplementsPool SlotsReturned ImplementsTransfer OutputIsTransfer ClosedKills NeverBlocked AgentExits ForwardChangeRestarts
