SPECIFICATION FairSpec
CONSTANTS
  Sdks = {"python", "js"}
  SlowAcks = {"python"}
  MaxCalls = 2
  MaxParts = 1
  Disturbances = {"loss"}
INVARIANTS
  TypeOK
  NoFalseBusy
PROPERTIES
  ImplementsContract
  EveryCallSettles
  SlaveFollowsClose
CHECK_DEADLOCK FALSE
