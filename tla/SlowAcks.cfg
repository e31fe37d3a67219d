SPECIFICATION Spec
CONSTANTS
  Sdks = {"js"}
  SlowAcks = {"js"}
  MaxCalls = 2
  MaxParts = 1
  Disturbances = {"loss", "cancel"}
PROPERTIES
  OnlyTornBreaksContract
CHECK_DEADLOCK FALSE
