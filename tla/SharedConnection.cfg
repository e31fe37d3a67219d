SPECIFICATION RunSpec
CONSTANTS
  Runs = {"r1","r2"}
  Prewarms = {"w1","w2"}
  MaxConns = 7
  ClientSdks = {"python"}
INVARIANT ConnectionServesOneRun
CHECK_DEADLOCK FALSE
