SPECIFICATION ControlPlaneSpec
CONSTANTS
  Pid = {1, 2, 3}
  NoPid = NoPid
  Engines = {"python"}
  Supervised = FALSE
INVARIANT OneEngine
CHECK_DEADLOCK FALSE
