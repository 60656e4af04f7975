SPECIFICATION FairSpec
CONSTANTS
  Handlers = {}
  MaxVer = 1
  MaxSess = 2
  MaxAsks = 1
  LateCaptcha = TRUE
  Signals = {"hup", "stop"}
  Leavable = {"wg", "routes"}
INVARIANTS
  DaemonTypeOK
  OneSessionUp
  TunnelInsideBypass
PROPERTIES
  StopEndsDaemon
CHECK_DEADLOCK FALSE
