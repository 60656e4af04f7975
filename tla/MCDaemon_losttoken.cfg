SPECIFICATION Spec
CONSTANTS
  h1 = h1
  Handlers = {h1}
  MaxVer = 2
  MaxSess = 1
  MaxAsks = 1
  LateCaptcha = FALSE
  Signals = {}
  Leavable = {}
INVARIANT
  TokenOfLastImport
CHECK_DEADLOCK FALSE
