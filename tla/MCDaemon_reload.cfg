SPECIFICATION FairSpec
CONSTANTS
  h1 = h1
  h2 = h2
  Handlers = {h1, h2}
  MaxVer = 2
  MaxSess = 1
  MaxAsks = 0
  LateCaptcha = FALSE
  Signals = {}
  Leavable = {}
INVARIANT
  SavedConfigIsAnnounced
PROPERTY
  ReloadReachesTunnel
CHECK_DEADLOCK FALSE
