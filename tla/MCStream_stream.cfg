SPECIFICATION FairStreamSpec
CONSTANTS
  r1 = r1
  r2 = r2
  None = None
  Kinds = {"wireguard", "dtls", "srtp"}
  QueueCap = 1
  CounterMod = 2
  Ssrcs = {r1, r2}
INVARIANTS
  StreamTypeOK
  RootCauseReported
  NonceUnique
PROPERTIES
  SessionUnwinds
CHECK_DEADLOCK FALSE
