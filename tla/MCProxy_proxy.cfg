SPECIFICATION ProxySpec
CONSTANTS
  s1 = s1
  a1 = a1
  a2 = a2
  a3 = a3
  a4 = a4
  f1 = f1
  f2 = f2
  t1 = t1
  Nobody = Nobody
  MaxProxy = 2
  Streams = {s1}
  Gens = {1}
  Servers = {a1, a2, a3, a4}
  AllocCap = 2
  Fetches = {f1, f2}
  Creds = 2
  Reuse = 1
  MaxErr10 = 1
  Tokens = {t1}
INVARIANTS
  LifeTypeOK
  EveryProxyCanBeStopped
  WaitsOnlyForTheCancelled
  TypeOK
  EveryAllocationHasOwner
  FailoverAfterFailure
  NeverWaitsForNobody
  VkTypeOK
  NotDisplaced
PROPERTIES
  CancelledProxyEnds
  ImplementsLease
  AllReleasedAtLast
  EveryAttemptEnds
  FetchReturns
CHECK_DEADLOCK FALSE
