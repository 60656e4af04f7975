SPECIFICATION FairSpec
CONSTANTS
  a1 = a1
  a2 = a2
  next = next
  A = A
  old = old
  new = new
  Workers = {a1, a2, next}
  Slots = {A}
  Links = {old, new}
  slotOf <- SlotsOfTwo
  linkOf <- LinksOfTwo
  proxyOf <- ProxiesOfTwo
  MaxProxy = 2
  MaxCred = 3
  VkCap = 2
INVARIANTS
  CredTypeOK
  FetchOnlyWhenNeeded
  OwnLinkOnly
PROPERTIES
  BadCredentialIsReplaced
  NobodyStarves
  CancelledWorkersExit
CHECK_DEADLOCK FALSE
