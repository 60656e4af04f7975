SPECIFICATION BackendsSpec
CONSTANTS
  c1 = c1
  c2 = c2
  t1 = t1
  l1 = l1
  l2 = l2
  g1 = g1
  g2 = g2
  poll = poll
  hook = hook
  a1 = a1
  lte = lte
  isp = isp
  wg0 = wg0
  wg1 = wg1
  Nobody = Nobody
  None = None
  Clients = {c1, c2}
  Targets = {t1}
  MaxOut = 2
  Subnets = {l1, l2}
  Gateways = {g1, g2}
  Checkers = {poll, hook}
  Ips = {a1}
  Wans = {isp, lte}
  Wgs = {wg0, wg1}
  desired = wg0
  MaxStuck = 2
INVARIANTS
  BackendsTypeOK
  CloseMissesAtMostOne
  AssociationsAccounted
  ProxyOutsideTunnel
  NoRuleForgotten
  RoutesAccountedFor
PROPERTIES
  ClosedHandlersEnd
  GatewayFollowed
  NoSecondConnection
  RoutesFollowDefault
CHECK_DEADLOCK FALSE
