SPECIFICATION FairSpec
CONSTANTS
  n1 = n1
  n2 = n2
  n3 = n3
  g = g
  p1 = p1
  Hops <- DirectHops
  StaticRt <- NoRoutes
  OspfRt <- NoRoutes
  RxPrefix <- MCRemote
  On <- MCOn
  Bucket <- MCBucket
  Intf = {1, 2}
  Loop = {}
  Nbr = {n1, n2}
  Remote = {p1}
  RxMetric = {1, 2, 16}
  Timers = {1}
  DefaultTimer = 1
  Metrics = {}
  Ops = {"rx", "link"}
  MaxQueue = 1
INVARIANTS
  TypeOK
  OneMetric
  ToldCurrent
  RedistHasRoute
  KernelMatches
PROPERTIES
  Withdrawn
  Recovered
