SPECIFICATION Spec
CONSTANTS
  n1 = n1
  n2 = n2
  n3 = n3
  g = g
  p1 = p1
  Hops <- DirectHops
  StaticRt <- NoRoutes
  OspfRt <- NoRoutes
  RxPrefix <- NetOfTwo
  On <- MCOn
  Bucket <- MCBucket
  Intf = {1, 2}
  Loop = {}
  Nbr = {n1}
  Remote = {p1}
  RxMetric = {1, 16}
  Timers = {1, 2}
  DefaultTimer = 1
  Metrics = {2}
  Ops = {"rx", "connected", "network", "timer"}
  MaxQueue = 1
INVARIANTS
  ToldCurrent
  TimersRun
