SPECIFICATION Spec
CONSTANTS
  n1 = n1
  n2 = n2
  n3 = n3
  g = g
  p1 = p1
  Hops <- DirectHops
  StaticRt <- StaticViaG
  OspfRt <- OspfViaG
  RxPrefix <- MCRemote
  On <- MCOn
  Bucket <- MCBucket
  Intf = {1, 2}
  Loop = {3}
  Nbr = {n1}
  Remote = {p1}
  RxMetric = {1, 16}
  Timers = {1}
  DefaultTimer = 1
  Metrics = {2}
  Ops = {"rx", "static", "clear", "crash", "norouter", "ospf", "request", "loop"}
  MaxQueue = 1
INVARIANTS
  KernelMatches
