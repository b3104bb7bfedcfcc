SPECIFICATION Spec
CONSTANTS
  m1 = m1
  m2 = m2
  n = n
  Mac = {m1, m2}
  Ip = {1, 2}
  Net = {n}
  NetOf <- OneNet
  HostIp <- HostInRange
  Foreign = {}
  Tid = {1}
  OfferTime = 1
  LeaseTime = 2
  ProbeTtl = 1
  Wheel = 2
  Ops = {"crash", "clear", "enable", "network"}
  MaxNow = 3
  MaxFaults = 1
  MaxFile = 3
  MaxQueue = 1
CHECK_DEADLOCK FALSE
INVARIANTS
  TypeOK
  PromiseKept
PROPERTIES
  PoolSpec
