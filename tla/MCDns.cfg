SPECIFICATION FairSpec
CONSTANTS
  q1 = q1
  q2 = q2
  c1 = c1
  Client = {c1}
  Query = {q1, q2}
  Unqualified = {q2}
  HostQuery = {q1}
  Addr = {1}
  NoAddr = 0
  Kinds <- Answers
  s1 = s1
  s2 = s2
  Server = {s1, s2}
  NoServer = 0
  Tid = {1, 2}
  MaxReq = 2
  ReqTtl = 1
  CacheTtl = 1
  RateLimit = 1
  RateMod = 3
  Reconnect = 2
  MaxNet = 2
  MaxOwed = 1
  MaxFaults = 2
INVARIANTS
  TypeOK
  RequestPool
  AnswersOwed
  StaticCurrent
PROPERTIES
  HostsServed
  RequestsEnd
