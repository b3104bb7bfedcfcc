SPECIFICATION FairSpec
CONSTANTS
  e1 = e1
  e2 = e2
  ExtSeq <- MCExtSeq
  Epoch <- MCEpoch
  Role <- MCRole
  R1 = 1
  R2 = 2
  Ext = {}
  DdMax = 2
  LsReqMax = 2
  UpdMax = 1
  Era = 4
  Faulty = {1, 2}
  MaxLoss = 0
  MaxBoot = 1
  MaxDead = 0
  MaxEarly = 0
  MaxChange = 0
  MaxFaults = 2
  MaxDd = 20
PROPERTIES
  EventuallyFull
