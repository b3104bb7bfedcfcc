SPECIFICATION Spec
CONSTANTS
  e1 = e1
  e2 = e2
  ExtSeq <- MCExtSeq
  Epoch <- MCEpoch
  Role <- MCRole
  R1 = 1
  R2 = 2
  Ext = {e1}
  DdMax = 2
  LsReqMax = 2
  UpdMax = 1
  Era = 4
  Faulty = {2}
  MaxLoss = 1
  MaxBoot = 1
  MaxDead = 1
  MaxEarly = 1
  MaxChange = 1
  MaxFaults = 1
  MaxDd = 20
INVARIANTS
  TypeOK
  ListsFollowState
  RetransmissionArmed
  HigherIdIsMaster
  FullHasPeerDatabase
  UndisturbedAgree
PROPERTIES
  NeverOlder
