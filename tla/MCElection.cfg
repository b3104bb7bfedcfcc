SPECIFICATION FairSpec
CONSTANTS
  Router = {1, 2}
  Prio <- FirstVaries
  Dead = 4
  MaxDown = 2
  MaxCmd = 1
  MaxLoss = 1
INVARIANTS
  TypeOK
  NeverBoth
PROPERTIES
  Settles
  BackupTakesOver
CHECK_DEADLOCK FALSE
