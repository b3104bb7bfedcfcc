SPECIFICATION FairSpec
CONSTANTS
    Proc = {rcprip, rcpdns}
    Exits = {rcpdns}
    MaxInst = 3
    Wrap = 5
    MaxBeats = 2
    MaxFaults = 3
INVARIANTS
    TypeOK
    SilenceNoticed
    OneInstance
PROPERTIES
    Recovers
