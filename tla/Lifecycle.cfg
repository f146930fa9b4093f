SPECIFICATION FairSpec
CONSTANTS
    Handlers = {h1, h2}
    Loop = Loop
    PoolSize = 1
    Waits = 3
INVARIANTS
    LifeTypeOK
    PoolOutlivesItsUsers
    NothingCutOff
PROPERTIES
    StartEnds
    StopEnds
CHECK_DEADLOCK FALSE
