SPECIFICATION Spec
CONSTANTS
    u1 = u1  o1 = o1  o2 = o2  h1 = h1  h2 = h2
    Users = {u1}
    OrderIds = {o1, o2}
    Handlers = {h1, h2}
    Loop = Loop
    Zombie = Zombie
    NoRow = NoRow
    Sums <- MCSums
    Updates <- MCUpdates
    Parts = 2
    PoolSize = 2
    MaxFaults = 1
    MaxAccrual = 2
SYMMETRY Symmetric
INVARIANTS
    SpentIsListed
    PaidIsHeld
    WithdrawnIsRecorded
    CoveredUnlessRaced
    FundsInv
PROPERTIES
    ImplementsLedger
    StaysListed
    EarnedNeverLost
