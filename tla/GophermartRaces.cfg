SPECIFICATION Spec
CONSTANTS
    u1 = u1  u2 = u2  o1 = o1  o2 = o2  h1 = h1  h2 = h2
    Users = {u1, u2}
    OrderIds = {o1, o2}
    Handlers = {h1, h2}
    Loop = Loop
    Zombie = Zombie
    NoRow = NoRow
    Sums = {1}
    Updates <- MCUpdates
    Parts = 1
    PoolSize = 2
    MaxFaults = 1
    MaxAccrual = Unbounded
    Malformed = {o2}
    Garbled = {}
    Stages = {"PROCESSED"}
    Rewards = {1}
    InTime = FALSE
    Restarts = FALSE
SYMMETRY SymmetricRequests
INVARIANTS
    RepliesAreTrue
PROPERTIES
    StoreUsedAsSpecified
