SPECIFICATION Spec
CONSTANTS
    u1 = u1  u2 = u2  o1 = o1  o2 = o2  h1 = h1  h2 = h2
    Users = {u1}
    OrderIds = {o1}
    Handlers = {h1}
    Loop = Loop
    Zombie = Zombie
    NoRow = NoRow
    Sums = {1}
    Updates <- MCUpdates
    Parts = 1
    PoolSize = 2
    MaxFaults = 1
    MaxAccrual = Unbounded
    Malformed = {}
    Garbled = {}
    Stages = {"PROCESSING", "PROCESSED"}
    Rewards = {1}
    InTime = FALSE
    Restarts = FALSE
INVARIANTS
    Conserved
