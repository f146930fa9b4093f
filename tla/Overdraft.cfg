SPECIFICATION PgSpec
CONSTANTS
    u1 = u1  u2 = u2  o1 = o1  o2 = o2  h1 = h1  h2 = h2
    Users = {u1}
    OrderIds = {o1, o2}
    Handlers = {h1, h2}
    Loop = Loop
    Zombie = Zombie
    NoRow = NoRow
    Sums = {1}
    Updates <- MCUpdatesBad
    Parts = 2
    PoolSize = 3
    MaxFaults = 0
    MaxAccrual = 3
INVARIANTS
    BalanceNeverNegative
