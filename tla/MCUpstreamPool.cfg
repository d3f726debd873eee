SPECIFICATION PoolSpec
CONSTANTS
    c1 = c1
    c2 = c2
    c3 = c3
    b1 = b1
    b2 = b2
    Conn <- ThreeConns
    None = None
    Backend <- TwoBackends
    max_idle = 2
    idle_timeout = 2
INVARIANTS
    ExclusiveOwnership
    CleanupCovers
PROPERTIES
    ImplementsLeases
    IdleIsTemporary
