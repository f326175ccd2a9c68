CONSTANTS
    TxPerBlock = 3
    GenRate = 5
    AccountCount = 7
    PoolLimit = 3
    MaxStuck = 2
SPECIFICATION FairSpec
INVARIANTS
    PoolInv
    PoolBounded
PROPERTIES
    PackingGoesOn
