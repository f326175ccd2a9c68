CONSTANTS
    Ids = {b1, b2}
    Voters = {v1, v2}
    Committers = {c1}
    Getters = {g1}
    Storers = {s1}
    Walkers = {w1}
    WritersFirst = FALSE
SPECIFICATION Spec
INVARIANTS
    PoolInv
    NoLockup
    AccessorNeverNull
CHECK_DEADLOCK FALSE
