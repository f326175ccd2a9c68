SPECIFICATION Spec
CONSTANTS
    ServerCount = 2
    ClientCount = 2
    BlocksBefore = 0
    MaxBlocks = 1
    Times = {1}
    AccountCount = 2
    Slots = 2
INVARIANTS TransactionsLookedUp
