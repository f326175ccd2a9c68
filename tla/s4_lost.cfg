CONSTANTS
    ServerCount = 4
    ClientCount = 1
    BlocksBefore = 2
    MaxBlocks = 1
    MaxFaults = 0
SPECIFICATION Spec
INVARIANTS
    SettledCommittedSomewhere
