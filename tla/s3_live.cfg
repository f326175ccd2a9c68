CONSTANTS
    ServerCount = 3
    ClientCount = 1
    BlocksBefore = 1
    MaxBlocks = 1
    MaxFaults = 0
SPECIFICATION FairSpec
INVARIANTS
    OnlyBPSMerges
    VotedOnlySynced
    SyncedArrives
PROPERTIES
    ImplementsCommit
    PackedCommittedSomewhere
