CONSTANTS
    ServerCount = 2
    ClientCount = 1
    BlocksBefore = 0
    MaxBlocks = 2
    MaxFaults = 0
SPECIFICATION FairSpec
INVARIANTS
    TypeOK
    OneLifecycleStage
    SettledCommittedEverywhere
    NoVoteBeforeRelay
PROPERTIES
    StagesForward
    PackedCommittedEverywhere
