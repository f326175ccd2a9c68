CONSTANTS
    ServerCount = 2
    ClientCount = 2
    BlocksBefore = 0
    MaxBlocks = 1
    MaxFaults = 1
SPECIFICATION Spec
INVARIANTS
    CommittedCertified
    CertInv
    OneLifecycleStage
    VoteWorkBounded
    SettledCommittedEverywhere
    SettledCommittedSomewhere
PROPERTIES
    ImplementsCommit
