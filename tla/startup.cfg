SPECIFICATION FairSpec
CONSTANTS
    ServerCount = 2
    ClientCount = 2
    BlocksBefore = 0
    MaxBlocks = 1
INVARIANTS PackerVotesSafe CommitQueuedForAll
PROPERTIES AllOnline
