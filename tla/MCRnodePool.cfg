CONSTANTS
    BaseAlloc <- MCBaseAlloc
    DefaultMinSize <- MCDefaultMinSize
    PoolSizes <- MCPoolSizes
    MaxRequest = 4
    MaxLock = 2
    MaxGen = 2

SPECIFICATION FairSpec

INVARIANTS
    TypeOK
    CountersAgree
    NoDuplicateAllocation
    InodeIsSlot
    LockAccounted

PROPERTIES
    HeldNodesKept
    ProvisionEnds
    SpaceSpec
