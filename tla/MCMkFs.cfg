CONSTANTS
    BaseAlloc <- MCBaseAlloc
    Inputs <- MCInputs

SPECIFICATION FairSpec

INVARIANTS
    TypeOK
    TreeWellFormed
    CastIntoOwnBlock
    RecordsMatch
    MountComplete
    MountAccounted
    ListedDistinct

PROPERTIES
    SlotsGranted
    CastOnce
    MountOutcome
