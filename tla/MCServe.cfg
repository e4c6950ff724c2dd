CONSTANTS
    BaseAlloc <- MCBaseAlloc
    Inputs <- MCInputs
    Clients <- MCClients
    Asks <- MCAsks
    Threads <- MCThreads
    MaxDrift <- MCMaxDrift
    MaxDamage <- MCMaxDamage
    Word <- MCWord

SPECIFICATION FairServe

INVARIANTS
    ServeTypeOK
    ListingAgrees
    StatfsCounts
    LockBalanced

PROPERTIES
    ShowsInputs
    TreeImmutable
    Answered
