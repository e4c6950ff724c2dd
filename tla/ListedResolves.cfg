CONSTANTS
    BaseAlloc <- MCBaseAlloc
    Inputs <- MCInputs
    Clients <- MCClients
    Asks <- MCAsks
    Threads <- MCThreads
    MaxDrift <- MCMaxDrift
    MaxDamage <- MCMaxDamage
    Word <- MCWord

SPECIFICATION ServeSpec

INVARIANT ListedResolves
