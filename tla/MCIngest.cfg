CONSTANT Inputs <- MCInputs

SPECIFICATION FairSpec

INVARIANTS
    TypeOK
    DependenciesFirst
    MostTrusted
    Outcome
    NameResolves
    MountPointArg

PROPERTIES
    SourceKept
    Ends
