CONSTANTS
    BaseAlloc <- MCBaseAlloc
    Inputs <- Grown

SPECIFICATION Spec

INVARIANT EstimateSuffices
