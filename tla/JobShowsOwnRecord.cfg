CONSTANTS
    BaseAlloc <- MCBaseAlloc
    Inputs <- MCInputs

SPECIFICATION Spec

INVARIANT JobShowsOwnRecord
