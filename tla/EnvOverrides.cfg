CONSTANT Inputs <- MCInputs

SPECIFICATION Spec

INVARIANT EnvOverrides
