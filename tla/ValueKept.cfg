CONSTANT Inputs <- MCInputs

SPECIFICATION Spec

PROPERTY ValueKept
