CONSTANT Inputs <- MCInputs

SPECIFICATION Spec

INVARIANT MacConfUsable
