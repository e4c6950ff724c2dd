CONSTANT Inputs <- MCInputs

SPECIFICATION Spec

INVARIANT OptionsHonoured
