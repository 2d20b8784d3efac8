CONSTANT Families <- AlphaFamily
SPECIFICATION Spec
INVARIANT SameOutputs
CHECK_DEADLOCK FALSE
