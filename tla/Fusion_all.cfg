CONSTANT Families <- AllFamilies
SPECIFICATION Spec
INVARIANTS TypeOK Lint NeverWrong NeverRefused RaisesOnlyOnDoubling NoLeftovers
CHECK_DEADLOCK FALSE
