CONSTANTS
  LocalWorkSize = 4
  Tile = 2
  MaxInt = 15
  Calls <- SmallCalls
SPECIFICATION Spec
INVARIANTS TypeOK EachOnce ReadsInBounds RightResult BackendsAgree RegularServed
CHECK_DEADLOCK FALSE
