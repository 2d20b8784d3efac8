CONSTANTS
  Tensors = {x, y}
  Storages = {s1, s2}
  Vals = {a, b}
  Junk = Junk
  Free = Free
  NoView = NoView
  MaxLen = 2
  Sizes = {1, 2}
  Offsets = {0, 1}
  Strides = {1}
  Backends = {"sim"}
  AllocMayFail = TRUE
SYMMETRY Interchangeable
SPECIFICATION Spec
INVARIANTS TypeOK InBoundsUnlessBroken
