CONSTANTS
  Tensors = {x, y}
  Storages = {s1}
  Vals = {a, b}
  Junk = Junk
  Free = Free
  NoView = NoView
  MaxLen = 3
  Sizes = {0, 1, 2}
  Offsets = {0, 1}
  Strides = {1, 2}
  Backends = {"sim", "opencl"}
  AllocMayFail = TRUE
SYMMETRY Interchangeable
SPECIFICATION Spec
PROPERTIES WritesInView CopyRight
