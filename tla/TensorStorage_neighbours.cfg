CONSTANTS
  Tensors = {x, y}
  Storages = {s1, s2}
  Vals = {a, b}
  Junk = Junk
  Free = Free
  NoView = NoView
  MaxLen = 3
  Sizes = {1, 2, 3}
  Offsets = {0, 1}
  Strides = {1, 2}
  Backends = {"opencl"}
  AllocMayFail = FALSE
SYMMETRY Interchangeable
SPECIFICATION Spec
PROPERTY SameOnOpenCL
