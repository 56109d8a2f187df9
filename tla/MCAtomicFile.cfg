CONSTANTS
  w1 = w1
  w2 = w2
  Writers = {w1, w2}
  Inodes = {i1, i2, i3, i4}
  None = None
  MaxSize = 2
  Size <- Sizes
SPECIFICATION Spec
INVARIANTS KeptUnderRunLock NoLitter
PROPERTY ReplacesAtomically
