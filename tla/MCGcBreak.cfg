SPECIFICATION Spec
CONSTANTS
  a1 = a1
  a2 = a2
  a3 = a3
  a4 = a4
  module = module
  emptyClass = emptyClass
  Addresses = {a1, a2, a3}
  Statics = {emptyClass}
  Programs <- MCShared
  Size <- MCSize
  Nil = Nil
  MaxStack = 3
  MaxRefs = 2
  MaxFrames = 1
  Allowed = {"captured break"}
SYMMETRY MCSymmetry
INVARIANT NoDangling
