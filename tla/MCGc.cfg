SPECIFICATION Spec
CONSTANTS
  a1 = a1
  a2 = a2
  a3 = a3
  a4 = a4
  module = module
  emptyClass = emptyClass
  Addresses = {a1, a2, a3, a4}
  Statics = {emptyClass, module}
  Programs <- MCPrograms
  Size <- MCSize
  Nil = Nil
  MaxStack = 3
  MaxRefs = 2
  MaxFrames = 1
  Allowed = {}
SYMMETRY MCSymmetry
INVARIANTS
  TypeOK
  NoDangling
  TriColor
  GarbageCollected
  UnmarkedBetweenCollections
