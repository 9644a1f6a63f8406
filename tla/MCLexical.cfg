SPECIFICATION Spec
CONSTANTS
  f = f
  g = g
  nil = nil
  object = object
  script = script
  Closures = {f, g}
  Arity <- MCArity
  Script = script
  Values = {nil, object}
  Nil = nil
  Object = object
  FRAMES_MAX = 2
  InitialStack = 8
  STACK_MAX_SIZE = 16
  MaxStack = 4
  MaxScopes = 2
  MaxCaptures = 1
  MaxTemporaries = 2
  Allowed = {}
SYMMETRY MCSymmetry
PROPERTY LexicalSpec
