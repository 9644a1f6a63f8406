SPECIFICATION Spec
CONSTANTS
  f = f
  g = g
  nil = nil
  object = object
  script = script
  Closures = {f, g}
  Arity <- MCArity
  Script = script
  Values = {nil, object}
  Nil = nil
  Object = object
  FRAMES_MAX = 2
  InitialStack = 3
  STACK_MAX_SIZE = 5
  MaxStack = 5
  MaxScopes = 1
  MaxCaptures = 1
  MaxTemporaries = 2
  Allowed = {"bitwise error", "overflow"}
SYMMETRY MCSymmetry
INVARIANT RunHasFrame
CHECK_DEADLOCK FALSE
