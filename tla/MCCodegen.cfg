SPECIFICATION Spec
CONSTANTS
  Names = {a, b}
  a = a
  b = b
  MethodTypes = {"method"}
  LOCAL_MAX = 4
  FUNCTION_MAX_NESTING = 3
  UPVALUE_MAX = 2
  ARGUMENT_MAX = 2
  OBJECT_MAX_NESTING = 2
  Base = 5
  Programs <- MCPrograms
  MaxForms = 5
SYMMETRY MCSymmetry
INVARIANTS TypeOK CodeExecutes HeightIsLocalCount AccessIsInnermost CapturedAreClosed
