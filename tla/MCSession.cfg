SPECIFICATION Spec
CONSTANTS
  Texts <- MCTexts
  Typed <- MCTyped
  Repeated <- MCRepeated
  Made <- MCMade
  MaxTexts = 2
  LineSize = 18
  FirstRoom = 5
  MoreRoom = 18
  MaxCode = 20
  FirstCapacity = 2
  UINT16_MAX = 2
  NotAConstant = NotAConstant
  MaxConstants = 5
  LONG_MAX = 100
CHECK_DEADLOCK FALSE
INVARIANTS
  TypeOK
  MismatchesKnown
  OnlyBlanksSkipped
  LineReported
  StringsKeepMeaning
  LineFound
  RunsFit
  OperandsDenote
  FunctionsDenote
  Deduplicated
PROPERTIES
  TextAsTyped
  FullLineFits
