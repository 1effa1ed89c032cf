CONSTANTS
  Families <- AllFamilies
  CompileVA <- Compiled_at
  RunVA <- Run_at
  MaxBlock = 3
SPECIFICATION Spec
INVARIANT TypeOK
PROPERTIES
  ImplementsInterpreter
  ComparesOrder
  FieldsMove
  HighHalfClear
CHECK_DEADLOCK FALSE
