SPECIFICATION Spec
CONSTANTS
  Inputs <- MCInputs
  BufSize = 12
  LineMax = 10
  MinVersion = 1
INVARIANTS
  StopsAtEmptyLine
  FieldsWhole
  RefusedForItself
CHECK_DEADLOCK FALSE
