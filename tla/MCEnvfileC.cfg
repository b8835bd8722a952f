CONSTANTS
  LF = "LF"
  CR = "CR"
  BSL = "BSL"
  EQ = "="
  HASH = "#"
  SQ = "SQ"
  DQ = "DQ"
  DOLLAR = "$"
  LBRACE = "{"
  RBRACE = "}"
  NUL = "NUL"
  BOM = "BOM"
  SOH = "SOH"
  Space = {"SP"}
  Letter = {"A", "B", "E", "x"}
  Digit = {"1"}
  Byte = {"LF", "CR", "BSL", "=", "#", "SQ", "DQ", "$", "{", "}", "NUL", "BOM", "SOH", "SP", "A", "B", "E", "x", "1"}
  READ_BUF = 2
  WORK_BUF = 18
  Options <- MCAllOptions
  Args <- MCAllArgs
  Environs <- MCEnvirons
  ConfigNames <- MCConfigNames
SPECIFICATION MCSpec
INVARIANTS
  AllOrError
  ScannedWhole
  ErrorsReported
PROPERTIES
  ImplementsReference
CHECK_DEADLOCK FALSE
