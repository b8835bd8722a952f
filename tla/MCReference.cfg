CONSTANTS
  LF = "LF"
  CR = "CR"
  BSL = "BSL"
  EQ = "="
  HASH = "#"
  SQ = "SQ"
  DQ = "DQ"
  DOLLAR = "$"
  LBRACE = "{"
  RBRACE = "}"
  NUL = "NUL"
  BOM = "BOM"
  SOH = "SOH"
  Space = {"SP"}
  Letter = {"A", "B", "E", "x"}
  Digit = {"1"}
  Byte = {"LF", "CR", "BSL", "=", "#", "SQ", "DQ", "$", "{", "}", "NUL", "BOM", "SOH", "SP", "A", "B", "E", "x", "1"}
  Options <- MCOptions
  Args <- MCLongArgs
  Environs <- MCEnvirons
  ConfigNames <- MCConfigNames
SPECIFICATION Spec
INVARIANTS
  RecordsAccounted
  RefusedWhole
  LastRecordWins
  ErrorsReported
  ZigJoins
CHECK_DEADLOCK FALSE
