CONSTANTS
  LF = "LF"
  CR = "CR"
  BSL = "BSL"
  EQ = "="
  HASH = "#"
  SQ = "SQ"
  DQ = "DQ"
  DOLLAR = "$"
  LBRACE = "{"
  RBRACE = "}"
  NUL = "NUL"
  BOM = "BOM"
  SOH = "SOH"
  Space = {"SP"}
  Letter = {"A", "B"}
  Digit = {"1"}
  Byte = {"LF", "CR", "BSL", "=", "#", "SQ", "DQ", "$", "{", "}", "NUL", "BOM", "SOH", "SP", "A", "B", "1"}
  LineBytes = {"CR", "BSL", "=", "#", "SQ", "DQ", "NUL", "SP", "A", "1"}
  MaxLine = 6
SPECIFICATION LineSpec
INVARIANTS
  BackendsAgree
CHECK_DEADLOCK FALSE
