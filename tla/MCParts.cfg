CONSTANTS
  LF = "LF"
  CR = "CR"
  BSL = "BSL"
  EQ = "="
  HASH = "#"
  SQ = "SQ"
  DQ = "DQ"
  DOLLAR = "$"
  LBRACE = "{"
  RBRACE = "}"
  NUL = "NUL"
  BOM = "BOM"
  SOH = "SOH"
  Space = {"SP"}
  Letter = {"A", "B"}
  Digit = {"1"}
  Byte = {"LF", "CR", "BSL", "=", "#", "SQ", "DQ", "$", "{", "}", "NUL", "BOM", "SOH", "SP", "A", "B", "1", "x"}
  LineBytes = {"CR", "BSL", "=", "#", "SQ", "DQ", "NUL", "SP", "A", "1"}
  MaxLine = 6
  Values <- MCValues
  Envs <- MCEnvs
  EnvKey = {1, 2, 3, 4}
  ConfigKey = {3}
  NoKey = 0
  EnvValue = {"v", "w"}
  Environs <- MCEnvirons
  MinCap = 1
SPECIFICATION PartsSpec
INVARIANTS
  CAsAwk
  AsmAsAwk
  PortsAsAwk
  ResolvedSoFar
  ResolvesAsReference
  TableTypeOK
  TableInv
  ListingInv
  LastEntryWins
PROPERTIES
  Advances
  ImplementsMap
CHECK_DEADLOCK FALSE
