CONSTANTS
  Byte = {"LF", "CR", "BSL", "x"}
  LF = "LF"
  CR = "CR"
  BSL = "BSL"
  READ_BUF = 2
  WORK_BUF = 4
  Files <- MCFiles
  Uninit = "uninit"
SPECIFICATION FairSpec
INVARIANTS
  TypeOK
  WindowInv
  JoinInv
  NoSpuriousTooLong
  LineNumbers
PROPERTIES
  FeedsLines
  Termination
CHECK_DEADLOCK FALSE
