CONSTANTS
  None = None
  NUL = "NUL"
  BUF_SIZE = 2
  Temps = {"t1", "t2", "t3", "t4", "t5", "t6"}
  REFERENCE = "awk"
  Entries <- MCEntries
  Calls <- MCCalls
  Scans <- MCScans
  Drives <- MCDrives
SPECIFICATION GateSpec
INVARIANTS
  NoSettingRefused
  ConfigHeard
  RunsWhatWasAsked
  ScanAccounts
  GateHolds
  DiskAccounted
  ListsAll
CHECK_DEADLOCK FALSE
