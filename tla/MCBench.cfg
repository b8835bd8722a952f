CONSTANTS
  None = None
  Entries <- MCEntries
  Hosts <- MCHosts
  ByPath <- MCByPath
  Durations = {1, 7}
  Gaps = {0, 1}
  Cvs = {20, 400, 403, 900}
  MAX_SPECS = 2
  MAX_CORPUS = 2
  WARMUP_BURN_IN = 2
  WARMUP_MIN_N = 2
  WARMUP_SAMPLE_N = 2
  WARMUP_SLOPE_STR = 2
  WARMUP_ITER_CAP = 11
  WARMUP_CAP = 14
  MEASURE = 3
  CV_SLOPE_THRESH = 5
  CV_THRESHOLD = 30
SPECIFICATION Spec
INVARIANTS
  SteadyOrSpent
  MeanBelowBest
  ComparedAll
PROPERTY
  Terminates
CHECK_DEADLOCK FALSE
