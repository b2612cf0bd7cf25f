SPECIFICATION FairSpec
CONSTANTS
  Ids = {i1, i2}
  Upper <- MCUpper
  Cpu = {0}
  CPU = 0
  VPage <- MCVPage
  LEVELS = 3
  Offset = {0, 1}
  TABLES_PER_PAGE = 1
  PAGES = 5
  PER_BLOCK = 2
  PSCL_WAYS = 1
  MAX_READ = 1
  MAX_FILL = 1
  RQ_SIZE = 1
  HIT_LATENCY = 0
  FAULT_PENALTY = 1
  LATE = 1
INVARIANTS
  PagesApart
  WalksOnPath
PROPERTIES
  TranslationsStay
  WalksAnswered
  ServiceSpec
