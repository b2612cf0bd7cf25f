SPECIFICATION Spec
CONSTANTS
  Addr <- L1Addr
  Block <- L1Block
  BlockOf <- L1BlockOf
  MATCH_OFFSET_BITS = TRUE
  RQ_SIZE = 1
  WQ_SIZE = 1
  PQ_SIZE = 1
  Uppers = {"core"}
  Ids <- L1Ids
  Req <- L1Req2
  Writes <- L1Writes
  PrefetchTargets = {}
  SetOf <- L1SetOf
  NUM_WAY = 1
  PageOf <- L1BlockOf
  Physical <- L1Physical
  NoAddr = "zero"
  MSHR_SIZE = 1
  CACHE_PQ_SIZE = 1
  HIT_LATENCY = 1
  FILL_LATENCY = 1
  MAX_TAG = 1
  MAX_FILL = 1
  LOWER_SIZE = 1
  WRITES_BOUND = 1
  PREFETCH_AS_LOAD = FALSE
  VIRTUAL_PREFETCH = FALSE
PROPERTIES
  DirtyLeavesByWriteback
