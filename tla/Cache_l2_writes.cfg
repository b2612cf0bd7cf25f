SPECIFICATION Spec
CONSTANTS
  Addr <- L2Addr
  Block <- L2Addr
  BlockOf <- L2BlockOf
  MATCH_OFFSET_BITS = FALSE
  RQ_SIZE = 1
  WQ_SIZE = 1
  PQ_SIZE = 1
  Uppers = {"L1I", "L1D"}
  Ids <- L2Ids
  Req <- L2Req
  Writes <- L2Writes
  PrefetchTargets = {}
  SetOf <- L2SetOf
  NUM_WAY = 1
  PageOf <- L2Same
  Physical <- L2Same
  NoAddr = NoAddr
  MSHR_SIZE = 2
  CACHE_PQ_SIZE = 1
  HIT_LATENCY = 1
  FILL_LATENCY = 1
  MAX_TAG = 1
  MAX_FILL = 1
  LOWER_SIZE = 1
  WRITES_BOUND = 1
  PREFETCH_AS_LOAD = FALSE
  VIRTUAL_PREFETCH = FALSE
INVARIANTS
  MissesAwaited
PROPERTIES
  DirtyLeavesByWriteback
  ServiceSpec
