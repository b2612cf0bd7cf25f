SPECIFICATION Spec
CONSTANTS
  Addr <- L1Addr
  Block <- L1Block
  BlockOf <- L1BlockOf
  MATCH_OFFSET_BITS = TRUE
  RQ_SIZE = 1
  WQ_SIZE = 1
  PQ_SIZE = 1
  Uppers = {"core", "ptw"}
  Ids <- L1Ids
  Req <- L1Req
  Writes = {}
  PrefetchTargets <- L1Prefetches
  SetOf <- L1SetOf
  NUM_WAY = 1
  PageOf <- L1BlockOf
  Physical <- L1Physical
  NoAddr = "zero"
  MSHR_SIZE = 2
  CACHE_PQ_SIZE = 1
  HIT_LATENCY = 1
  FILL_LATENCY = 1
  MAX_TAG = 1
  MAX_FILL = 1
  LOWER_SIZE = 1
  WRITES_BOUND = 1
  PREFETCH_AS_LOAD = TRUE
  VIRTUAL_PREFETCH = FALSE
INVARIANTS
  OneOfEachBlock
  TranslationsKept
