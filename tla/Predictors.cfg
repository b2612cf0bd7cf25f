SPECIFICATION PredictorsSpec
CONSTANTS
  Part = {"spp", "sms", "ipcp", "smart_stride", "cmc", "ip_stride", "ampm", "hybrid", "berti", "branch"}
  Predictor = {"bimodal", "gshare", "perceptron", "hashed_perceptron"}
  ST_WAY = 2
  PT_SET = 2
  C_SIG_MAX = 1
  GLOBAL_COUNTER_MAX = 3
  SPP_CALLS = 6
INVARIANTS
  TablesKept
  PatternsLearnt
PROPERTIES
  AskedOnce
CHECK_DEADLOCK FALSE
