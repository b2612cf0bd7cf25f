SPECIFICATION PredictorsSpec
CONSTANTS
  Part = {"spp"}
  Predictor = {"bimodal"}
  ST_WAY = 1
  PT_SET = 1
  C_SIG_MAX = 3
  GLOBAL_COUNTER_MAX = 1
  SPP_CALLS = 9
INVARIANTS
  GhrVictimFound
CHECK_DEADLOCK FALSE
