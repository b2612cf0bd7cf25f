SPECIFICATION CoreSpec
CONSTANTS
  Part = {"renamer", "channel"}
  RAT_SIZE = 4
  NUM_REGISTERS = 4
  ROB_SIZE = 3
  SCHEDULER_SIZE = 2
  Instructions <- MCInstructions
  a0 = a0
  a1 = a1
  b0 = b0
  Addr = {a0, a1, b0}
  Block <- MCBlock
  BlockOf <- MCBlockOf
  Ids = {i1, i2}
  MATCH_OFFSET_BITS = TRUE
  RQ_SIZE = 2
  WQ_SIZE = 2
  PQ_SIZE = 1
  Translations = {FALSE}
SYMMETRY MCIdSymmetry
INVARIANTS
  OnePlace
  NoLeak
  OperandsFollowProgramOrder
  RegisterAtHand
  QueuesKept
PROPERTIES
  WritesSeen
  ServiceSpec
