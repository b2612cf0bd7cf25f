SPECIFICATION FairPartsSpec
CONSTANTS
  Part = {"main loop", "lru table", "trace", "addresses", "replacement", "btb", "renamer"}
  Policy = {"lru", "srrip", "drrip", "ship"}
  Cpu = {"c0", "c1"}
  Component = {"dram"}
  PERIOD <- MCPeriod
  PHASES <- MCPhases
  REPEAT = FALSE
  IN_QUEUE_SIZE = 1
  WIDTH = 1
  IN_FLIGHT = 1
  DEADLOCK_CYCLE = 3
  LIVELOCK_PERIOD = 5
  LIVELOCK_INSTR = 0
  TableSet = {"s0"}
  Elem <- MCElem
  TableSetOf <- MCTableSetOf
  NUM_WAY = 2
  Default <- MCDefault
  NoElem <- MCNoElem
  MAX_USES = 5
  READ_SIZE = 3
  MAX_LENGTH = 6
  MAX_PASSES = 2
  bits = 6
  Other <- MCOther
  channel_bytes = 1
  channels = 2
  bankgroups = 2
  banks = 2
  columns = 1
  ranks = 1
  rows = 8
  pref_size = 1
  NUM_SET = 8
  SetOf <- MCSetOf
  IpOf <- MCIpOf
  WAYS = 2
  Sharer = {"c0"}
  BRRIP_MAX = 2
  PSEL_MAX = 3
  SHCT_MAX = 1
  MAX_ACCESS = 7
  Branch <- MCBranch
  SIZE <- MCSize
  Target = {100}
  TagOf <- MCTagOf
  Tag <- MCTag
  BtbSet = {"s0"}
  SetOfTag <- MCSetOfTag
  BTB_WAYS = 2
  max_size = 2
  SlotOf <- MCSlotOf
  Slot = {0, 1}
  HashOf <- MCHashOf
  HISTORY = 1
  MAX_DEPTH = 3
  RAT_SIZE = 3
  NUM_REGISTERS = 3
  ROB_SIZE = 2
  SCHEDULER_SIZE = 1
  Instructions <- MCInstructions
INVARIANTS
  InLockstep
  PhasesInStep
  BlocksApart
  VictimsRight
  BranchesRemembered
PROPERTIES
  ListSpec
  ReadInOrder
  WindowSpec
  LoopTerminates
  Retires
CHECK_DEADLOCK FALSE
