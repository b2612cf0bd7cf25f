SPECIFICATION PipelineSpec
CONSTANTS
  Part = {"front end", "lsq"}
  Ip = {"ip1", "ip2"}
  Block = {"a", "b"}
  BlockOf <- MCBlockOf
  Line = {"ip1", "ip2"}
  LineOf <- MCLineOf
  Registers <- MCRegisters
  TRACE_LENGTH = 4
  IFETCH_BUFFER_SIZE = 2
  DIB_HIT_BUFFER_SIZE = 2
  DECODE_BUFFER_SIZE = 2
  DISPATCH_BUFFER_SIZE = 1
  DIB_WAYS = 1
  L1I_QUEUE_SIZE = 2
  a0 = a0
  a1 = a1
  b0 = b0
  Addr <- MCAddr
  DataBlock = {"a", "b"}
  DataBlockOf <- MCDataBlockOf
  Kinds <- MCKinds
  ROB_SIZE = 3
  LQ_SIZE = 2
  SQ_SIZE = 2
  RQ_SIZE = 2
  WQ_SIZE = 1
  LAST_ID = 4
INVARIANTS
  OpsHeld
  WaitsForYoungest
  InOrderUntilStopped
PROPERTIES
  PartDrains
  PartDispatched
CHECK_DEADLOCK FALSE
