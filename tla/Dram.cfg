SPECIFICATION FairSpec
CONSTANTS
  Ids = {i1, i2}
  Addr = {"x0", "x1", "y0"}
  Prefetched = {"y0"}
  Written = {"x0", "y0"}
  Bank = {0, 1}
  BankOf <- MCBankOf
  Group = {"g"}
  GroupOf <- MCGroupOf
  Row = {"r0", "r1"}
  RowOf <- MCRowOf
  NoRow = "none"
  NoBank = 99
  Empty = Empty
  RQ_SIZE = 2
  WQ_SIZE = 2
  tRP = 0
  tRCD = 1
  tCAS = 1
  tREF = 3
  tRFC = 1
  DBUS_TURN_AROUND = 1
  DBUS_RETURN = 2
  BANKGROUP_STALL = 0
INVARIANTS
  BanksAgree
PROPERTIES
  WritesKept
  ServiceSpec
  EverythingServed
