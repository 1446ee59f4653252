SPECIFICATION Spec
CONSTANTS
  d1 = d1
  d2 = d2
  d3 = d3
  c1 = c1
  c2 = c2
  c3 = c3
  Dev <- MCDev
  Cell <- MCCell
  Null = Null
  MaxPkts = 2
  MaxTlv = 1
  SyncTicks = 1
  HeartTicks = 2
PROPERTY HeartbeatKeeps
CHECK_DEADLOCK FALSE
