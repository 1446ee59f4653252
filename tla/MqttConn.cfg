SPECIFICATION Spec
CONSTANTS
  d1 = d1
  d2 = d2
  Device <- MCDevice
  Info = info
  Fixed = fixed
  MaxLost = 3
INVARIANTS LateResubscribes
PROPERTY LossRecovers
CHECK_DEADLOCK FALSE
