SPECIFICATION Spec
CONSTANTS
  s1 = s1
  s2 = s2
  Switch <- MCSwitch
  MaxCmd = 1
  MaxMishap = 1
  MaxConn = 2
INVARIANTS PublishedIsStored
PROPERTIES Converges Obeyed
CHECK_DEADLOCK FALSE
