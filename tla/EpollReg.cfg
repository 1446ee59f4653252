SPECIFICATION Spec
CONSTANTS
  f0 = f0
  f1 = f1
  f2 = f2
  f3 = f3
  f4 = f4
  f5 = f5
  c1 = c1
  c2 = c2
  c3 = c3
  c4 = c4
  Fd <- MCFd
  Cell <- MCCell
  Null = Null
  NoFd = NoFd
  Stdin = f0
SYMMETRY MCSymmetry
INVARIANTS DispatchSound ListSound OneConnection
PROPERTY ImplementsDispatcher
CHECK_DEADLOCK FALSE
