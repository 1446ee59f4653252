SPECIFICATION FairSpec
CONSTANTS
  WorkMax = 2
  SvrMax = 2
  MqMax = 2
  b1 = b1
  b2 = b2
  b3 = b3
  Buf <- MCBuf
  NoBuf = NoBuf
  Faults <- NoFaults
PROPERTIES MainServes BufferReturned
