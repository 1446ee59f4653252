SPECIFICATION Spec
CONSTANTS
  NestingLimit = 2
  IntMax = 24
  BufferSize = 4
  MaxText = 24
INVARIANTS ParseExact PrintFits PatchesLead PatchKeeps PointerFinds
CHECK_DEADLOCK FALSE
