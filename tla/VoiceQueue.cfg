SPECIFICATION LiveSpec
CONSTANTS
  Main = main
  pkt = pkt
  work = work
  opendoor = opendoor
  Workers <- MCWorkers
  Prompts <- MCPrompts
  Exit = exit
  Empty = empty
  Torn = torn
  MsgMax = 1
  MaxPrompts = 2
INVARIANTS NoExitWithoutQuit
PROPERTIES SenderReturns QuitEnds
CHECK_DEADLOCK FALSE
