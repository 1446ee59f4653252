SPECIFICATION Spec
CONSTANTS
  QMax <- MCQMax
  MaxKills <- MCMaxKills
  MaxReq = 6
  MaxFails = 1
  MaxRefused = 2
  MaxCrashes = 1
INVARIANTS InFlight LeaveAsked
PROPERTIES Answered SendReturns QuitEnds
CHECK_DEADLOCK FALSE
