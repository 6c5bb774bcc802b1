SPECIFICATION StandstillSpec
CONSTANTS
  p1 = p1
  p2 = p2
  p3 = p3
  NoProc = NoProc
  Procs <- TwoProcs
  Faults <- NoFaults
CHECK_DEADLOCK FALSE
PROPERTY WaitIsLimited
