SPECIFICATION InOrderSpec
CONSTANTS
  p1 = p1
  p2 = p2
  p3 = p3
  NoProc = NoProc
  Procs <- ThreeProcs
  Faults <- AllFaults
CHECK_DEADLOCK FALSE
INVARIANTS
  OneWriter
  NothingLeftBehind
PROPERTIES AddEnds 
