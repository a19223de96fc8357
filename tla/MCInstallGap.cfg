CONSTANTS
  Run = {r1, r2}
  Absent = Absent
  Old = Old
  Cleared = Cleared
  Edited = Edited
  NoRun = NoRun
  NoProc = NoProc
  Faults = {"gap", "kill"}
  MaxFaults = 2
SPECIFICATION Spec
INVARIANT NeverMixed
CHECK_DEADLOCK FALSE
