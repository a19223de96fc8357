CONSTANTS
  Run = {r1, r2}
  Absent = Absent
  Old = Old
  Cleared = Cleared
  Edited = Edited
  NoRun = NoRun
  NoProc = NoProc
  Faults = {"fail", "kill"}
  MaxFaults = 2
SPECIFICATION Spec
INVARIANT RollbackRunnable
CHECK_DEADLOCK FALSE
