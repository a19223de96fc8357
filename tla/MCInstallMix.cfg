CONSTANTS
  Run = {r1, r2}
  Absent = Absent
  Old = Old
  Cleared = Cleared
  Edited = Edited
  NoRun = NoRun
  NoProc = NoProc
  Faults = {"fail", "mix"}
  MaxFaults = 2
SPECIFICATION Spec
PROPERTY RollbackKeepsMix
CHECK_DEADLOCK FALSE
