CONSTANTS
  Run = {r1, r2}
  Absent = Absent
  Old = Old
  Cleared = Cleared
  Edited = Edited
  NoRun = NoRun
  NoProc = NoProc
  Faults = {"fail", "kill"}
  MaxFaults = 1
SPECIFICATION FairSpec
INVARIANT CandidateStopped
PROPERTIES EventuallyWhole InstallTerminates
CHECK_DEADLOCK FALSE
