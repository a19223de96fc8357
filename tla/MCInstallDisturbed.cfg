CONSTANTS
  Run = {r1, r2}
  Absent = Absent
  Old = Old
  Cleared = Cleared
  Edited = Edited
  NoRun = NoRun
  NoProc = NoProc
  Faults = {"fail", "kill", "orphan", "crash", "gap", "bounce", "mix"}
  MaxFaults = 2
SPECIFICATION Spec
SYMMETRY Symmetry
INVARIANTS BaseInv OneTransaction
PROPERTIES BackupsOutliveApplying LateGuardInert
CHECK_DEADLOCK FALSE
