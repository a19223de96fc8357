CONSTANTS
  Run = {r1, r2}
  Absent = Absent
  Old = Old
  Cleared = Cleared
  Edited = Edited
  NoRun = NoRun
  NoProc = NoProc
  Faults = {"fail", "kill", "crash"}
  MaxFaults = 2
SPECIFICATION Spec
SYMMETRY Symmetry
INVARIANTS IInv NeverMixed NoTrace
PROPERTY ImplementsAtomicInstall
CHECK_DEADLOCK FALSE
