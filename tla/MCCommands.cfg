SPECIFICATION Spec
CONSTANTS
  Procs = {p1}
  Jobs <- CommandJobs
  Worlds <- ArgumentWorlds
  Ranges <- WalkRanges
  Levels = {0, 60416}
  OddCounts = {}
  Faults = {"stall", "unplug", "kill"}
  MaxMoves = 2
INVARIANTS GateBeforeClaim OneSessionPerDevice
PROPERTY EveryOneEnds
