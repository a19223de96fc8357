SPECIFICATION Spec
CONSTANTS
  Procs = {p1, p2}
  Jobs <- SessionJobs
  Worlds <- SessionWorlds
  Ranges <- SessionRanges
  Levels = {0}
  OddCounts = {0, 10923}
  Faults = {"stall", "late", "short", "pad", "pipe", "kill", "unplug"}
  MaxMoves = 2
INVARIANTS TypeOK PlanInv RangeIsOneReply SetAuthorised RefusedOnlyOutside OneSessionPerDevice NothingHeld
  DumpIsComplete
PROPERTY SharedAsPanel
SYMMETRY Symmetry
