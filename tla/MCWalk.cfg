SPECIFICATION Spec
CONSTANTS
  Procs = {p1}
  Jobs <- WalkJobs
  Worlds <- WalkWorlds
  Ranges <- WalkRanges
  Levels = {0}
  OddCounts = {}
  Faults = {}
  MaxMoves = 0
INVARIANTS ParsedAsDeclared TargetIsMixerOutput DumpIsComplete WireMeansPlan
