CONSTANTS
  Hops = 4
  SafeGains = {8, 10}
  CHUNK_FRAMES = 2
  Numbers = 6
  Blocks = {1, 3}
  Percents = {0, 55, 300}
  Ratios = {40}
SPECIFICATION FairSpec
INVARIANTS TypeOK Aligned Reconstructed PeakSafe
PROPERTIES ImplementsDelayLine ReachesSetting
