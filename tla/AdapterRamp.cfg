CONSTANTS
  Hops = 2
  SafeGains = {10}
  CHUNK_FRAMES = 1
  Numbers = 4
  Blocks = {1}
  Percents = {0, 55, 200}
  Ratios = {0, 17, 40}
SPECIFICATION Spec
PROPERTY ChangesRamp
