SPECIFICATION Spec
CONSTANTS
  Readers = {r1}
  Writers = {w1}
  Gets = {"wt"}
  Puts = {"wt"}
  MaxVersion = 2
  MaxRedisErrors = 0

INVARIANTS
  NeverStaleForWriter
