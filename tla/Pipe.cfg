SPECIFICATION FairSpec
CONSTANTS
  Writers = {w1, w2}
  Readers = {r1}
  NULL = NULL
  Bytes = {x, y}
  PIPESIZE = 2
  W = 2
  Counts = {0, 2}
PROPERTIES  CallEnds
