SPECIFICATION FairSpec
CONSTANTS
  Procs = {p, q, r}
  Blocks = {x, y}
  Data = {0, 1}
  Absent = Absent
  MAXOPBLOCKS = 2
  LOGSIZE = 4
  size = 4
INVARIANTS PinsMatch
PROPERTIES ImplementsAtomicDisk WaiterWoken
