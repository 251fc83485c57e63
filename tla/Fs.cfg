SPECIFICATION Spec
CONSTANTS
  Procs = {1, 2}
  Init1 = 1
  NINODES = 3
  Blocks = {1, 2, 3, 4}
  NDIRECT = 1
  NINDIRECT = 1
  Names = {"a", "b"}
  Paths <- MCPaths
  Modes <- MCModes
  Kinds = {"dir"}
  NFILE = 2
  NOFILE = 2
  MAXCHUNK = 1
  InitFiles <- MCInitFiles
  Images <- MCImages
  Sizes = {2}
  MaxCalls <- MCMaxCalls
INVARIANTS
  NamesBacked
  BlocksAccounted
  RefsCounted
  NoOrphan
  
  NoDeadlock
