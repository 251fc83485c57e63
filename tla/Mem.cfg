SPECIFICATION MCSpec
CONSTANTS
  Procs = {p1, p2, p3}
  Init1 = p1
  NPAGES = 21
  T = 3
  PGSIZE = 2
  USERSTACK = 1
  Progs <- MCProgs
  Sbrks <- MCSbrks
  MaxLine = 5
  MAXARGS = 3
  NOFILE = 6
  MORE = 4
  Bottom = 1
  Top = 14
  Sizes = {0, 1, 4}
  MaxOps = 6
  SIZE = 4
  Texts <- MCTexts
  Files <- MCFiles
  Patterns <- MCPatterns
  TextFiles <- MCTextFiles
  SearchPatterns <- MCSearchPatterns
  BUF = 2
  LINE = 5
  WORD = 2
  MoveFiles <- MCMoveFiles
  DeleteTrees <- MCDeleteTrees
INVARIANTS
  PagesAccounted
  MapMatchesSize
  CopyInBounds
  HeapSound
  RunsWhatIsMeant
  
  
PROPERTIES
  AllOrNothing
SYMMETRY Symmetry
