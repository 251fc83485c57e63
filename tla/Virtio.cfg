SPECIFICATION FairSpec
CONSTANTS
  Procs = {1, 2, 3}
  Blocks = {1, 2, 3}
  Data = {x, y}
  NULL = NULL
  NUM = 7
  blockno <- MCblockno
INVARIANTS DescriptorsOwned
PROPERTIES ImplementsRawDisk DiskProgress
