SPECIFICATION FairSpec
CONSTANTS
  Slots = {i, a, b}
  initproc = i
  CPUs = {c0, c1}
  NULL = NULL
  Ticks = Ticks
  MaxPid = 3
  KillTargets = {2}
INVARIANTS RunsOnOneCpu NoLostWakeup NoDanglingParent NoBystanderKilled
PROPERTIES ImplementsTree OrphanReaped KilledExits
