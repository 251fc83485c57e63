SPECIFICATION CustomSpec
CONSTANTS
  Slots = {i, a, b}
  initproc = i
  CPUs = {c0, c1}
  NULL = NULL
  Ticks = Ticks
  MaxPid = 3
  KillTargets = {3}
  WaitTargets = {0, 3}
  SigTargets = {2, 3}
SYMMETRY SlotSymmetry
CHECK_DEADLOCK FALSE
INVARIANTS OnlyStoppedStray NoLostChild ReturnsParentPid
