\* Two write slots, three starts of the pump, three reads answered.
SPECIFICATION FairSpec
CONSTANTS
  Slot = {s1, s2}
  NoSlot = NoSlot
  MaxStarts = 3
  MaxReads = 3
  MaxLeaving = 2
  DeadlineNear = FALSE
INVARIANTS OneReader ReleaseOwnsAll DrainIsNoFault LineIsRead
PROPERTIES StopReleases
CHECK_DEADLOCK FALSE
