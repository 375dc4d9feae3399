\* Two transfers of either direction, one flush.
SPECIFICATION FairSpec
CONSTANTS
  t1 = t1
  t2 = t2
  Transfer = {t1, t2}
  Shape <- Shapes
  VoiceSpan = 2
  RingSlots = 1
  MaxTime = 5
  MaxFlushes = 1
INVARIANTS OneOwner NothingStranded AirRate
PROPERTIES EveryTransferEnds
CHECK_DEADLOCK FALSE
