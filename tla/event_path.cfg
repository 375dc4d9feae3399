\* Four packets, the second big, two readers, one of them small, a reset and a
\* FIFO of two.
SPECIFICATION FairSpec
CONSTANTS
  Reader = {r1, r2}
  SmallReader = {r2}
  BigPacket = {2}
  Control = {c1, c2}
  Backends = {"stub", "uart"}
  NoReader = NoReader
  Depth = 2
  MaxPackets = 4
  MaxResets = 1
INVARIANTS NoLostWakeup
PROPERTIES ImplementsPipe ReaderServed
\* The host may send no more commands, and the air fall silent.
CHECK_DEADLOCK FALSE
