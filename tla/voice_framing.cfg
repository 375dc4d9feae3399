\* Packets of a few bytes; isochronous packets of at most five.
SPECIFICATION FramingSpec
CONSTANTS
  Links = {"l1", "l2"}
  NoLink = "none"
  Garbage = "garbage"
  Sent <- MCSent
  OutSlots = 3
  MaxIso = 5
  Cuts = {1, 2, 4, 5}
  Air <- MCAir
  SourceDepth = 3
  Settings = {0, 4, 5}
  Capacities = {2, 5}
  MaxStreams = 1
INVARIANTS OutWhole AfterDropHeard InFaithful
CHECK_DEADLOCK FALSE
