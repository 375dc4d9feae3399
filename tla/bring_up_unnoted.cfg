\* A request fails between the baud command and the note of the new rate.
SPECIFICATION Spec
CONSTANTS
  SegmentSize = 32
  TagHeader = 4
  NoBoard = NoBoard
  b1 = b1
  b2 = b2
  Firmware <- MCFirmware
  Boards <- MCBoards
  Entries <- MCEntries
  WakeTries = 2
  MaxTroubles = 1
  MaxAsks = 1
  LateAnswers = FALSE
INVARIANTS AlwaysHandedBack
CHECK_DEADLOCK FALSE
