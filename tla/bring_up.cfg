\* Two patches, four sets of NVM files, three states of the controller.
SPECIFICATION FairSpec
CONSTANTS
  SegmentSize = 32
  TagHeader = 4
  NoBoard = NoBoard
  b1 = b1
  b2 = b2
  Firmware <- MCFirmware
  Boards <- MCBoards
  Entries <- MCEntries
  WakeTries = 2
  MaxTroubles = 1
  MaxAsks = 1
  LateAnswers = FALSE
INVARIANTS LadderIsRight SpeaksAtItsRate ImagesWhole HandedBack
PROPERTIES BringUpEnds WakeAnswered
CHECK_DEADLOCK FALSE
