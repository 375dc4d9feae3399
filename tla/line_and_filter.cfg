\* The line: two commands, two packets or sleep bytes unasked, one reset, after
\* which it may stop.
\* The filter: three devices for a table of two places.
SPECIFICATION MCSpec
CONSTANTS
  Commands = {"setup", "accept", "ulaw", "le"}
  Data <- MCData
  MaxAcl = 2
  OddLength = 2
  MaxCommands = 2
  MaxData = 2
  MaxResets = 1
  Dev = {d1, d2, d3}
  Null = Null
  BusContexts = {b1}
  MaxDevices = 2
  NoMemory = FALSE
  Modes = {1, 2}
  Members = {qbt}
SYMMETRY Symmetric
INVARIANTS FramesArrive AnswerNamesCommand AnsweredByItsStack
CHECK_DEADLOCK FALSE
