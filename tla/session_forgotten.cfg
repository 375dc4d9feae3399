\* The radio after a sleep that overtook its first plug-in.
SPECIFICATION Spec
CONSTANT MaxSessions = 2
INVARIANTS RadioNotForgotten
CHECK_DEADLOCK FALSE
