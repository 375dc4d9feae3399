\* Two sessions: one, and its re-arm or a restart with the first still there.
SPECIFICATION CallbackSpec
CONSTANTS
  MaxSessions = 2
INVARIANTS ThreadsOwnTheSession EverySessionReported NoChildBehindRelease NoThreadBehindUnload
PROPERTIES FinalRecordStands CallbacksReturn CancelledSessionRetires
CHECK_DEADLOCK FALSE
