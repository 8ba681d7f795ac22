SPECIFICATION FreeSpec
CONSTANTS
  Settings <- MCSettings
  L = 2
  StepTicks = 2
  AuthTicks = 2
  NPassMax = 2
  Contents = {k1, k2, k3, k4}
  Empty = silence
  Nothing = nothing
  Early = FALSE
  Chained = FALSE
INVARIANTS FreeTypeOK NeverWritesWhatPlays NthStays OwnRecordingIsNotStray
PROPERTIES ClearedStaysEmpty HistorySpec DueAtLoopStart EndComes ReplaceHeardAgain
CHECK_DEADLOCK FALSE
