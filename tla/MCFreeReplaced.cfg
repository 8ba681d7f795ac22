SPECIFICATION FreeSpec
CONSTANTS
  Settings <- MCReplaceOnly
  L = 2
  StepTicks = 2
  AuthTicks = 2
  NPassMax = 2
  Contents = {k1, k2, k3, k4}
  Empty = silence
  Nothing = nothing
  Early = FALSE
  Chained = TRUE
INVARIANT UnmuteIsOwed
CHECK_DEADLOCK FALSE
