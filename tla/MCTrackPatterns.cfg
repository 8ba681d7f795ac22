SPECIFICATION TpSpec
CONSTANTS
  Tracks <- MCTracks
  NPatterns = 2
  Ids <- MCIds
  Length <- MCLength
  Master <- MCMaster
  Keys <- MCKeys
INVARIANT ToastIsKept
PROPERTIES PassKeepsItsPattern RebuildAgrees ClipsSpec QueuedLands NearsLoopStart
CHECK_DEADLOCK FALSE
