SPECIFICATION LoaderFair
CONSTANTS
  T3 = T3
  T4 = T4
  DARK = DARK
  other = other
  N = 2
  Tracks <- MCTracks
  Blocks <- MCBlocks
  TrackOf <- MCTrackOf
  Reverbs = {DARK}
  Other = other
  Homes <- MCHomes
  Soft = {}
  PhaseAny = FALSE
  Debounce = 2
  Grace = 1
  Repeat = 1
  Chunks = 1
  Offer <- MCOffer
INVARIANTS OneFrameIsEnough BoundIsWhole AgreesAtRest InitBeforeProc
PROPERTY SlotsSettle
