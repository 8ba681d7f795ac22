SPECIFICATION LoaderSpec
CONSTANTS
  T3 = T3
  T4 = T4
  DARK = DARK
  other = other
  N = 2
  Tracks <- MCTracks
  Blocks <- MCBlocks
  TrackOf <- MCTrackOf
  Reverbs = {DARK}
  Other = other
  Homes <- MCHomes
  Soft = {}
  PhaseAny = TRUE
  Debounce = 1
  Grace = 1
  Repeat = 1
  Chunks = 2
  Offer <- MCLossyOffer
INVARIANTS TornIsUnbound
PROPERTY PublishesOnlyWhole
