SPECIFICATION FairSpec
CONSTANTS
  T3 = T3
  T4 = T4
  DARK = DARK
  other = other
  N = 3
  Tracks <- MCTracks
  Blocks <- MCBlocks
  TrackOf <- MCTrackOf
  Reverbs = {DARK}
  Other = other
  Homes <- MCHomes
  Soft <- MCSoft
  PhaseAny = FALSE
  Debounce = 2
  Grace = 2
  Repeat = 2
  Chunks = 2
  Offer <- MCOffer
INVARIANTS TypeOK OneHolder InFlightIsHeld RepeatIsHeld
PROPERTIES HolderKeeps AllocatesBlocks NearsRest Settles WantedIsLoaded
