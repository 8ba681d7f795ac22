SPECIFICATION PanelSpec
CONSTANTS
  T3 = T3
  T4 = T4
  DARK = DARK
  other = other
  N = 2
  Tracks <- MCTracks
  Blocks <- MCBlocks
  TrackOf <- MCTrackOf
  Reverbs = {DARK}
  Other = other
  Homes <- MCHomes
  Soft = {}
  PhaseAny = FALSE
  Debounce = 1
  Grace = 2
  Repeat = 1
  Chunks = 1
  Offer <- MCOffer
PROPERTIES VetoStands AnnouncedOnce UsedHoldMeansHeld
