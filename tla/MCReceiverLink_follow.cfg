CONSTANTS
  MissedLimit = 2
  FreshFor = 0
SPECIFICATION FairSpec
INVARIANTS TypeOK
PROPERTIES LossTolerated StreamStops TrackingLossShown
