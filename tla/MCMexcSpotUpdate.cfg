CONSTANTS
  Horizon = 5
  PageIntervals = 2
  None = None
  Traded <- GappyVenue
  Floors = {1, 3}
  FirstClock = 4
  MaxFaults = 2
  MaxEdits = 2
  ScanReaches = FALSE
SPECIFICATION Spec
INVARIANTS SuffixKeepsMarker NoUnansweredHole OnlyClosedCandles
PROPERTIES NothingRestoredBelowFloor ImplementsHistory
