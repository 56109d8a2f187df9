CONSTANTS
  Horizon = 5
  PageIntervals = 1
  None = None
  Traded <- LateListing
  Floors = {}
  FirstClock = 4
  MaxFaults = 1
  MaxEdits = 1
  ScanReaches = TRUE
SPECIFICATION FairSpec
PROPERTIES PrefixRecovered TailCatchesUp
