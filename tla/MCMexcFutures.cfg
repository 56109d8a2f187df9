CONSTANTS
  Horizon = 4
  PageIntervals = 1
  None = None
  Traded <- GappyVenue
  Floors = {2}
  FirstClock = 3
  MaxFaults = 2
  MaxEdits = 1
  LastSettlement = 4
  FirstSettled = 3
  RatesPerPage = 2
  OldestRate = 2
  RateFloors = {4}
  MaxAttempts = 2
  MaxRescans = 2
  MaxFundingFaults = 1
  MaxFundingEdits = 1
  NoScan = NoScan
SPECIFICATION MCSpec
INVARIANTS SuffixKeepsMarker NoUnansweredHole NothingSkippedMidScan
PROPERTIES ImplementsHistory PrefixRecovered RatesKept GapsFilled
