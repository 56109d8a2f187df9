CONSTANTS
  Horizon = 14
  Day = 2
  Month = 4
  MonthlySpan = 6
  Lag = 1
  Venues <- AllVenues
  Floors = {0, 1}
  FirstClock = 7
  MaxFaults = 1
  MaxEdits = 1
  None = None
SPECIFICATION Spec
INVARIANT FoldReproducesCandles
