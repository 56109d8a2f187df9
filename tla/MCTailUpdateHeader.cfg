CONSTANTS
  Horizon = 7
  Span = 1
  Behind = 1
  Ahead = 1
  Candles <- Gappy
  Busy <- Traded
  Floor = 1
  PageSize = 2
  Attempts = 2
  ArchiveEnd = 3
  Window = 3
  Clients = {"binance"}
  MaxFaults = 1
SPECIFICATION Spec
INVARIANT CleanBoundary
