CONSTANTS
  Horizon = 17
  Span = 3
  Behind = 1
  Ahead = 2
  Candles <- Gappy
  Busy <- Traded
  Floor = 1
  PageSize = 2
  Attempts = 2
  ArchiveEnd = 2
  Window = 8
  Clients = {"binance", "paged", "delisted", "seeded"}
  MaxFaults = 2
SPECIFICATION FairSpec
INVARIANTS Ascending NoHole OnlyClosed EndsAtTrade
PROPERTIES RowsKept TailCatchesUp
