CONSTANTS
  a = a
  b = b
  c = c
  bad = bad
  Symbols = {a, b, c, bad}
  SafeSymbols = {a, b, c}
  Requests <- Lists
  Slots = 2
  Attempts = 3
  Markets = {usdt, other}
  Usdt = {usdt}
  Packed = {usdt}
  Archived = {usdt}
  Clients = {"binance", "bybit_spot", "bybit_linear", "okx", "hyperliquid", "kraken", "kraken_funding", "mexc_spot", "mexc_futures"}
  MaxChanges = 2
SPECIFICATION MCSpec
INVARIANTS WorkersBounded EndedAlone NoResultLost DelistedMaintained
PROPERTIES RemovalJustified CommandEnds
CHECK_DEADLOCK FALSE
