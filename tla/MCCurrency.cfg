SPECIFICATION CurrencySpec
CONSTANTS
  Client = {"first", "second", "third"}
  Delay = 3
  Latency = 2
  MaxTime = 8
INVARIANTS
  CurrencyTypeOK
  OneRefresh
PROPERTIES
  PricesFresh
CHECK_DEADLOCK FALSE
