SPECIFICATION LedgerSpec
CONSTANTS
  g = g
  a = a
  b = b
  d = d
  e = e
  t1 = t1
  t2 = t2
  t3 = t3
  o0 = o0
  o1 = o1
  o2 = o2
  mine = mine
  other = other
  n1 = 1
  Genesis = g
  Zeros = Zeros
  NoHash = NoHash
  Block = {g, a, b, d, e}
  Parent <- LedgerParent
  Depth <- LedgerDepth
  Tx = {t1, t2, t3}
  TxsOf <- LedgerTxs
  Time = {1}
  TimeOf <- LedgerTime
  Syncer = {"peer"}
  Faults = {"rpc"}
  Async3 = FALSE
  AnnounceModes = {FALSE}
  Out = {o0, o1, o2}
  TxOf <- LedgerTxOf
  Addr = {mine, other}
  AddrOf <- LedgerAddr
  Sat <- LedgerSat
  Vin <- LedgerVin
  TxOrder <- LedgerOrder
  MaxStamp = 2
  StampOf <- LedgerStamp
  Safe = 2
  Asked = {mine}
  Request = {"r1"}
  MaxRequests = 2
  MaxReorg = 1
  FirstTip = a
  PeerTx = {t2}
INVARIANTS
  LedgerTypeOK
  CacheTruthful
  IndexedIsStored
  BalanceExact
  UnspentExact
  ListExact
  ViewExact
  CacheInv
  AnswersInv
CHECK_DEADLOCK FALSE
