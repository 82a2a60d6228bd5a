SPECIFICATION InsightSpec
CONSTANTS
  g = g
  a = a
  b = b
  c = c
  d = d
  e = e
  f = f
  q = q
  t1 = t1
  t2 = t2
  t3 = t3
  t4 = t4
  t5 = t5
  t6 = t6
  t7 = t7
  t8 = t8
  n1 = 1
  n2 = 2
  Genesis = g
  Zeros = Zeros
  NoHash = NoHash
  Block <- TreeBlock
  Parent <- DeepParent
  Depth <- DeepDepth
  Tx = {t1, t2, t3, t4, t5, t6, t7, t8}
  TxsOf <- OwnTx
  Time = {1, 2}
  TimeOf <- TreeTime
  Syncer = {"historic", "peer"}
  Faults = {"kill"}
  Async3 = FALSE
  AnnounceModes = {FALSE}
  RollbackLimit = 100
  PerFile = 6
  Configs <- AllModes
  KillAnytime = FALSE
  MoveAnytime <- HistoricModes
  FirstTips <- Forks
  MaxMoves = 2
  MaxKills = 2
INVARIANTS
  InsightTypeOK
  ChainAtRest
  LinksAtRest
  IndexAtRest
  LineKept
PROPERTIES
  CatchesUp
  AnnouncedIsStored
CHECK_DEADLOCK FALSE
