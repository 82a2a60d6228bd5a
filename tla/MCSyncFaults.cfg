SPECIFICATION Spec
CONSTANTS
  g = g
  a = a
  b = b
  c = c
  d = d
  e = e
  f = f
  q = q
  t1 = t1
  t2 = t2
  t3 = t3
  t4 = t4
  t5 = t5
  t6 = t6
  t7 = t7
  t8 = t8
  n1 = 1
  n2 = 2
  Genesis = g
  Zeros = Zeros
  NoHash = NoHash
  Block <- ForkBlock
  Parent <- ForkParent
  Depth <- ForkDepth
  Tx = {t1, t2}
  TxsOf <- SharedTx
  Time = {1, 2}
  TimeOf <- ForkTime
  Syncer = {"historic"}
  AllowModes = {TRUE}
  Repeat = {}
  Redeliver = TRUE
  MaxCalls = 1
  Faults = {"rpc", "kill"}
  Async3 = FALSE
INVARIANTS
  HeightsTruthful
  TxIndexTruthful
  IInv
PROPERTIES
  BlocksOnStoredParents
