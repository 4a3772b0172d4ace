SPECIFICATION Spec
CONSTANTS
  g = g
  a = a
  b = b
  c = c
  d = d
  e = e
  z = z
  f = f
  x = x
  y = y
  o = o
  q = q
  w = w
  relayer = relayer
  keeper = keeper
  NoHash = NoHash
  NoAccount = NoAccount
  Hash <- MCHash
  Prev <- MCPrev
  Work <- MCWork
  NetHeight <- MCNetHeight
  NetWork <- MCNetWork
  PowHashMeetsTarget <- MCPowHashMeetsTarget
  CheckTarget <- MCCheckTarget
  MaxU256 = 7
  Chain = "bitcoin"
  MEDIAN_TIME_SPAN = 1
  pow_averaging_window = 1
  difficulty_adjustment_interval = 2
  GenesisHash = g
  GenesisHeight = 4
  skip_pow_verification = FALSE
  gc_threshold = 4
  InitBlocks <- MCInitBlocks
  Account = {relayer, keeper}
  TrustedRelayers = {relayer}
  RoleOf <- MCRoleOf
  PausableFeatures = {"submit_blocks", "run_mainchain_gc"}
  Batches <- MCBatches
  Deposits = {0, 200}
  GCBatchSizes = {0, 1, 9}
  MaxTime = 1
  EntryBytes = 1
  HeaderBytes = 10
INVARIANTS
  TypeOK
  MainchainIsPath
  TipIsHeaviest
  PoolMatchesNetwork
  ReorgTearsOnlyAtCursor
  ConfirmedIsBuried
  GCNeverPanics
  StorageIsPaidFor
  OrderedBatchNeverStrands
PROPERTIES
  ImplementsHeaviestChain
  MainchainLosesOnlyOldOrOutweighed
  CallEnds
