SPECIFICATION RelayerSpec
CONSTANTS
  g = g
  a = a
  b = b
  c = c
  x = x
  y = y
  z = z
  u = u
  d = d
  e = e
  f = f
  i = i
  relayer = relayer
  NoHash = NoHash
  NoAccount = NoAccount
  Hash <- MCHash
  Prev <- MCPrev
  Work <- MCWork
  NetHeight <- MCNetHeight
  NetWork <- MCNetWork
  PowHashMeetsTarget <- MCHash
  CheckTarget <- MCCheckTarget
  MaxU256 = 100
  Chain = "bitcoin"
  MEDIAN_TIME_SPAN = 1
  pow_averaging_window = 1
  difficulty_adjustment_interval = 2
  GenesisHash = g
  GenesisHeight = 4
  skip_pow_verification = FALSE
  gc_threshold = 9
  InitBlocks <- MCInitBlocks
  Account = {relayer}
  TrustedRelayers = {relayer}
  RoleOf <- MCRoleOf
  PausableFeatures = {}
  Batches = {}
  Deposits = {}
  GCBatchSizes = {}
  MaxTime = 0
  EntryBytes = 1
  HeaderBytes = 10
  NodeTips = {b, c, z}
  FirstNodeTip = b
  RelayerAccount = relayer
  SubmitDeposit = 1000
  max_fork_len = 2
  fetch_batch_size = 2
  submit_batch_size = 2
  min_batch_size = 1
  HeaderGas = 160
  WalkGas = 40
  TARGET_GAS_BUDGET = 250
  MaxGas = 300
  MaxFaults = 2
CHECK_DEADLOCK FALSE
INVARIANTS
  NeverAhead
PROPERTIES
  CatchesUp
