SPECIFICATION UpgradeSpec
CONSTANTS
  NoHash = "none"
  NoAccount = "nobody"
  Hash <- MCHash
  Prev <- MCPrev
  Work <- MCWork
  Time <- MCTime
  Bits <- MCBits
  Version <- MCVersion
  NetHeight <- MCNetHeight
  NetWork <- MCNetWork
  PowHashMeetsTarget <- MCHash
  CheckTarget <- check_pow
  NetworkAccepts <- IsValid
  LimbBits = 14
  ByteBits = 2
  MaxU256 <- MCMaxU256
  FirstBuild = "V2"
  Chain = "dogecoin"
  MEDIAN_TIME_SPAN = 3
  pow_averaging_window = 1
  difficulty_adjustment_interval = 1
  pow_target_timespan = 8
  pow_target_spacing = 8
  DigishieldHeight = 0
  MinDifficultyHeight = 7
  proof_of_work_limit_bits = 607
  pow_limit <- MCPowLimit
  pow_allow_min_difficulty_blocks = TRUE
  MAX_FUTURE_BLOCK_TIME_LOCAL = 62
  GenesisHash = "g"
  GenesisHeight = 4
  skip_pow_verification = FALSE
  gc_threshold = 6
  InitBlocks <- MCInitBlocks
  Account = {"relayer"}
  TrustedRelayers = {"relayer"}
  RoleOf <- MCRoleOf
  PausableFeatures = {}
  Batches <- MCBatches
  Deposits = {1000}
  GCBatchSizes = {2}
  MaxTime = 1
  EntryBytes = 1
  HeaderBytes = 10
INVARIANT EveryChildJudgedByNetwork
