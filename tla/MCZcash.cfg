SPECIFICATION Spec
CONSTANTS
  NoHash = "none"
  NoAccount = "nobody"
  Hash <- MCHash
  Prev <- MCPrev
  Work <- MCWork
  Time <- MCTime
  Bits <- MCBits
  Version <- MCVersion
  NetHeight <- MCNetHeight
  NetWork <- MCNetWork
  PowHashMeetsTarget <- MCHash
  CheckTarget <- check_pow
  NetworkAccepts <- IsValid
  LimbBits = 14
  ByteBits = 2
  MaxU256 <- MCMaxU256
  Chain = "zcash"
  MEDIAN_TIME_SPAN = 3
  pow_averaging_window = 3
  difficulty_adjustment_interval = 1
  pow_target_timespan = 12
  pow_target_spacing = 4
  MAX_FUTURE_BLOCK_TIME_MTP = 40
  pow_max_adjust_down = 32
  pow_max_adjust_up = 16
  pow_allow_min_difficulty_blocks_after_height = 11
  EquihashValid <- MCEquihashValid
  proof_of_work_limit_bits = 607
  pow_limit <- MCPowLimit
  pow_allow_min_difficulty_blocks = TRUE
  MAX_FUTURE_BLOCK_TIME_LOCAL = 61
  GenesisHash = "g"
  GenesisHeight = 4
  skip_pow_verification = FALSE
  gc_threshold = 9
  InitBlocks <- MCInitBlocks
  Account = {"relayer"}
  TrustedRelayers = {"relayer"}
  RoleOf <- MCRoleOf
  PausableFeatures = {}
  Batches <- MCBatches
  Deposits = {1000}
  GCBatchSizes = {2}
  MaxTime = 1
  EntryBytes = 1
  HeaderBytes = 10
INVARIANTS
  EveryChildJudgedByNetwork
  MedianTimeNeverDecreases
