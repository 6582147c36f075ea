SPECIFICATION Spec
CONSTANTS
  Blocks <- ReorgTree
  Genesis = "g"
  NoBlock = NoBlock
  pprev <- Parent
  nHeight <- Height
  nChainWork <- Work
  Chain <- Branch
  BadContext = {}
  BadConnect = {}
  FutureBlocks = {}
  Notarises <- ReorgNotary
  MAX_REORG_LENGTH = 9
  BLOCK_DOWNLOAD_WINDOW = 2
  ASSETCHAINS_CC = FALSE
  BlockThreads = {p1}
  RpcThreads = {}
  NoJob = NoJob
  MaxOperatorCalls = 0
INVARIANT HighestCheckpoint
CHECK_DEADLOCK FALSE
