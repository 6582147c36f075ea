SPECIFICATION Spec
CONSTANTS
  Blocks <- FullTree
  Genesis = "g"
  NoBlock = NoBlock
  pprev <- Parent
  nHeight <- Height
  nChainWork <- Work
  Chain <- Branch
  BadContext = {"c2"}
  BadConnect = {"b3"}
  FutureBlocks = {}
  Notarises <- CrossNotary
  MAX_REORG_LENGTH = 2
  BLOCK_DOWNLOAD_WINDOW = 2
  ASSETCHAINS_CC = FALSE
  BlockThreads = {p1, p2}
  RpcThreads = {}
  NoJob = NoJob
  MaxOperatorCalls = 0
INVARIANTS LinkedExactly UnlinkedSound
PROPERTIES ActivatesBest ActivationEnds
CHECK_DEADLOCK FALSE
