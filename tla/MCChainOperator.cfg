SPECIFICATION Spec
CONSTANTS
  Blocks <- OperatorTree
  Genesis = "g"
  NoBlock = NoBlock
  pprev <- Parent
  nHeight <- Height
  nChainWork <- Work
  Chain <- Branch
  BadContext = {"d3"}
  BadConnect = {}
  FutureBlocks = {"d3"}
  Notarises <- RivalNotary
  MAX_REORG_LENGTH = 9
  BLOCK_DOWNLOAD_WINDOW = 2
  ASSETCHAINS_CC = TRUE
  BlockThreads = {p1}
  RpcThreads = {r1}
  NoJob = NoJob
  MaxOperatorCalls = 2
INVARIANTS LinkedSoundly CandidatesSound ActiveChainValid RefusedWhole
PROPERTY NotarisedKept
CHECK_DEADLOCK FALSE
