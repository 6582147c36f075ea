SPECIFICATION SpecWithFailedWrite
CONSTANTS
  g = g
  a1 = a1
  a2 = a2
  c2 = c2
  Genesis = g
  Blocks = {a1, a2, c2}
  Parent <- TreeOf
  Chain <- Chains
  Height <- Heights
  Files = {0, 1, 2}
  BlocksPerFile = 2
  Keep = 1
  NoBlock = NoBlock
INVARIANT BestBlockLoadable
