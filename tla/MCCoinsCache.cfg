SPECIFICATION Spec
CONSTANTS
  Txids = {t1}
  Outputs = {o1}
  Nullifiers = {n1}
  e = e
  r1 = r1
  r2 = r2
  Roots = {e, r1, r2}
  EmptyRoot = e
  Prev <- Tree
  Blocks = {b1}
  NullBlock = NullBlock
  NullRoot = NullRoot
INVARIANTS FlagsHonest BatchWriteAsserts BestAnchorFound
PROPERTY ImplementsMap
