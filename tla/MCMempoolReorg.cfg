CONSTANTS
    g = g  c1 = c1  p = p  q = q  r = r  s = s  x = x  y = y  z = z
    b1 = b1  b2 = b2  b3 = b3  d1 = d1  d2 = d2  d3 = d3  R0 = R0  R1 = R1  R3 = R3
    g0 = g0  g1 = g1  k1 = k1  p0 = p0  x0 = x0  nf = nf
    Genesis = Genesis  None = None
    Txs <- MCTxs  Coinbases = {c1}  NonStandard = {g, q}  Shielded = {y, z}
    Outs <- MCOuts  Maker <- MCMaker  Ins <- MCIns
    Earliest <- MCEarliest  Latest <- MCLatest  Anchor <- MCAnchor
    Blocks <- MCBlocks  Parent <- MCParent  Chain <- MCChain  Height <- MCHeight
    Vtx <- MCVtx  Root <- MCRoot
    FailsCheck = {}  FailsConnect = {d2, d3}  Unblamed = {d3}
    Maturity = 2  CC = FALSE
    Peers = {m, n}  MaxOrphans = 1
    Relayed = {p, r, s, x, z}  Submitted = {p, q, s, x, y, z}
SPECIFICATION Spec
CONSTANTS m = m  n = n
INVARIANT MatureSpends
