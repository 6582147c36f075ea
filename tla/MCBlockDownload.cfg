SPECIFICATION Spec
CONSTANTS
  g = g
  a1 = a1
  a2 = a2
  x1 = x1
  x2 = x2
  h = h
  f = f
  Genesis = g
  Blocks = {a1, a2, x1, x2}
  Parent <- TreeOf
  Chain <- Chains
  Height <- Heights
  Bad = {x1}
  ASSETCHAINS_CC = FALSE
  RecentHeight = 2
  Peers = {h, f}
  Prompt = {h}
  Preferred = {h}
  Has <- Tip
  Sends <- Sent
  Window = 1
  InTransit = 2
  MaxHeaders = 1
  Garbage = {1}
  BanScore = 2
  DoS100 = 1
  NoBlock = NoBlock
  NoPeer = NoPeer
INVARIANTS TypeOK FlightAgrees NotAskedTwice WindowAboveStored
PROPERTY GetsSynced
