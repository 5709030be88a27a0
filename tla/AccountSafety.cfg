SPECIFICATION Spec
CONSTANTS
  p1 = p1
  p2 = p2
  n1 = n1
  N1 = N1
  PRV = PRV
  m1 = m1
  m2 = m2
  m3 = m3
  NoMap = NoMap
  NoCoin = NoCoin
  Coins = {p1, n1}
  Tokens = {PRV, N1}
  TokenOf <- MCTokenOf
  Txs = {x1, x2}
  Updaters = {u1}
  MapIds = {m1, m2}
  LossyRPC = TRUE
INVARIANTS TempUsedIsWatched
SYMMETRY MCSymmetry
