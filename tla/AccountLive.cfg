SPECIFICATION FairSpec
CONSTANTS
  p1 = p1
  p2 = p2
  n1 = n1
  N1 = N1
  PRV = PRV
  m1 = m1
  m2 = m2
  m3 = m3
  NoMap = NoMap
  NoCoin = NoCoin
  Coins = {p1, p2}
  Tokens = {PRV}
  TokenOf <- MCTokenOf
  Txs = {x1}
  Updaters = {u1}
  MapIds = {m1, m2}
  LossyRPC = TRUE
INVARIANT RetiredIsSpent
PROPERTIES SpentCoinsLeave UnspentCoinsReturn
