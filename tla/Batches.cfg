SPECIFICATION FairSpec
CONSTANTS
  b1 = b1
  b2 = b2
  m1 = m1
  s1 = s1
  Minters = {m1}
  Splitters = {s1}
  NoSlot = NoSlot
  Nobody = Nobody
  Slots = {b1, b2}
  MaxOutputSize = 1
  NumMint = 2
  NumSplit = 1
INVARIANTS SendsNeverBlock DoneMeansOver SplitIsSent
PROPERTY FlagsCleared
