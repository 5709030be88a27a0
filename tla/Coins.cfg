SPECIFICATION FairSpec
CONSTANTS
  s0 = s0
  s1 = s1
  c1 = c1
  c2 = c2
  c3 = c3
  j1 = j1
  j2 = j2
  j3 = j3
  Nobody = Nobody
  NumAccounts = 2
  Shards = {s0, s1}
  ShardOf <- MCShardOf
  Coins = {c1, c2, c3}
  OwnerOf <- MCOwnerOf
  Value <- MCValue
  Jobs = {j1, j2, j3}
  JobShard <- MCJobShard
  Amounts <- MCAmounts
  Fee = 1
INVARIANTS NoCoinReuse NoInputConflict
PROPERTIES AirlockReturns ChosenIsSent
