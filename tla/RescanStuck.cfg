SPECIFICATION FairSpec
CONSTANTS
  a = a
  b = b
  s1 = s1
  s2 = s2
  n1 = n1
  n2 = n2
  NoList = NoList
  Nobody = Nobody
  Stray = Stray
  Accounts = {a, b}
  Shards = {s1, s2}
  ShardOf <- MCShardOf
  Tokens = {n1}
  MaxFailures = 1
CHECK_DEADLOCK FALSE
PROPERTY UpdatesGoOn
