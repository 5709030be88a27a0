SPECIFICATION FairSpec
CONSTANTS
  a = a
  r1 = r1
  r2 = r2
  NoRecord = NoRecord
  Users = {a}
  Requests = {r1, r2}
  UserOf <- MCUserOf
  NumTxs <- MCNumTxs
  MaxCrashes = 1
CHECK_DEADLOCK FALSE
INVARIANTS DeliveredIsInBlock StoredIsWatched SuccessMeansDelivered PendingIsTracked
PROPERTIES DeliveredIsDurable StartedEnds
