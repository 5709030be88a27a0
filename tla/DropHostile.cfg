SPECIFICATION FairSpec
CONSTANTS
  a = a
  b = b
  r1 = r1
  r2 = r2
  r3 = r3
  Nobody = Nobody
  NoUser = NoUser
  NoTx = NoTx
  Users = {a}
  Requests = {r1, r2}
  UserOf <- MCUserOf
  Txs = {t1, t2}
  MaxAttempts = 1
  MaxCrashes = 1
  Late = TRUE
  LossyRPC = TRUE
  FlakyCheck = FALSE
CHECK_DEADLOCK FALSE
INVARIANTS OneDropper NobodyForgotten StartedIsKept SuccessMeansDelivered
PROPERTIES SuccessIsDurable RequestsAnswered RoundsEnd
