SPECIFICATION Spec
CONSTANTS
  a = a
  b = b
  r1 = r1
  r2 = r2
  r3 = r3
  Nobody = Nobody
  NoUser = NoUser
  NoTx = NoTx
  Users = {a}
  Requests = {r1}
  UserOf <- MCUserOf
  Txs = {t1, t2}
  MaxAttempts = 2
  MaxCrashes = 1
  Late = FALSE
  LossyRPC = FALSE
  FlakyCheck = FALSE
CHECK_DEADLOCK FALSE
INVARIANT AtMostOneNFT
