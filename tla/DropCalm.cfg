SPECIFICATION Spec
CONSTANTS
  a = a
  b = b
  r1 = r1
  r2 = r2
  r3 = r3
  Nobody = Nobody
  NoUser = NoUser
  NoTx = NoTx
  Users = {a, b}
  Requests = {r1, r2, r3}
  UserOf <- MCUserOf
  Txs = {t1, t2, t3}
  MaxAttempts = 2
  MaxCrashes = 0
  Late = FALSE
  LossyRPC = FALSE
  FlakyCheck = FALSE
CHECK_DEADLOCK FALSE
PROPERTY MeetsContract
SYMMETRY MCSymmetry
