CONSTANTS
  c1 = c1  c2 = c2  c3 = c3
  A = A  B = B  Unknown = Unknown
  K1 = K1  K2 = K2  K3 = K3
  X1 = X1  X2 = X2  X3 = X3
  KRW = KRW  T1 = T1
  Nobody = Nobody  None = None
  Calls = {c1, c2, c3}
  Accounts = {A, B}
  OpeningBalance <- MCOpening
  MaxBigint = 4
  Requests <- CacheRequests
  LockEnabled = TRUE
  CacheEnabled = TRUE
  Faults = {"crash"}
  Quarantinable = {}
SPECIFICATION Spec
INVARIANTS SuccessIsDurable
