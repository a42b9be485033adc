\* Two requests at a time, four in all, on an account that is there or not.
SPECIFICATION Spec
CONSTANTS
  t1 = t1  t2 = t2  k1 = k1  k2 = k2
  Token = {t1, t2}
  Code = {k1, k2}
  Batches <- OneEach
  Req = {r1, r2}
  None = None
  MAX_FAILED_LOGIN_ATTEMPTS = 2
  MaxRequests = 4
SYMMETRY AccountSymmetry
INVARIANTS TypeOK RecoveryCodesAdmitOnce ReuseNeedsARace
CHECK_DEADLOCK FALSE
