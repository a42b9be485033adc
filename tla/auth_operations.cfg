\* Two processes, every operation, a transient abort.
SPECIFICATION FairSpec
CONSTANTS
  Proc = {p1, p2}
  Req = {r1, r2}
  Sid = {1, 2, 3, 4}
  Tenants = {t1}
  Kinds <- AllKinds
  InitialSessions <- TwoInitial
  Sec = sec
  NoProc = NoProc  NoSid = NoSid  NoReq = NoReq  NoTenant = NoTenant  NoToken = NoToken
  FirstPassword = pw0
  MaxAborts = 1
  MaxCrashes = 0
INVARIANT CommitsAreWhole
PROPERTIES RevokedIsFinal EveryRequestAnswered
CHECK_DEADLOCK FALSE
