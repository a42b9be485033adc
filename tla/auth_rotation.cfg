\* Two processes, three requests, an abort and a crash: what the in-flight map and the
\* replay cache of each guarantee.
SPECIFICATION Spec
CONSTANTS
  Proc = {p1, p2}
  Req = {r1, r2, r3}
  Sid = {1, 2, 3, 4}
  Tenants = {t1}
  Kinds <- RotationKinds
  InitialSessions <- OneInitial
  Sec = sec
  NoProc = NoProc  NoSid = NoSid  NoReq = NoReq  NoTenant = NoTenant  NoToken = NoToken
  FirstPassword = pw0
  MaxAborts = 1
  MaxCrashes = 1
INVARIANTS TypeOK RefreshIsCoherent
PROPERTY ImplementsChain
SYMMETRY RotationSymmetry
CHECK_DEADLOCK FALSE
