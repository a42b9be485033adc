\* Two requests, three entries in two scopes, a batch of one, errors and a crash.
SPECIFICATION FairSpec
CONSTANTS
  Entry = {1, 2, 3}
  ScopeOf <- TwoScopes
  Worker = {w1, w2}
  NoEntry = NoEntry
  Batch = 1
  MaxErrors = 1
  MaxCrashes = 1
INVARIANTS TypeOK
PROPERTIES ImplementsTrail EventsReachTheLog
