\* Two calls at a time over two expenses that may have any status at first.
SPECIFICATION Spec
CONSTANTS
  x1 = x1  x2 = x2  x3 = x3
  Expense = {x1, x2, x3}
  Stored = {x1, x2}
  Lists <- BulkLists
  Req = {r1, r2}
  BulkMax = 2
  MaxRequests = 2
INVARIANTS TypeOK StatusHasEvidence
PROPERTY MovesFollowTheMachine
CHECK_DEADLOCK FALSE
