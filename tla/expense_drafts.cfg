\* Two calls at a time, four in all, around one expense, two categories and a subcategory.
SPECIFICATION DraftsSpec
CONSTANTS
  Draft = {x1}
  Category = {c1, c2}
  Sub = {s1}
  Upload = {f1}
  Call = {r1, r2}
  None = None  Keep = Keep
  MaxCalls = 4
SYMMETRY DraftsSymmetry
INVARIANT DraftsTypeOK
PROPERTY IncoherenceNeedsARace
CHECK_DEADLOCK FALSE
