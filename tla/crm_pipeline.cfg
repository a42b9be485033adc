\* Two requests at a time, two in all, around one document of each sort.
SPECIFICATION CrmSpec
CONSTANTS
  Contact = {c1}
  Organization = {o1}
  Opportunity = {p1}
  Req = {r1, r2}
  None = None  Keep = Keep  NoCounters = NoCounters
  MaxRequests = 2
SYMMETRY CrmSymmetry
INVARIANTS CrmTypeOK LoneSyncHeals
PROPERTY DanglingNeedsARace
CHECK_DEADLOCK FALSE
