\* Two requests at a time, three in all, of every kind: three employees and a fourth.
SPECIFICATION FairSpec
CONSTANTS
  Employee = {e1, e2, e3, e4}
  Founding = {e1, e2, e3}
  Salary = {s1}
  Req = {r1, r2}
  Kinds <- AllKinds
  NoEmployee = NoEmployee  NoSalary = NoSalary
  MaxRequests = 3
INVARIANT TypeOK
PROPERTIES CyclesNeedARace WalksEnd
CHECK_DEADLOCK FALSE
