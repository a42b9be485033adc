---------------------------- MODULE HrEmployees ----------------------------
(***************************************************************************)
(* The employees of one tenant (HrService): who reports to whom, and the  *)
(* compensation of each.                                                   *)
(*                                                                         *)
(* Nothing runs in a transaction: every query of a handler is a step.  A  *)
(* change of manager walks the chain above the new manager one query at a *)
(* time and writes when the walk has ended; the deletion of an employee   *)
(* counts the reports, writes the employee and then the compensation.     *)
(*                                                                         *)
(* Names, dates and codes are left out: a request they make fail, with a  *)
(* validation or a unique index, is a request that fails (Fail).          *)
(***************************************************************************)
EXTENDS Naturals, FiniteSets

CONSTANTS
  Employee,     \* ids of employee documents
  Founding,     \* the employees there are at first, who report to nobody
  Salary,       \* what a compensation may say
  Req,          \* requests served at the same time
  Kinds,        \* what requests may ask for
  NoEmployee, NoSalary,
  MaxRequests   \* bound: requests ever started

AllKinds == {"create", "update", "delete", "pay"}

ASSUME HrAssumption ==
  /\ Founding \subseteq Employee
  /\ Kinds \subseteq AllKinds
  /\ NoEmployee \notin Employee /\ NoSalary \notin Salary
  /\ MaxRequests \in Nat

VARIABLES
  status,   \* of each employee: absent, active or deleted (isActive false)
  manager,  \* managerId of each employee
  pay,      \* the active compensation of each employee
  pc,       \* where each request is
  input,    \* what each request asks for
  cursor,   \* the employee a walk reads next
  trail,    \* the employees a walk has visited
  seen,     \* the compensation a request has loaded
  asked     \* requests started

docs == <<status, manager, pay>>
vars == <<status, manager, pay, pc, input, cursor, trail, seen, asked>>

Input == [kind : AllKinds \cup {"none"}, employee : Employee \cup {NoEmployee},
          manager : Employee \cup {NoEmployee}, salary : Salary \cup {NoSalary}]
NoInput == [kind |-> "none", employee |-> NoEmployee, manager |-> NoEmployee,
            salary |-> NoSalary]

TypeOK ==
  /\ status \in [Employee -> {"absent", "active", "deleted"}]
  /\ manager \in [Employee -> Employee \cup {NoEmployee}]
  /\ pay \in [Employee -> Salary \cup {NoSalary}]
  /\ pc \in [Req -> {"idle", "load", "manager", "walk", "write", "read", "unpay"}]
  /\ input \in [Req -> Input]
  /\ cursor \in [Req -> Employee \cup {NoEmployee}]
  /\ trail \in [Req -> SUBSET Employee]
  /\ seen \in [Req -> Salary \cup {NoSalary}]
  /\ asked \in Nat
  /\ \A r \in Req : pc[r] = "walk" => cursor[r] \in Employee

Init ==
  /\ status = [e \in Employee |-> IF e \in Founding THEN "active" ELSE "absent"]
  /\ manager = [e \in Employee |-> NoEmployee]
  /\ pay = [e \in Employee |-> NoSalary]
  /\ pc = [r \in Req |-> "idle"]
  /\ input = [r \in Req |-> NoInput]
  /\ cursor = [r \in Req |-> NoEmployee]
  /\ trail = [r \in Req |-> {}]
  /\ seen = [r \in Req |-> NoSalary]
  /\ asked = 0

Active == {e \in Employee : status[e] = "active"}
Reports(e) == {x \in Active : manager[x] = e}

At(r, step, kind) == pc[r] = step /\ input[r].kind = kind
Subject(r) == input[r].employee
Goto(r, step) == pc' = [pc EXCEPT ![r] = step] /\ UNCHANGED <<input, trail, cursor, seen, asked>>
End(r) ==
  /\ pc' = [pc EXCEPT ![r] = "idle"]
  /\ input' = [input EXCEPT ![r] = NoInput]
  /\ cursor' = [cursor EXCEPT ![r] = NoEmployee]
  /\ trail' = [trail EXCEPT ![r] = {}]
  /\ seen' = [seen EXCEPT ![r] = NoSalary]
  /\ UNCHANGED asked

-----------------------------------------------------------------------------
(* Requests.                                                                *)

Ask(r, request) ==
  /\ pc[r] = "idle"
  /\ asked < MaxRequests
  /\ request.kind \in Kinds
  /\ asked' = asked + 1
  /\ input' = [input EXCEPT ![r] = request]
  /\ pc' = [pc EXCEPT ![r] = "load"]
  /\ UNCHANGED <<docs, cursor, trail, seen>>

\* A validation, a unique index or the death of the process ends a request.
Fail(r) ==
  /\ pc[r] # "idle"
  /\ End(r)
  /\ UNCHANGED docs

-----------------------------------------------------------------------------
(* createEmployee and updateEmployee.                                       *)

\* updateEmployee loads the employee; createEmployee has none to load.
LoadEmployee(r) ==
  /\ At(r, "load", "update") \/ At(r, "load", "create")
  /\ IF input[r].kind = "update" /\ Subject(r) \notin Active THEN End(r)
     ELSE Goto(r, IF input[r].manager = NoEmployee THEN "write" ELSE "manager")
  /\ UNCHANGED docs

\* resolveValidatedManagerId: the manager is active; an update walks the chain above.
CheckManager(r) ==
  /\ pc[r] = "manager"
  /\ IF input[r].manager \notin Active THEN End(r)
     ELSE IF input[r].kind = "create" THEN Goto(r, "write")
     ELSE /\ pc' = [pc EXCEPT ![r] = "walk"]
          /\ cursor' = [cursor EXCEPT ![r] = input[r].manager]
          /\ UNCHANGED <<input, trail, seen, asked>>
  /\ UNCHANGED docs

\* Mutated form of Climb: the top of the chain is not looked for.
ClimbOn(r) ==
  /\ trail' = [trail EXCEPT ![r] = @ \cup {cursor[r]}]
  /\ cursor' = [cursor EXCEPT ![r] = manager[cursor[r]]]
  /\ UNCHANGED <<pc, input, seen, asked>>

\* The walk reads the manager of one active employee.
Climb(r) ==
  /\ trail' = [trail EXCEPT ![r] = @ \cup {cursor[r]}]
  /\ IF cursor[r] \in Active /\ manager[cursor[r]] # NoEmployee
     THEN cursor' = [cursor EXCEPT ![r] = manager[cursor[r]]] /\ UNCHANGED pc
     ELSE pc' = [pc EXCEPT ![r] = "write"] /\ UNCHANGED cursor
  /\ UNCHANGED <<input, seen, asked>>

\* Mutated form of Walk: no employee is remembered as visited.
WalkForgetful(r) ==
  /\ pc[r] = "walk"
  /\ IF cursor[r] = Subject(r) THEN End(r) ELSE Climb(r)
  /\ UNCHANGED docs

\* Mutated form of Walk: the employee itself is not looked for.
WalkPastSubject(r) ==
  /\ pc[r] = "walk"
  /\ IF cursor[r] \in trail[r] THEN End(r) ELSE Climb(r)
  /\ UNCHANGED docs

\* assertManagerChainHasNoCycles, one turn of its loop.
Walk(r) ==
  /\ pc[r] = "walk"
  /\ IF cursor[r] = Subject(r) \/ cursor[r] \in trail[r] THEN End(r) ELSE Climb(r)
  /\ UNCHANGED docs

\* createEmployee inserts an employee with a new id.
CreateEmployee(r) ==
  /\ At(r, "write", "create")
  /\ \E e \in Employee :
       /\ status[e] = "absent"
       /\ status' = [status EXCEPT ![e] = "active"]
       /\ manager' = [manager EXCEPT ![e] = input[r].manager]
  /\ End(r)
  /\ UNCHANGED pay

\* updateEmployee finds the employee by isActive once more; nothing else is compared.
UpdateEmployee(r) ==
  /\ At(r, "write", "update")
  /\ IF Subject(r) \in Active
     THEN manager' = [manager EXCEPT ![Subject(r)] = input[r].manager]
     ELSE UNCHANGED manager
  /\ End(r)
  /\ UNCHANGED <<status, pay>>

-----------------------------------------------------------------------------
(* deleteEmployee.                                                          *)

CountReports(r) ==
  /\ At(r, "load", "delete")
  /\ IF Reports(Subject(r)) = {} THEN Goto(r, "write") ELSE End(r)
  /\ UNCHANGED docs

Remove(r) ==
  /\ At(r, "write", "delete")
  /\ IF Subject(r) \in Active
     THEN status' = [status EXCEPT ![Subject(r)] = "deleted"] /\ Goto(r, "unpay")
     ELSE End(r) /\ UNCHANGED status
  /\ UNCHANGED <<manager, pay>>

Unpay(r) ==
  /\ pc[r] = "unpay"
  /\ pay' = [pay EXCEPT ![Subject(r)] = NoSalary]
  /\ End(r)
  /\ UNCHANGED <<status, manager>>

-----------------------------------------------------------------------------
(* updateCompensation: what the patch leaves out is what was loaded.        *)

CheckEmployee(r) ==
  /\ At(r, "load", "pay")
  /\ IF Subject(r) \in Active THEN Goto(r, "read") ELSE End(r)
  /\ UNCHANGED docs

LoadPay(r) ==
  /\ pc[r] = "read"
  /\ IF input[r].salary = NoSalary /\ pay[Subject(r)] = NoSalary THEN End(r)
     ELSE /\ seen' = [seen EXCEPT ![r] = pay[Subject(r)]]
          /\ pc' = [pc EXCEPT ![r] = "write"]
          /\ UNCHANGED <<input, cursor, trail, asked>>
  /\ UNCHANGED docs

\* The upsert writes the active compensation or inserts one.
WritePay(r) ==
  /\ At(r, "write", "pay")
  /\ pay' = [pay EXCEPT ![Subject(r)] =
       IF input[r].salary # NoSalary THEN input[r].salary ELSE seen[r]]
  /\ End(r)
  /\ UNCHANGED <<status, manager>>

-----------------------------------------------------------------------------
(* updateEmployee refuses an employee as its own manager at once.           *)

Arrive(r) ==
  \/ \E m \in Employee \cup {NoEmployee} :
       Ask(r, [NoInput EXCEPT !.kind = "create", !.manager = m])
  \/ \E e \in Employee, m \in Employee \cup {NoEmployee} :
       e # m /\ Ask(r, [NoInput EXCEPT !.kind = "update", !.employee = e, !.manager = m])
  \/ \E e \in Employee : Ask(r, [NoInput EXCEPT !.kind = "delete", !.employee = e])
  \/ \E e \in Employee, s \in Salary \cup {NoSalary} :
       Ask(r, [NoInput EXCEPT !.kind = "pay", !.employee = e, !.salary = s])

Serve(r) ==
  \/ LoadEmployee(r) \/ CheckManager(r) \/ Walk(r)
  \/ CreateEmployee(r) \/ UpdateEmployee(r)
  \/ CountReports(r) \/ Remove(r) \/ Unpay(r)
  \/ CheckEmployee(r) \/ LoadPay(r) \/ WritePay(r)

Next == \E r \in Req : Arrive(r) \/ Serve(r) \/ Fail(r)

Spec == Init /\ [][Next]_vars

\* The event loop and the database go on with a request they have begun.
FairSpec == Spec /\ \A r \in Req : WF_vars(Serve(r))

-----------------------------------------------------------------------------
(* Properties.                                                              *)

\* No set of active employees is closed under having a manager.
Acyclic ==
  \A S \in SUBSET Active : S # {} => \E e \in S : manager[e] \notin S

\* The chain a request has walked is still one: above its members there are only
\* members, the deleted and nobody.
TrailHolds(r) ==
  \A e \in trail[r] : e \in Active => manager[e] \in trail[r] \/ manager[e] \notin Active

\* A cycle of managers is closed only by a request whose walk is out of date: another
\* has changed the chain between the queries of assertManagerChainHasNoCycles or
\* before the write (ADR_HR_PRIVACIDAD_Y_ACCESO.md:27: "validacion anticiclo para impedir
\* que un empleado termine, directa o indirectamente, reportandose a si mismo").
CyclesNeedARace ==
  [][Acyclic /\ ~Acyclic' =>
       \E r \in Req : At(r, "write", "update") /\ ~TrailHolds(r)]_vars

\* A walk ends, also on a chain that has been closed to a cycle below it or while it
\* climbs: visited bounds the loop of assertManagerChainHasNoCycles.
WalksEnd == \A r \in Req : (pc[r] = "walk") ~> (pc[r] # "walk")
=============================================================================
