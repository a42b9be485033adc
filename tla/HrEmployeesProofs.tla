------------------------- MODULE HrEmployeesProofs -------------------------
(***************************************************************************)
(* Theorems about HrEmployees, for any number of employees and requests.  *)
(***************************************************************************)
EXTENDS HrEmployees, FiniteSetTheorems, TLAPS

\* What a request holds fits its kind and the step it is at.
RequestInv ==
  \A r \in Req :
    /\ input[r].kind \in {"update", "delete", "pay"} => Subject(r) \in Employee
    /\ pc[r] = "manager" => input[r].kind \in {"create", "update"}
    /\ pc[r] \in {"manager", "walk"} => input[r].manager \in Employee
    /\ pc[r] = "walk" => input[r].kind = "update"
    /\ pc[r] \in {"read", "unpay"} => Subject(r) \in Employee
    /\ pc[r] = "read" => input[r].kind = "pay"

\* The managers of employees exist, also the deleted ones, and so do those a request
\* has checked.
ManagerInv ==
  /\ \A e \in Employee : status[e] # "absent" /\ manager[e] # NoEmployee =>
       status[manager[e]] # "absent"
  /\ \A r \in Req :
       pc[r] \in {"walk", "write"} /\ input[r].kind \in {"create", "update"}
       /\ input[r].manager # NoEmployee => status[input[r].manager] # "absent"

\* The trail of a walk starts at the new manager and does not pass the employee.
TrailInv ==
  \A r \in Req :
    /\ pc[r] \notin {"walk", "write"} \/ input[r].kind # "update" => trail[r] = {}
    /\ Subject(r) \notin trail[r]
    /\ pc[r] = "walk" => cursor[r] = input[r].manager \/ input[r].manager \in trail[r]
    /\ At(r, "write", "update") /\ input[r].manager # NoEmployee =>
         input[r].manager \in trail[r]

IInv == TypeOK /\ RequestInv /\ ManagerInv /\ TrailInv

LEMMA InitIInv == Init => IInv
  <1> SUFFICES ASSUME Init PROVE IInv
    OBVIOUS
  <1>1. NoInput \in Input /\ NoInput.kind = "none"
    BY DEF NoInput, Input
  <1>2. TypeOK
    BY <1>1 DEF Init, TypeOK
  <1>3. RequestInv /\ ManagerInv /\ TrailInv
    BY <1>1, HrAssumption DEF Init, RequestInv, ManagerInv, TrailInv, Subject, At
  <1> QED
    BY <1>2, <1>3 DEF IInv

\* A request that ends holds nothing.
LEMMA EndKeeps ==
  ASSUME IInv, NEW r \in Req, End(r), status' = status, manager' = manager,
         pay' \in [Employee -> Salary \cup {NoSalary}]
  PROVE  IInv'
  <1> USE DEF IInv
  <1>1. NoInput \in Input /\ NoInput.kind = "none" /\ NoInput.employee = NoEmployee
    BY DEF NoInput, Input
  <1>2. TypeOK'
    BY <1>1 DEF End, TypeOK
  <1>3. /\ pc'[r] = "idle" /\ input'[r] = NoInput /\ trail'[r] = {}
        /\ \A q \in Req \ {r} : /\ pc'[q] = pc[q] /\ input'[q] = input[q]
                                /\ trail'[q] = trail[q] /\ cursor'[q] = cursor[q]
    BY DEF End, TypeOK
  <1>4. RequestInv'
    BY <1>1, <1>3 DEF RequestInv, Subject
  <1>5. ManagerInv'
    BY <1>1, <1>3 DEF ManagerInv
  <1>6. TrailInv'
    BY <1>1, <1>3 DEF TrailInv, Subject, At
  <1> QED
    BY <1>2, <1>4, <1>5, <1>6

\* A request that goes on to a step that asks for nothing more.
LEMMA GotoKeeps ==
  ASSUME IInv, NEW r \in Req, NEW step \in {"manager", "write", "read", "unpay"}, Goto(r, step),
         manager' = manager, pay' = pay, status' \in [Employee -> {"absent", "active", "deleted"}],
         \A e \in Employee : status[e] # "absent" <=> status'[e] # "absent",
         trail[r] = {},
         step = "manager" => input[r].kind \in {"create", "update"}
                             /\ input[r].manager \in Employee,
         step \in {"read", "unpay"} => Subject(r) \in Employee,
         step = "read" => input[r].kind = "pay",
         step = "write" /\ input[r].kind \in {"create", "update"} /\ input[r].manager # NoEmployee =>
           input[r].kind = "create" /\ status[input[r].manager] # "absent"
  PROVE  IInv'
  <1> USE DEF IInv
  <1>1. TypeOK'
    BY DEF Goto, TypeOK
  <1>2. /\ pc'[r] = step /\ input' = input /\ trail' = trail /\ cursor' = cursor
        /\ \A q \in Req \ {r} : pc'[q] = pc[q]
    BY DEF Goto, TypeOK
  <1>3. RequestInv'
    BY <1>2 DEF RequestInv, Subject
  <1>4. ManagerInv'
    <2>1. \A e \in Employee : status'[e] # "absent" => status[e] # "absent"
      BY DEF TypeOK
    <2>2. \A e \in Employee : manager[e] \in Employee \cup {NoEmployee}
      BY DEF TypeOK
    <2>3. \A q \in Req : input[q].manager \in Employee \cup {NoEmployee}
      BY DEF TypeOK, Input
    <2>4. \A e \in Employee : status'[e] # "absent" /\ manager'[e] # NoEmployee =>
            status'[manager'[e]] # "absent"
      BY <2>1, <2>2 DEF ManagerInv
    <2>5. \A q \in Req :
            pc'[q] \in {"walk", "write"} /\ input'[q].kind \in {"create", "update"}
            /\ input'[q].manager # NoEmployee => status'[input'[q].manager] # "absent"
      BY <1>2, <2>3 DEF ManagerInv
    <2> QED
      BY <2>4, <2>5 DEF ManagerInv
  <1>5. TrailInv'
    BY <1>2 DEF TrailInv, Subject, At
  <1> QED
    BY <1>1, <1>3, <1>4, <1>5

LEMMA AskKeeps ==
  ASSUME IInv, NEW r \in Req, NEW request \in Input, Ask(r, request),
         request.kind \in {"update", "delete", "pay"} => request.employee \in Employee
  PROVE  IInv'
  <1> USE DEF IInv
  <1>1. TypeOK'
    BY DEF Ask, TypeOK, docs
  <1>2. /\ pc[r] = "idle" /\ pc'[r] = "load" /\ input'[r] = request
        /\ trail' = trail /\ cursor' = cursor /\ status' = status /\ manager' = manager
        /\ \A q \in Req \ {r} : pc'[q] = pc[q] /\ input'[q] = input[q]
    BY DEF Ask, TypeOK, docs
  <1>3. RequestInv'
    BY <1>2 DEF RequestInv, Subject
  <1>4. ManagerInv'
    BY <1>2 DEF ManagerInv
  <1>5. TrailInv'
    BY <1>2 DEF TrailInv, Subject, At
  <1> QED
    BY <1>1, <1>3, <1>4, <1>5

LEMMA ArriveKeeps ==
  ASSUME IInv, NEW r \in Req, Arrive(r)
  PROVE  IInv'
  <1>1. ASSUME NEW m \in Employee \cup {NoEmployee},
               Ask(r, [NoInput EXCEPT !.kind = "create", !.manager = m])
        PROVE  IInv'
    <2> DEFINE request == [NoInput EXCEPT !.kind = "create", !.manager = m]
    <2>1. request \in Input /\ request.kind = "create"
      BY DEF NoInput, Input, AllKinds
    <2>2. Ask(r, request)
      BY <1>1
    <2> HIDE DEF request
    <2> QED
      BY <2>1, <2>2, AskKeeps
  <1>2. ASSUME NEW e \in Employee, NEW m \in Employee \cup {NoEmployee},
               Ask(r, [NoInput EXCEPT !.kind = "update", !.employee = e, !.manager = m])
        PROVE  IInv'
    <2> DEFINE request == [NoInput EXCEPT !.kind = "update", !.employee = e, !.manager = m]
    <2>1. request \in Input /\ request.employee = e
      BY DEF NoInput, Input, AllKinds
    <2>2. Ask(r, request)
      BY <1>2
    <2> HIDE DEF request
    <2> QED
      BY <2>1, <2>2, AskKeeps
  <1>3. ASSUME NEW e \in Employee, Ask(r, [NoInput EXCEPT !.kind = "delete", !.employee = e])
        PROVE  IInv'
    <2> DEFINE request == [NoInput EXCEPT !.kind = "delete", !.employee = e]
    <2>1. request \in Input /\ request.employee = e
      BY DEF NoInput, Input, AllKinds
    <2>2. Ask(r, request)
      BY <1>3
    <2> HIDE DEF request
    <2> QED
      BY <2>1, <2>2, AskKeeps
  <1>4. ASSUME NEW e \in Employee, NEW s \in Salary \cup {NoSalary},
               Ask(r, [NoInput EXCEPT !.kind = "pay", !.employee = e, !.salary = s])
        PROVE  IInv'
    <2> DEFINE request == [NoInput EXCEPT !.kind = "pay", !.employee = e, !.salary = s]
    <2>1. request \in Input /\ request.employee = e
      BY DEF NoInput, Input, AllKinds
    <2>2. Ask(r, request)
      BY <1>4
    <2> HIDE DEF request
    <2> QED
      BY <2>1, <2>2, AskKeeps
  <1> QED
    BY <1>1, <1>2, <1>3, <1>4 DEF Arrive

LEMMA PaysAreSalaries ==
  ASSUME IInv
  PROVE  /\ pay \in [Employee -> Salary \cup {NoSalary}]
         /\ status \in [Employee -> {"absent", "active", "deleted"}]
  BY DEF IInv, TypeOK

LEMMA LoadEmployeeKeeps ==
  ASSUME IInv, NEW r \in Req, LoadEmployee(r)
  PROVE  IInv'
  <1>1. CASE End(r)
    BY <1>1, EndKeeps, PaysAreSalaries DEF LoadEmployee, docs
  <1>2. CASE Goto(r, IF input[r].manager = NoEmployee THEN "write" ELSE "manager")
    <2>1. trail[r] = {} /\ input[r].manager \in Employee \cup {NoEmployee}
          /\ input[r].kind \in {"create", "update"}
      BY DEF LoadEmployee, At, IInv, TrailInv, TypeOK, Input
    <2>2. status' = status /\ manager' = manager /\ pay' = pay
      BY DEF LoadEmployee, docs
    <2>3. CASE input[r].manager = NoEmployee
      BY <1>2, <2>1, <2>2, <2>3, GotoKeeps, PaysAreSalaries
    <2>4. CASE input[r].manager # NoEmployee
      BY <1>2, <2>1, <2>2, <2>4, GotoKeeps, PaysAreSalaries
    <2> QED
      BY <2>3, <2>4
  <1> QED
    BY <1>1, <1>2 DEF LoadEmployee

LEMMA CheckManagerKeeps ==
  ASSUME IInv, NEW r \in Req, CheckManager(r)
  PROVE  IInv'
  <1>1. status' = status /\ manager' = manager /\ pay' = pay /\ pc[r] = "manager"
    BY DEF CheckManager, docs
  <1>2. trail[r] = {} /\ input[r].manager \in Employee /\ input[r].kind \in {"create", "update"}
    BY <1>1 DEF IInv, TrailInv, RequestInv
  <1>3. CASE End(r)
    BY <1>1, <1>3, EndKeeps, PaysAreSalaries
  <1>4. CASE input[r].manager \in Active /\ input[r].kind = "create" /\ Goto(r, "write")
    BY <1>1, <1>2, <1>4, GotoKeeps, PaysAreSalaries DEF Active
  <1>5. CASE /\ input[r].manager \in Active /\ input[r].kind # "create"
             /\ pc' = [pc EXCEPT ![r] = "walk"]
             /\ cursor' = [cursor EXCEPT ![r] = input[r].manager]
             /\ UNCHANGED <<input, trail, seen, asked>>
    <2> USE DEF IInv
    <2>1. TypeOK'
      BY <1>1, <1>2, <1>5 DEF TypeOK
    <2>2. /\ pc'[r] = "walk" /\ cursor'[r] = input[r].manager
          /\ \A q \in Req \ {r} : pc'[q] = pc[q] /\ cursor'[q] = cursor[q]
      BY <1>5 DEF TypeOK
    <2>3. RequestInv'
      BY <1>2, <1>5, <2>2 DEF RequestInv, Subject
    <2>4. ManagerInv'
      BY <1>1, <1>5, <2>2 DEF ManagerInv, Active
    <2>5. TrailInv'
      BY <1>2, <1>5, <2>2 DEF TrailInv, Subject, At
    <2> QED
      BY <2>1, <2>3, <2>4, <2>5
  <1> QED
    BY <1>3, <1>4, <1>5 DEF CheckManager

LEMMA WalkKeeps ==
  ASSUME IInv, NEW r \in Req, Walk(r)
  PROVE  IInv'
  <1>1. status' = status /\ manager' = manager /\ pay' = pay /\ pc[r] = "walk"
    BY DEF Walk, docs
  <1>2. CASE End(r)
    BY <1>1, <1>2, EndKeeps, PaysAreSalaries
  <1>3. CASE cursor[r] # Subject(r) /\ Climb(r)
    <2> USE DEF IInv
    <2>1. cursor[r] \in Employee /\ manager[cursor[r]] \in Employee \cup {NoEmployee}
      BY <1>1 DEF TypeOK
    <2>2. /\ UNCHANGED <<input, seen, asked>>
          /\ trail' = [trail EXCEPT ![r] = @ \cup {cursor[r]}]
      BY <1>3 DEF Climb
    <2>3. /\ trail'[r] = trail[r] \cup {cursor[r]}
          /\ pc'[r] \in {"walk", "write"}
          /\ \A q \in Req \ {r} : /\ pc'[q] = pc[q] /\ trail'[q] = trail[q]
                                  /\ cursor'[q] = cursor[q]
      BY <1>1, <1>3 DEF TypeOK, Climb
    <2>4. TypeOK'
      BY <1>1, <1>3, <2>1, <2>2 DEF TypeOK, Climb
    <2>5. RequestInv'
      BY <1>1, <2>2, <2>3 DEF RequestInv, Subject
    <2>6. ManagerInv'
      BY <1>1, <2>2, <2>3 DEF ManagerInv
    <2>7. TrailInv'
      <3>1. \A q \in Req \ {r} :
              /\ pc'[q] = pc[q] /\ trail'[q] = trail[q] /\ cursor'[q] = cursor[q]
              /\ input'[q] = input[q]
        BY <2>2, <2>3
      <3>2. input'[r] = input[r] /\ input[r].kind = "update"
        BY <1>1, <2>2 DEF RequestInv
      <3>3. Subject(r) \notin trail'[r]
        BY <1>3, <2>3 DEF TrailInv
      <3>4. input[r].manager \in trail'[r]
        BY <1>1, <2>3 DEF TrailInv
      <3> QED
        BY <2>3, <3>1, <3>2, <3>3, <3>4 DEF TrailInv, Subject, At
    <2> QED
      BY <2>4, <2>5, <2>6, <2>7
  <1> QED
    BY <1>2, <1>3 DEF Walk

LEMMA CreateKeeps ==
  ASSUME IInv, NEW r \in Req, CreateEmployee(r)
  PROVE  IInv'
  <1> USE DEF IInv
  <1>1. PICK e \in Employee : /\ status[e] = "absent"
                              /\ status' = [status EXCEPT ![e] = "active"]
                              /\ manager' = [manager EXCEPT ![e] = input[r].manager]
    BY DEF CreateEmployee
  <1>2. NoInput \in Input /\ NoInput.kind = "none" /\ NoInput.employee = NoEmployee
    BY DEF NoInput, Input
  <1>3. /\ pc[r] = "write" /\ input[r].kind = "create"
        /\ input[r].manager \in Employee \cup {NoEmployee} /\ pay' = pay
    BY DEF CreateEmployee, At, TypeOK, Input
  <1>4. /\ status'[e] = "active" /\ manager'[e] = input[r].manager
        /\ \A x \in Employee \ {e} : status'[x] = status[x] /\ manager'[x] = manager[x]
    BY <1>1 DEF TypeOK
  <1>5. TypeOK'
    BY <1>1, <1>2, <1>3 DEF CreateEmployee, End, TypeOK
  <1>6. /\ pc'[r] = "idle" /\ input'[r] = NoInput /\ trail'[r] = {}
        /\ \A q \in Req \ {r} : /\ pc'[q] = pc[q] /\ input'[q] = input[q]
                                /\ trail'[q] = trail[q] /\ cursor'[q] = cursor[q]
    BY DEF CreateEmployee, End, TypeOK
  <1>7. RequestInv'
    BY <1>2, <1>6 DEF RequestInv, Subject
  <1>8. ManagerInv'
    <2>1. \A x \in Employee : status[x] # "absent" => status'[x] # "absent"
      BY <1>4
    <2>2. \A x \in Employee : status'[x] # "absent" /\ manager'[x] # NoEmployee =>
            status'[manager'[x]] # "absent"
      BY <1>3, <1>4, <2>1 DEF ManagerInv, TypeOK
    <2>3. \A q \in Req : input[q].manager \in Employee \cup {NoEmployee}
      BY DEF TypeOK, Input
    <2> QED
      BY <1>2, <1>6, <2>1, <2>2, <2>3 DEF ManagerInv
  <1>9. TrailInv'
    BY <1>2, <1>6 DEF TrailInv, Subject, At
  <1> QED
    BY <1>5, <1>7, <1>8, <1>9

LEMMA UpdateKeeps ==
  ASSUME IInv, NEW r \in Req, UpdateEmployee(r)
  PROVE  IInv'
  <1> USE DEF IInv
  <1>1. /\ pc[r] = "write" /\ input[r].kind = "update" /\ End(r) /\ status' = status /\ pay' = pay
        /\ input[r].manager \in Employee \cup {NoEmployee}
    BY DEF UpdateEmployee, At, TypeOK, Input
  <1>2. CASE manager' = manager
    BY <1>1, <1>2, EndKeeps, PaysAreSalaries
  <1>3. CASE manager' = [manager EXCEPT ![Subject(r)] = input[r].manager]
    <2>1. NoInput \in Input /\ NoInput.kind = "none" /\ NoInput.employee = NoEmployee
      BY DEF NoInput, Input
    <2>2. TypeOK'
      BY <1>1, <1>3, <2>1 DEF End, TypeOK
    <2>3. /\ pc'[r] = "idle" /\ input'[r] = NoInput /\ trail'[r] = {}
          /\ \A q \in Req \ {r} : /\ pc'[q] = pc[q] /\ input'[q] = input[q]
                                  /\ trail'[q] = trail[q] /\ cursor'[q] = cursor[q]
      BY <1>1 DEF End, TypeOK
    <2>4. RequestInv'
      BY <2>1, <2>3 DEF RequestInv, Subject
    <2>5. ManagerInv'
      <3>1. \A x \in Employee : manager'[x] = manager[x] \/ manager'[x] = input[r].manager
        BY <1>3 DEF TypeOK
      <3> QED
        BY <1>1, <2>1, <2>3, <3>1 DEF ManagerInv
    <2>6. TrailInv'
      BY <2>1, <2>3 DEF TrailInv, Subject, At
    <2> QED
      BY <2>2, <2>4, <2>5, <2>6
  <1> QED
    BY <1>2, <1>3 DEF UpdateEmployee

LEMMA DeleteKeeps ==
  ASSUME IInv, NEW r \in Req, CountReports(r) \/ Remove(r) \/ Unpay(r)
  PROVE  IInv'
  <1>1. CASE CountReports(r)
    <2>1. /\ status' = status /\ manager' = manager /\ pay' = pay /\ pc[r] = "load"
          /\ input[r].kind = "delete"
      BY <1>1 DEF CountReports, At, docs
    <2>2. trail[r] = {}
      BY <2>1 DEF IInv, TrailInv
    <2>3. CASE End(r)
      BY <2>1, <2>3, EndKeeps, PaysAreSalaries
    <2>4. CASE Goto(r, "write")
      BY <2>1, <2>2, <2>4, GotoKeeps, PaysAreSalaries
    <2> QED
      BY <1>1, <2>3, <2>4 DEF CountReports
  <1>2. CASE Remove(r)
    <2>1. manager' = manager /\ pay' = pay /\ pc[r] = "write" /\ input[r].kind = "delete"
      BY <1>2 DEF Remove, At
    <2>2. CASE End(r) /\ status' = status
      BY <2>1, <2>2, EndKeeps, PaysAreSalaries
    <2>3. CASE /\ Subject(r) \in Active /\ Goto(r, "unpay")
               /\ status' = [status EXCEPT ![Subject(r)] = "deleted"]
      <3> USE DEF IInv
      <3>1. TypeOK'
        BY <2>1, <2>3 DEF Goto, TypeOK
      <3>2. /\ pc'[r] = "unpay" /\ input' = input /\ trail' = trail /\ cursor' = cursor
            /\ \A q \in Req \ {r} : pc'[q] = pc[q]
        BY <2>3 DEF Goto, TypeOK
      <3>3. RequestInv'
        BY <2>3, <3>2 DEF RequestInv, Subject, Active
      <3>4. ManagerInv'
        <4>1. \A x \in Employee : status[x] # "absent" <=> status'[x] # "absent"
          BY <2>3 DEF TypeOK, Active
        <4>2. \A q \in Req : input[q].manager \in Employee \cup {NoEmployee}
          BY DEF TypeOK, Input
        <4>3. \A x \in Employee : manager[x] \in Employee \cup {NoEmployee}
          BY DEF TypeOK
        <4> QED
          BY <2>1, <3>2, <4>1, <4>2, <4>3 DEF ManagerInv
      <3>5. TrailInv'
        BY <2>1, <3>2 DEF TrailInv, Subject, At
      <3> QED
        BY <3>1, <3>3, <3>4, <3>5
    <2> QED
      BY <1>2, <2>2, <2>3 DEF Remove
  <1>3. CASE Unpay(r)
    <2>1. End(r) /\ status' = status /\ manager' = manager
          /\ pay' = [pay EXCEPT ![Subject(r)] = NoSalary]
      BY <1>3 DEF Unpay
    <2>2. pay' \in [Employee -> Salary \cup {NoSalary}]
      BY <2>1, PaysAreSalaries
    <2> QED
      BY <2>1, <2>2, EndKeeps
  <1> QED
    BY <1>1, <1>2, <1>3

LEMMA PayKeeps ==
  ASSUME IInv, NEW r \in Req, CheckEmployee(r) \/ LoadPay(r) \/ WritePay(r)
  PROVE  IInv'
  <1>1. CASE CheckEmployee(r)
    <2>1. /\ status' = status /\ manager' = manager /\ pay' = pay /\ pc[r] = "load"
          /\ input[r].kind = "pay"
      BY <1>1 DEF CheckEmployee, At, docs
    <2>2. trail[r] = {} /\ Subject(r) \in Employee
      BY <2>1 DEF IInv, TrailInv, RequestInv
    <2>3. CASE End(r)
      BY <2>1, <2>3, EndKeeps, PaysAreSalaries
    <2>4. CASE Goto(r, "read")
      BY <2>1, <2>2, <2>4, GotoKeeps, PaysAreSalaries
    <2> QED
      BY <1>1, <2>3, <2>4 DEF CheckEmployee
  <1>2. CASE LoadPay(r)
    <2>1. /\ status' = status /\ manager' = manager /\ pay' = pay /\ pc[r] = "read"
      BY <1>2 DEF LoadPay, docs
    <2>2. CASE End(r)
      BY <2>1, <2>2, EndKeeps, PaysAreSalaries
    <2>3. CASE /\ seen' = [seen EXCEPT ![r] = pay[Subject(r)]]
               /\ pc' = [pc EXCEPT ![r] = "write"]
               /\ UNCHANGED <<input, cursor, trail, asked>>
      <3> USE DEF IInv
      <3>1. Subject(r) \in Employee /\ trail[r] = {}
        BY <2>1 DEF RequestInv, TrailInv
      <3>2. TypeOK'
        BY <2>1, <2>3, <3>1 DEF TypeOK
      <3>3. pc'[r] = "write" /\ \A q \in Req \ {r} : pc'[q] = pc[q]
        BY <2>3 DEF TypeOK
      <3>4. input[r].kind \notin {"create", "update"}
        BY <2>1 DEF RequestInv
      <3>5. RequestInv'
        BY <2>3, <3>3 DEF RequestInv, Subject
      <3>6. ManagerInv'
        BY <2>1, <2>3, <3>3, <3>4 DEF ManagerInv
      <3>7. TrailInv'
        BY <2>3, <3>1, <3>3, <3>4 DEF TrailInv, Subject, At
      <3> QED
        BY <3>2, <3>5, <3>6, <3>7
    <2> QED
      BY <1>2, <2>2, <2>3 DEF LoadPay
  <1>3. CASE WritePay(r)
    <2>1. /\ End(r) /\ status' = status /\ manager' = manager
          /\ pay' = [pay EXCEPT ![Subject(r)] =
               IF input[r].salary # NoSalary THEN input[r].salary ELSE seen[r]]
      BY <1>3 DEF WritePay
    <2>2. input[r].salary \in Salary \cup {NoSalary} /\ seen[r] \in Salary \cup {NoSalary}
      BY DEF IInv, TypeOK, Input
    <2>3. pay' \in [Employee -> Salary \cup {NoSalary}]
      BY <2>1, <2>2, PaysAreSalaries
    <2> QED
      BY <2>1, <2>3, EndKeeps
  <1> QED
    BY <1>1, <1>2, <1>3

LEMMA FailKeeps ==
  ASSUME IInv, NEW r \in Req, Fail(r)
  PROVE  IInv'
  BY EndKeeps, PaysAreSalaries DEF Fail, docs

LEMMA StutterKeeps ==
  ASSUME IInv, UNCHANGED vars
  PROVE  IInv'
  BY DEF vars, IInv, TypeOK, RequestInv, ManagerInv, TrailInv, Subject, At

LEMMA Inductive == Spec => []IInv
  <1>1. IInv /\ [Next]_vars => IInv'
    <2> SUFFICES ASSUME IInv, [Next]_vars PROVE IInv'
      OBVIOUS
    <2>1. ASSUME NEW r \in Req, Arrive(r) \/ Serve(r) \/ Fail(r) PROVE IInv'
      BY <2>1, ArriveKeeps, LoadEmployeeKeeps, CheckManagerKeeps, WalkKeeps, CreateKeeps,
         UpdateKeeps, DeleteKeeps, PayKeeps, FailKeeps DEF Serve
    <2> QED
      BY <2>1, StutterKeeps DEF Next
  <1> QED
    BY <1>1, InitIInv, PTL DEF Spec

\* Employees, requests, walks and compensations are always of their types.
THEOREM HrTypeCorrect == Spec => []TypeOK
  BY Inductive, PTL DEF IInv

-----------------------------------------------------------------------------
(* Cycles.                                                                  *)

\* An employee that is created reports to one there was before, and nobody reports to it.
LEMMA CreateIsAcyclic ==
  ASSUME IInv, Acyclic, NEW r \in Req, CreateEmployee(r)
  PROVE  Acyclic'
  <1>1. PICK e \in Employee : /\ status[e] = "absent"
                              /\ status' = [status EXCEPT ![e] = "active"]
                              /\ manager' = [manager EXCEPT ![e] = input[r].manager]
    BY DEF CreateEmployee
  <1> DEFINE m == input[r].manager
  <1>2. /\ \A x \in Employee \ {e} : status'[x] = status[x] /\ manager'[x] = manager[x]
        /\ manager'[e] = m
    BY <1>1 DEF IInv, TypeOK
  <1>3. m # e
    BY <1>1, HrAssumption DEF CreateEmployee, At, IInv, ManagerInv, TypeOK, Input
  <1> SUFFICES ASSUME NEW S \in SUBSET Active', S # {} PROVE \E x \in S : manager'[x] \notin S
    BY DEF Acyclic
  <1>4. S \ {e} \subseteq Active
    BY <1>2 DEF Active
  <1>5. CASE S \ {e} = {}
    BY <1>2, <1>3, <1>5
  <1>6. CASE S \ {e} # {}
    <2>1. PICK x \in S \ {e} : manager[x] \notin S \ {e}
      BY <1>4, <1>6 DEF Acyclic
    <2>2. manager[x] # e
      BY <1>1, <1>4, <2>1, HrAssumption DEF IInv, ManagerInv, Active
    <2> QED
      BY <1>2, <1>4, <2>1, <2>2 DEF Active
  <1> QED
    BY <1>5, <1>6

\* A chain that has not changed under the walk does not lead back to the employee.
LEMMA UpdateIsAcyclic ==
  ASSUME IInv, Acyclic, NEW r \in Req, UpdateEmployee(r), TrailHolds(r)
  PROVE  Acyclic'
  <1> DEFINE e == Subject(r)
             m == input[r].manager
  <1>1. status' = status /\ Active' = Active /\ At(r, "write", "update")
    BY DEF UpdateEmployee, Active
  <1>2. CASE manager' = manager
    BY <1>1, <1>2 DEF Acyclic
  <1>3. CASE e \in Active /\ manager' = [manager EXCEPT ![e] = m]
    <2>1. manager'[e] = m /\ \A x \in Employee \ {e} : manager'[x] = manager[x]
      BY <1>3 DEF IInv, TypeOK, Active
    <2>2. e \notin trail[r] /\ (m # NoEmployee => m \in trail[r])
      BY <1>1 DEF IInv, TrailInv
    <2> SUFFICES ASSUME NEW S \in SUBSET Active, S # {} PROVE \E x \in S : manager'[x] \notin S
      BY <1>1 DEF Acyclic
    <2>3. S \subseteq Employee /\ NoEmployee \notin S
      BY HrAssumption DEF Active
    <2>4. CASE e \notin S
      BY <2>1, <2>3, <2>4 DEF Acyclic
    <2>5. CASE e \in S /\ m \notin S
      BY <2>1, <2>5
    <2>6. CASE e \in S /\ m \in S
      <3>1. S \cap trail[r] # {} /\ S \cap trail[r] \in SUBSET Active
        BY <2>2, <2>3, <2>6
      <3>2. PICK x \in S \cap trail[r] : manager[x] \notin S \cap trail[r]
        BY <3>1 DEF Acyclic
      <3>3. manager[x] \in trail[r] \/ manager[x] \notin Active
        BY <3>2 DEF TrailHolds
      <3>4. manager[x] \notin S
        BY <3>2, <3>3
      <3>5. manager'[x] = manager[x]
        BY <2>1, <2>2, <2>3, <3>2
      <3> QED
        BY <3>2, <3>4, <3>5
    <2> QED
      BY <2>4, <2>5, <2>6
  <1> QED
    BY <1>2, <1>3 DEF UpdateEmployee

\* A deletion takes an employee out of every chain.
LEMMA RemoveIsAcyclic ==
  ASSUME IInv, Acyclic, NEW r \in Req, Remove(r)
  PROVE  Acyclic'
  <1>1. manager' = manager /\ Active' \subseteq Active
    BY DEF Remove, IInv, TypeOK, Active
  <1> QED
    BY <1>1 DEF Acyclic

\* However many employees and requests there are, a cycle of managers is closed only by
\* an update whose walk another request has made out of date.
THEOREM CyclesAreRaces == Spec => CyclesNeedARace
  <1>1. ASSUME IInv, [Next]_vars, Acyclic,
               \A r \in Req : At(r, "write", "update") => TrailHolds(r)
        PROVE  Acyclic'
    <2>1. CASE status' = status /\ manager' = manager
      BY <1>1, <2>1 DEF Acyclic, Active
    <2>2. ASSUME NEW r \in Req, Arrive(r) \/ Fail(r)
          PROVE  status' = status /\ manager' = manager
      BY <2>2 DEF Arrive, Ask, Fail, docs
    <2>3. ASSUME NEW r \in Req, Serve(r)
          PROVE  \/ status' = status /\ manager' = manager
                 \/ CreateEmployee(r) \/ UpdateEmployee(r) \/ Remove(r)
      BY <2>3 DEF Serve, LoadEmployee, CheckManager, Walk, CountReports, Unpay, CheckEmployee,
                  LoadPay, WritePay, docs
    <2>4. ASSUME NEW r \in Req, UpdateEmployee(r) PROVE At(r, "write", "update")
      BY <2>4 DEF UpdateEmployee
    <2> QED
      BY <1>1, <2>1, <2>2, <2>3, <2>4, CreateIsAcyclic, UpdateIsAcyclic, RemoveIsAcyclic
         DEF Next, vars
  <1>2. IInv /\ [Next]_vars =>
          [Acyclic /\ ~Acyclic' =>
             \E r \in Req : At(r, "write", "update") /\ ~TrailHolds(r)]_vars
    BY <1>1
  <1> QED
    BY <1>2, Inductive, PTL DEF Spec, CyclesNeedARace

-----------------------------------------------------------------------------
(* Why walks end.                                                           *)

\* The employees a walk may still visit.
Unvisited(r) == Employee \ trail[r]

\* A step leaves a walk where it is, ends it, or leaves it fewer employees to visit.
WalksShorten ==
  [][\A r \in Req : pc[r] = "walk" /\ pc'[r] = "walk" =>
       \/ trail'[r] = trail[r] /\ cursor'[r] = cursor[r]
       \/ Cardinality(Unvisited(r)') < Cardinality(Unvisited(r))]_vars

\* A climb visits an employee that had not been visited.
LEMMA ClimbShortens ==
  ASSUME IInv, IInv', IsFiniteSet(Employee), NEW r \in Req, Walk(r), pc'[r] = "walk"
  PROVE  Cardinality(Unvisited(r)') < Cardinality(Unvisited(r))
  <1>1. cursor[r] \notin trail[r] /\ trail'[r] = trail[r] \cup {cursor[r]}
    BY DEF Walk, End, Climb, IInv, TypeOK
  <1>2. trail'[r] \subseteq Employee
    BY DEF IInv, TypeOK
  <1>3. cursor[r] \in Unvisited(r) /\ Unvisited(r)' = Unvisited(r) \ {cursor[r]}
    BY <1>1, <1>2 DEF Unvisited
  <1>4. IsFiniteSet(Unvisited(r))
    BY FS_Subset DEF Unvisited
  <1>5. Cardinality(Unvisited(r)) \in Nat
        /\ Cardinality(Unvisited(r)') = Cardinality(Unvisited(r)) - 1
    BY <1>3, <1>4, FS_CardinalityType, FS_RemoveElement
  <1> QED
    BY <1>5

\* assertManagerChainHasNoCycles visits finitely many of finitely many employees, on a
\* cycle too and whatever other requests write between its queries: this is the variant
\* from which WalksEnd follows under fairness.
THEOREM WalksAreBounded ==
  ASSUME IsFiniteSet(Employee)
  PROVE  Spec => WalksShorten
  <1>1. ASSUME IInv, IInv', [Next]_vars, NEW r \in Req, pc[r] = "walk", pc'[r] = "walk"
        PROVE  \/ trail'[r] = trail[r] /\ cursor'[r] = cursor[r]
               \/ Cardinality(Unvisited(r)') < Cardinality(Unvisited(r))
    <2>1. ASSUME NEW q \in Req, q # r, Arrive(q) \/ Serve(q) \/ Fail(q)
          PROVE  trail'[r] = trail[r] /\ cursor'[r] = cursor[r]
      <3>1. DOMAIN trail = Req /\ DOMAIN cursor = Req
        BY <1>1 DEF IInv, TypeOK
      <3>2. /\ \A x : [cursor EXCEPT ![q] = x][r] = cursor[r]
            /\ \A x : [trail EXCEPT ![q] = x][r] = trail[r]
        BY <2>1, <3>1
      <3>3. CASE Arrive(q)
        BY <3>3 DEF Arrive, Ask, docs
      <3>4. CASE Serve(q)
        <4>1. End(q) \/ UNCHANGED <<trail, cursor>> => trail'[r] = trail[r] /\ cursor'[r] = cursor[r]
          BY <3>2 DEF End
        <4>2. Walk(q) => trail'[r] = trail[r] /\ cursor'[r] = cursor[r]
          BY <3>2, <4>1 DEF Walk, Climb
        <4>3. CheckManager(q) => trail'[r] = trail[r] /\ cursor'[r] = cursor[r]
          BY <3>2, <4>1 DEF CheckManager, Goto
        <4>4. Serve(q) /\ ~Walk(q) /\ ~CheckManager(q) => End(q) \/ UNCHANGED <<trail, cursor>>
          BY DEF Serve, LoadEmployee, CreateEmployee, UpdateEmployee, CountReports, Remove,
             Unpay, CheckEmployee, LoadPay, WritePay, Goto
        <4> QED
          BY <3>4, <4>1, <4>2, <4>3, <4>4
      <3>5. CASE Fail(q)
        BY <3>2, <3>5 DEF Fail, End
      <3> QED
        BY <2>1, <3>3, <3>4, <3>5
    <2>2. ASSUME Arrive(r) \/ Serve(r) \/ Fail(r) PROVE Walk(r)
      <3>1. ~Arrive(r)
        BY <1>1 DEF Arrive, Ask
      <3>2. ~Fail(r)
        BY <1>1 DEF Fail, End, IInv, TypeOK
      <3>3. Serve(r) => Walk(r)
        BY <1>1 DEF Serve, LoadEmployee, CheckManager, CreateEmployee, UpdateEmployee,
           CountReports, Remove, Unpay, CheckEmployee, LoadPay, WritePay, At
      <3> QED
        BY <2>2, <3>1, <3>2, <3>3
    <2>3. CASE UNCHANGED vars
      BY <2>3 DEF vars
    <2> QED
      BY <1>1, <2>1, <2>2, <2>3, ClimbShortens DEF Next
  <1>2. IInv /\ IInv' /\ [Next]_vars =>
          [\A r \in Req : pc[r] = "walk" /\ pc'[r] = "walk" =>
             \/ trail'[r] = trail[r] /\ cursor'[r] = cursor[r]
             \/ Cardinality(Unvisited(r)') < Cardinality(Unvisited(r))]_vars
    BY <1>1
  <1> QED
    BY <1>2, Inductive, PTL DEF Spec, WalksShorten
=============================================================================
