--------------------------- MODULE ExpensesProofs ---------------------------
(***************************************************************************)
(* Theorems about the expenses: their workflow (ExpenseRequests) and what  *)
(* they say while they may be edited (ExpenseDrafts), for any number of    *)
(* expenses, of calls and of expenses in a bulk call.                      *)
(*                                                                         *)
(* In both a call writes by the id alone what it has decided on a copy.    *)
(* The invariants follow what is left of the copy when it writes: the      *)
(* dates of the status it had (LoadedInv), which are only ever added; and  *)
(* the subcategory it has found (SubInv), which stays under its category.  *)
(***************************************************************************)
EXTENDS ExpenseRequests, ExpenseDrafts, TLAPS

\* A call that is about to write has loaded a status its action may start from, and
\* the dates of that status are still there: dates are only ever added.
LoadedInv ==
  \A r \in Req :
    /\ pc[r] = "limit" => queue[r] # <<>>
    /\ pc[r] = "write" => /\ seen[r] \in TRANSITIONS(action[r])
                          /\ Evidence(seen[r]) \subseteq stamps[Item(r)]

IInv == TypeOK /\ LoadedInv /\ StatusHasEvidence

LEMMA EvidenceIsDates ==
  /\ \A s \in Status : Evidence(s) \subseteq Stamp
  /\ Evidence("submitted") = {"submittedAt"} /\ Evidence("returned") = {"submittedAt"}
  /\ Evidence("rejected") = {"submittedAt"} /\ Evidence("canceled") = {}
  /\ Evidence("approved") = {"submittedAt", "approvedAt"}
  /\ Evidence("paid") = {"submittedAt", "approvedAt", "paidAt"}
  BY DEF Evidence, Status, Stamp

LEMMA TransitionsOfActions ==
  /\ TRANSITIONS("submit") = {"draft", "returned"}
  /\ TRANSITIONS("cancel") = {"draft", "returned"}
  /\ TRANSITIONS("review") = {"submitted"}
  /\ TRANSITIONS("approve") = {"submitted"}
  /\ TRANSITIONS("reject") = {"submitted"}
  /\ TRANSITIONS("mark_paid") = {"approved"}
  BY DEF TRANSITIONS

LEMMA InitIInv == Init => IInv
  <1> SUFFICES ASSUME Init PROVE IInv
    OBVIOUS
  <1>1. status \in [Expense -> Status]
    BY DEF Init
  <1>2. \A e \in Expense : stamps[e] =
          Evidence(status[e]) \cup IF status[e] = "canceled" THEN {"canceledAt"} ELSE {}
    BY DEF Init
  <1>3. stamps \in [Expense -> SUBSET Stamp]
    <2>1. stamps = [e \in Expense |->
            Evidence(status[e]) \cup IF status[e] = "canceled" THEN {"canceledAt"} ELSE {}]
      BY DEF Init
    <2>2. \A e \in Expense :
            (Evidence(status[e]) \cup IF status[e] = "canceled" THEN {"canceledAt"} ELSE {})
              \subseteq Stamp
      BY <1>1, EvidenceIsDates DEF Stamp
    <2> QED
      BY <2>1, <2>2
  <1>4. /\ reason \in [Expense -> BOOLEAN]
        /\ \A e \in Expense : status[e] = "rejected" => reason[e]
    BY DEF Init
  <1>5. TypeOK
    BY <1>1, <1>3, <1>4 DEF Init, TypeOK, Action, Status
  <1>6. LoadedInv
    BY DEF Init, LoadedInv
  <1>7. StatusHasEvidence
    BY <1>2, <1>4 DEF StatusHasEvidence
  <1> QED
    BY <1>5, <1>6, <1>7 DEF IInv

\* What a call that has something to do is about is an expense.
LEMMA ItemIsExpense ==
  ASSUME IInv, NEW r \in Req, queue[r] # <<>>
  PROVE  Item(r) \in Expense /\ Tail(queue[r]) \in Seq(Expense)
         /\ (Len(queue[r]) # 1 => Tail(queue[r]) # <<>>)
  <1>1. queue[r] \in Seq(Expense)
    BY DEF IInv, TypeOK
  <1>2. Len(queue[r]) \in Nat \ {0} /\ queue[r] \in [1 .. Len(queue[r]) -> Expense]
    BY <1>1
  <1>3. Head(queue[r]) \in Expense /\ Tail(queue[r]) \in Seq(Expense)
    BY <1>1
  <1>4. Len(Tail(queue[r])) = Len(queue[r]) - 1
    BY <1>1
  <1>5. Len(queue[r]) # 1 => Tail(queue[r]) # <<>>
    <2>1. Len(queue[r]) # 1 => Len(Tail(queue[r])) # 0
      BY <1>2, <1>4
    <2>2. Len(<<>>) = 0
      OBVIOUS
    <2> QED
      BY <2>1, <2>2
  <1> QED
    BY <1>3, <1>5 DEF Item

LEMMA EndKeeps ==
  ASSUME IInv, NEW r \in Req, End(r), UNCHANGED <<docs, asked>>,
         records' \in SUBSET (Expense \X Action)
  PROVE  IInv'
  <1> USE DEF IInv
  <1>1. TypeOK'
    BY DEF End, TypeOK, docs, Action, Status
  <1>2. /\ pc'[r] = "idle"
        /\ \A q \in Req \ {r} : /\ pc'[q] = pc[q] /\ queue'[q] = queue[q]
                                /\ seen'[q] = seen[q] /\ action'[q] = action[q]
    BY DEF End, TypeOK
  <1>3. LoadedInv'
    BY <1>2 DEF LoadedInv, docs, Item
  <1>4. StatusHasEvidence'
    BY DEF StatusHasEvidence, docs
  <1> QED
    BY <1>1, <1>3, <1>4

LEMMA AdvanceKeeps ==
  ASSUME IInv, NEW r \in Req, NEW done \in BOOLEAN, Advance(r, done), UNCHANGED <<docs, asked>>,
         queue[r] # <<>>, records' \in SUBSET (Expense \X Action)
  PROVE  IInv'
  <1>1. CASE ~bulk[r]
    BY <1>1, EndKeeps DEF Advance
  <1>2. CASE bulk[r]
    <2> USE DEF IInv
    <2>1. Item(r) \in Expense /\ Tail(queue[r]) \in Seq(Expense)
          /\ (Len(queue[r]) # 1 => Tail(queue[r]) # <<>>)
      BY ItemIsExpense
    <2>2. /\ queue' = [queue EXCEPT ![r] = Tail(@)]
          /\ pc' = [pc EXCEPT ![r] = IF Len(queue[r]) = 1 THEN "summary" ELSE "load"]
          /\ seen' = [seen EXCEPT ![r] = "draft"]
          /\ ok' = [ok EXCEPT ![r] = IF done THEN @ \cup {Item(r)} ELSE @]
          /\ failed' = [failed EXCEPT ![r] = IF done THEN @ ELSE @ \cup {Item(r)}]
          /\ UNCHANGED <<action, bulk>>
      BY <1>2 DEF Advance
    <2>3. ok' \in [Req -> SUBSET Expense] /\ failed' \in [Req -> SUBSET Expense]
      BY <2>1, <2>2 DEF TypeOK
    <2>4. /\ pc' \in [Req -> {"idle", "limit", "load", "write", "audit", "summary"}]
          /\ queue' \in [Req -> Seq(Expense)] /\ seen' \in [Req -> Status]
      BY <2>1, <2>2 DEF TypeOK, Status
    <2>5. /\ pc'[r] \in {"summary", "load"} /\ (pc'[r] = "load" => queue'[r] # <<>>)
          /\ \A q \in Req \ {r} : /\ pc'[q] = pc[q] /\ queue'[q] = queue[q]
                                  /\ seen'[q] = seen[q]
      BY <2>1, <2>2 DEF TypeOK
    <2>6. TypeOK'
      BY <2>2, <2>3, <2>4, <2>5 DEF TypeOK, docs
    <2>7. LoadedInv'
      BY <2>2, <2>5 DEF LoadedInv, docs, Item
    <2>8. StatusHasEvidence'
      BY DEF StatusHasEvidence, docs
    <2> QED
      BY <2>6, <2>7, <2>8
  <1> QED
    BY <1>1, <1>2 DEF TypeOK

LEMMA StartKeeps ==
  ASSUME IInv, NEW r \in Req, NEW what \in Action, NEW many \in BOOLEAN, NEW items \in Seq(Expense),
         items # <<>>, Start(r, what, many, items)
  PROVE  IInv'
  <1> USE DEF IInv
  <1>1. TypeOK'
    BY DEF Start, TypeOK, docs
  <1>2. /\ pc'[r] \in {"limit", "load"} /\ queue'[r] = items
        /\ \A q \in Req \ {r} : /\ pc'[q] = pc[q] /\ queue'[q] = queue[q]
                                /\ seen'[q] = seen[q] /\ action'[q] = action[q]
    BY DEF Start, TypeOK
  <1>3. stamps' = stamps /\ status' = status /\ reason' = reason
    BY DEF Start, docs
  <1>4. LoadedInv'
    BY <1>2, <1>3 DEF LoadedInv, Item
  <1>5. StatusHasEvidence'
    BY <1>3 DEF StatusHasEvidence
  <1> QED
    BY <1>1, <1>4, <1>5

LEMMA ArriveKeeps ==
  ASSUME IInv, NEW r \in Req, Arrive(r)
  PROVE  IInv'
  <1>1. ASSUME NEW what \in Action, NEW e \in Expense, AskOne(r, what, e) PROVE IInv'
    <2>1. <<e>> \in Seq(Expense) /\ <<e>> # <<>>
      OBVIOUS
    <2> QED
      BY <1>1, <2>1, StartKeeps DEF AskOne
  <1>2. ASSUME NEW what \in BulkAction, NEW items \in Lists, AskMany(r, what, items) PROVE IInv'
    <2>1. what \in Action /\ items \in Seq(Expense) /\ items # <<>>
      BY ExpenseAssumption DEF BulkAction, Action
    <2> QED
      BY <1>2, <2>1, StartKeeps DEF AskMany
  <1> QED
    BY <1>1, <1>2 DEF Arrive

LEMMA LimitKeeps ==
  ASSUME IInv, NEW r \in Req, Limit(r)
  PROVE  IInv'
  <1>1. pc[r] = "limit" /\ queue[r] # <<>> /\ UNCHANGED <<docs, records, asked>>
    BY DEF Limit, IInv, LoadedInv
  <1>2. CASE End(r)
    BY <1>1, <1>2, EndKeeps DEF IInv, TypeOK
  <1>3. CASE Goto(r, "load")
    <2> USE DEF IInv
    <2>1. TypeOK'
      BY <1>1, <1>3 DEF Goto, TypeOK, docs
    <2>2. LoadedInv'
      BY <1>1, <1>3 DEF Goto, LoadedInv, TypeOK, docs, Item
    <2>3. StatusHasEvidence'
      BY <1>1 DEF StatusHasEvidence, docs
    <2> QED
      BY <2>1, <2>2, <2>3
  <1> QED
    BY <1>2, <1>3 DEF Limit

LEMMA LoadKeeps ==
  ASSUME IInv, NEW r \in Req, Load(r)
  PROVE  IInv'
  <1>1. pc[r] = "load" /\ queue[r] # <<>> /\ UNCHANGED <<docs, records, asked>>
    BY DEF Load, IInv, TypeOK
  <1>2. CASE Advance(r, FALSE)
    BY <1>1, <1>2, AdvanceKeeps DEF IInv, TypeOK
  <1>3. CASE /\ status[Item(r)] \in TRANSITIONS(action[r])
             /\ pc' = [pc EXCEPT ![r] = "write"]
             /\ seen' = [seen EXCEPT ![r] = status[Item(r)]]
             /\ UNCHANGED <<action, bulk, queue, ok, failed>>
    <2> USE DEF IInv
    <2>1. Item(r) \in Expense /\ status[Item(r)] \in Status
      BY <1>1, ItemIsExpense DEF TypeOK
    <2>2. Evidence(status[Item(r)]) \subseteq stamps[Item(r)]
      BY <2>1 DEF StatusHasEvidence
    <2>3. TypeOK'
      BY <1>1, <1>3, <2>1 DEF TypeOK, docs
    <2>4. /\ pc'[r] = "write" /\ seen'[r] = status[Item(r)] /\ stamps' = stamps
          /\ \A q \in Req \ {r} : pc'[q] = pc[q] /\ seen'[q] = seen[q]
      BY <1>1, <1>3 DEF TypeOK, docs
    <2>5. LoadedInv'
      BY <1>3, <2>2, <2>4 DEF LoadedInv, Item
    <2>6. StatusHasEvidence'
      BY <1>1 DEF StatusHasEvidence, docs
    <2> QED
      BY <2>3, <2>5, <2>6
  <1> QED
    BY <1>2, <1>3 DEF Load

\* A write that has the dates of its result, and a reason if it rejects.
LEMMA WriteKeeps ==
  ASSUME IInv, NEW r \in Req, NEW what \in Action, NEW result \in Status, NEW dates \in SUBSET Stamp,
         Write(r, what, result, dates),
         Evidence(result) \subseteq stamps[Item(r)] \cup dates,
         reason' \in [Expense -> BOOLEAN],
         \A e \in Expense \ {Item(r)} : reason'[e] = reason[e],
         result = "rejected" => reason'[Item(r)]
  PROVE  IInv'
  <1> USE DEF IInv
  <1>1. pc[r] = "write" /\ Item(r) \in Expense /\ queue[r] # <<>>
    BY ItemIsExpense DEF Write, TypeOK
  <1>2. /\ status' = [status EXCEPT ![Item(r)] = result]
        /\ stamps' = [stamps EXCEPT ![Item(r)] = @ \cup dates]
        /\ UNCHANGED <<records, asked>>
        /\ pc' = [pc EXCEPT ![r] = "audit"] /\ UNCHANGED <<action, bulk, queue, seen, ok, failed>>
    BY DEF Write, Goto
  <1>3. status' \in [Expense -> Status] /\ stamps' \in [Expense -> SUBSET Stamp]
    BY <1>1, <1>2 DEF TypeOK
  <1>4. TypeOK'
    BY <1>1, <1>2, <1>3 DEF TypeOK
  <1>5. \A e \in Expense : stamps[e] \subseteq stamps'[e]
    BY <1>1, <1>2 DEF TypeOK
  <1>6. LoadedInv'
    <2>1. pc'[r] = "audit" /\ \A q \in Req \ {r} : pc'[q] = pc[q]
      BY <1>2 DEF TypeOK
    <2>2. \A q \in Req : pc[q] = "write" => Item(q) \in Expense
      BY ItemIsExpense DEF TypeOK
    <2> QED
      BY <1>2, <1>5, <2>1, <2>2 DEF LoadedInv, Item
  <1>7. StatusHasEvidence'
    <2>1. /\ status'[Item(r)] = result /\ stamps'[Item(r)] = stamps[Item(r)] \cup dates
          /\ \A e \in Expense \ {Item(r)} : status'[e] = status[e] /\ stamps'[e] = stamps[e]
      BY <1>1, <1>2 DEF TypeOK
    <2> QED
      BY <2>1 DEF StatusHasEvidence
  <1> QED
    BY <1>4, <1>6, <1>7

Writes(r) ==
  \/ SubmitRequest(r) \/ ReviewRequest(r) \/ ApproveRequest(r)
  \/ RejectRequest(r) \/ CancelRequest(r) \/ MarkRequestAsPaid(r)

LEMMA WritesKeep ==
  ASSUME IInv, NEW r \in Req, Writes(r)
  PROVE  IInv'
  <1>1. pc[r] = "write"
    BY DEF Writes, SubmitRequest, ReviewRequest, ApproveRequest, RejectRequest, CancelRequest,
           MarkRequestAsPaid, Write
  <1>2. /\ seen[r] \in TRANSITIONS(action[r]) /\ Evidence(seen[r]) \subseteq stamps[Item(r)]
        /\ Item(r) \in Expense /\ reason \in [Expense -> BOOLEAN]
    BY <1>1, ItemIsExpense DEF IInv, LoadedInv, TypeOK
  <1>3. ASSUME NEW given \in BOOLEAN, Reason(r, given)
        PROVE  /\ reason' \in [Expense -> BOOLEAN] /\ reason'[Item(r)] = given
               /\ \A e \in Expense \ {Item(r)} : reason'[e] = reason[e]
    BY <1>2, <1>3 DEF Reason
  <1>4. CASE SubmitRequest(r)
    <2>1. Write(r, "submit", "submitted", {"submittedAt"}) /\ reason' = reason
      BY <1>4 DEF SubmitRequest
    <2> QED
      BY <1>2, <2>1, EvidenceIsDates, WriteKeeps DEF Action, Status, Stamp
  <1>5. CASE ReviewRequest(r)
    <2>1. Write(r, "review", "returned", {}) /\ Reason(r, FALSE) /\ action[r] = "review"
      BY <1>5 DEF ReviewRequest, Write
    <2>2. Evidence("returned") \subseteq stamps[Item(r)] \cup {}
      BY <1>2, <2>1, EvidenceIsDates, TransitionsOfActions
    <2>3. /\ reason' \in [Expense -> BOOLEAN]
          /\ \A e \in Expense \ {Item(r)} : reason'[e] = reason[e]
          /\ action[r] = "reject" => reason'[Item(r)]
      BY <1>3, <2>1
    <2>4. {} \in SUBSET Stamp
      OBVIOUS
    <2> QED
      BY <2>1, <2>2, <2>3, <2>4, WriteKeeps DEF Action, Status
  <1>6. CASE ApproveRequest(r)
    <2>1. /\ Write(r, "approve", "approved", {"approvedAt"}) /\ Reason(r, FALSE)
          /\ action[r] = "approve"
      BY <1>6 DEF ApproveRequest, Write
    <2>2. Evidence("approved") \subseteq stamps[Item(r)] \cup {"approvedAt"}
      BY <1>2, <2>1, EvidenceIsDates, TransitionsOfActions
    <2> QED
      BY <1>3, <2>1, <2>2, WriteKeeps DEF Action, Status, Stamp
  <1>7. CASE RejectRequest(r)
    <2>1. Write(r, "reject", "rejected", {}) /\ Reason(r, TRUE) /\ action[r] = "reject"
      BY <1>7 DEF RejectRequest, Write
    <2>2. Evidence("rejected") \subseteq stamps[Item(r)] \cup {}
      BY <1>2, <2>1, EvidenceIsDates, TransitionsOfActions
    <2>3. /\ reason' \in [Expense -> BOOLEAN]
          /\ \A e \in Expense \ {Item(r)} : reason'[e] = reason[e]
          /\ action[r] = "reject" => reason'[Item(r)]
      BY <1>3, <2>1
    <2>4. {} \in SUBSET Stamp
      OBVIOUS
    <2> QED
      BY <2>1, <2>2, <2>3, <2>4, WriteKeeps DEF Action, Status
  <1>8. CASE CancelRequest(r)
    <2>1. Write(r, "cancel", "canceled", {"canceledAt"}) /\ reason' = reason
      BY <1>8 DEF CancelRequest
    <2> QED
      BY <1>2, <2>1, EvidenceIsDates, WriteKeeps DEF Action, Status, Stamp
  <1>9. CASE MarkRequestAsPaid(r)
    <2>1. /\ Write(r, "mark_paid", "paid", {"paidAt"}) /\ reason' = reason
          /\ action[r] = "mark_paid"
      BY <1>9 DEF MarkRequestAsPaid, Write
    <2>2. Evidence("paid") \subseteq stamps[Item(r)] \cup {"paidAt"}
      BY <1>2, <2>1, EvidenceIsDates, TransitionsOfActions
    <2> QED
      BY <1>2, <2>1, <2>2, WriteKeeps DEF Action, Status, Stamp
  <1> QED
    BY <1>4, <1>5, <1>6, <1>7, <1>8, <1>9 DEF Writes

LEMMA AuditKeeps ==
  ASSUME IInv, NEW r \in Req, Audit(r)
  PROVE  IInv'
  <1>1. queue[r] # <<>> /\ UNCHANGED <<docs, asked>> /\ Advance(r, TRUE)
    BY DEF Audit, IInv, TypeOK
  <1>2. Item(r) \in Expense /\ action[r] \in Action
    BY <1>1, ItemIsExpense DEF IInv, TypeOK
  <1>3. records' \in SUBSET (Expense \X Action)
    BY <1>2 DEF Audit, IInv, TypeOK
  <1> QED
    BY <1>1, <1>3, AdvanceKeeps

LEMMA ItemFailsKeeps ==
  ASSUME IInv, NEW r \in Req, ItemFails(r)
  PROVE  IInv'
  <1>1. /\ queue[r] # <<>> /\ UNCHANGED <<docs, records, asked>> /\ Advance(r, FALSE)
        /\ records \in SUBSET (Expense \X Action)
    BY DEF ItemFails, IInv, TypeOK
  <1> QED
    BY <1>1, AdvanceKeeps

LEMMA EndsKeep ==
  ASSUME IInv, NEW r \in Req, Summary(r) \/ Fail(r)
  PROVE  IInv'
  BY EndKeeps DEF Summary, Fail, IInv, TypeOK

LEMMA StutterKeeps ==
  ASSUME IInv, UNCHANGED vars
  PROVE  IInv'
  BY DEF vars, docs, calls, IInv, TypeOK, LoadedInv, StatusHasEvidence, Item

LEMMA Inductive == Spec => []IInv
  <1>1. IInv /\ [Next]_vars => IInv'
    <2> SUFFICES ASSUME IInv, [Next]_vars PROVE IInv'
      OBVIOUS
    <2>1. ASSUME NEW r \in Req, Arrive(r) \/ Serve(r) \/ ItemFails(r) \/ Fail(r) PROVE IInv'
      BY <2>1, ArriveKeeps, LimitKeeps, LoadKeeps, WritesKeep, AuditKeeps, ItemFailsKeeps, EndsKeep
         DEF Serve, Writes
    <2> QED
      BY <2>1, StutterKeeps DEF Next
  <1> QED
    BY <1>1, InitIInv, PTL DEF Spec

\* Expenses, records and calls are always of their types.
THEOREM ExpensesTypeCorrect == Spec => []TypeOK
  BY Inductive, PTL DEF IInv

\* However stale the status a call acts on, the dates of an expense account for the
\* status it is in, and a rejected one has its reason.
THEOREM EvidenceOfStatus == Spec => []StatusHasEvidence
  BY Inductive, PTL DEF IInv

-----------------------------------------------------------------------------
\* A write takes an edge of the workflow from the status its call has loaded.
LEMMA WriteTakesAnEdge ==
  ASSUME IInv, NEW r \in Req, Writes(r)
  PROVE  /\ pc[r] = "write"
         /\ \A e \in Expense : status'[e] # status[e] =>
              e = Item(r) /\ <<seen[r], status'[e]>> \in Edges
  <1>1. PICK what \in Action, result \in Status, dates \in SUBSET Stamp :
          /\ Write(r, what, result, dates)
          /\ \A s \in TRANSITIONS(what) : <<s, result>> \in Edges
    <2>1. CASE SubmitRequest(r)
      BY <2>1, TransitionsOfActions DEF SubmitRequest, Action, Status, Stamp, Edges
    <2>2. CASE ReviewRequest(r)
      BY <2>2, TransitionsOfActions DEF ReviewRequest, Action, Status, Stamp, Edges
    <2>3. CASE ApproveRequest(r)
      BY <2>3, TransitionsOfActions DEF ApproveRequest, Action, Status, Stamp, Edges
    <2>4. CASE RejectRequest(r)
      BY <2>4, TransitionsOfActions DEF RejectRequest, Action, Status, Stamp, Edges
    <2>5. CASE CancelRequest(r)
      BY <2>5, TransitionsOfActions DEF CancelRequest, Action, Status, Stamp, Edges
    <2>6. CASE MarkRequestAsPaid(r)
      BY <2>6, TransitionsOfActions DEF MarkRequestAsPaid, Action, Status, Stamp, Edges
    <2> QED
      BY <2>1, <2>2, <2>3, <2>4, <2>5, <2>6 DEF Writes
  <1>2. pc[r] = "write" /\ action[r] = what
    BY <1>1 DEF Write
  <1>3. Item(r) \in Expense /\ seen[r] \in TRANSITIONS(what)
    BY <1>2, ItemIsExpense DEF IInv, TypeOK, LoadedInv
  <1>4. status'[Item(r)] = result /\ \A e \in Expense \ {Item(r)} : status'[e] = status[e]
    BY <1>1, <1>3 DEF Write, IInv, TypeOK
  <1> QED
    BY <1>1, <1>2, <1>3, <1>4

\* An expense leaves the workflow only by a call whose loaded status is no longer its own.
THEOREM MovesAreEdgesOrStale == Spec => MovesFollowTheMachine
  <1>1. ASSUME IInv, [Next]_vars, NEW e \in Expense, status'[e] # status[e]
        PROVE  \/ <<status[e], status'[e]>> \in Edges
               \/ \E r \in Req : pc[r] = "write" /\ Item(r) = e /\ seen[r] # status[e]
    <2>1. ASSUME NEW r \in Req,
                 Arrive(r) \/ ItemFails(r) \/ Fail(r) \/ Limit(r) \/ Load(r) \/ Audit(r) \/ Summary(r)
          PROVE  status' = status
      BY <2>1 DEF Arrive, AskOne, AskMany, Start, ItemFails, Fail, Limit, Load, Audit, Summary, docs
    <2>2. PICK r \in Req : Writes(r)
      BY <1>1, <2>1 DEF Next, Serve, Writes, vars, docs
    <2>3. pc[r] = "write" /\ e = Item(r) /\ <<seen[r], status'[e]>> \in Edges
      BY <1>1, <2>2, WriteTakesAnEdge
    <2> QED
      BY <2>3
  <1>2. IInv /\ [Next]_vars =>
          [\A e \in Expense : status'[e] # status[e] =>
             \/ <<status[e], status'[e]>> \in Edges
             \/ \E r \in Req : pc[r] = "write" /\ Item(r) = e /\ seen[r] # status[e]]_vars
    BY <1>1
  <1> QED
    BY <1>2, Inductive, PTL DEF Spec, MovesFollowTheMachine

-----------------------------------------------------------------------------
(* What an expense says while it may be edited (ExpenseDrafts).             *)

USE DraftsAssumption

\* What a call at each place was asked for, and what it is going to write.
CallInv ==
  \A r \in Call :
    /\ place[r] # "idle" => input[r].kind \in Kinds
    /\ input[r].kind \in {"create", "subcategory"} => input[r].category \in Category
    /\ input[r].kind \in {"update", "review", "presign", "attach", "detach"} => Subject(r) \in Draft
    /\ input[r].kind = "review" => input[r].wish = Keep
    /\ place[r] = "load" => input[r].kind \notin {"create", "subcategory"}
    /\ place[r] = "category" =>
         input[r].kind \in {"create", "update", "subcategory"} /\ input[r].category \in Category
    /\ place[r] = "taxonomy" => input[r].kind \in {"create", "update"}
    /\ place[r] \in {"taxonomy", "write"} => plan[r].category \in Category

\* What a call has loaded: an expense that exists; what the patch leaves out is what it found.
CopyInv ==
  \A r \in Call :
    place[r] \in {"category", "taxonomy", "write"} /\ input[r].kind \notin {"create", "subcategory"} =>
      /\ phase[Subject(r)] # "absent"
      /\ input[r].wish = Keep => plan[r].wish = copy[r].wish
      /\ place[r] # "category" /\ input[r].category = Keep => plan[r].category = copy[r].category

\* The subcategory a call has found goes with the category and the metadata it is going to
\* write, for a subcategory stays under its category.
SubInv ==
  /\ \A r \in Call :
       place[r] = "write" /\ input[r].kind \in {"create", "update"} /\ plan[r].sub # None =>
         under[plan[r].sub] = plan[r].category /\ plan[r].sub = plan[r].wish
  /\ \A e \in Draft : sub[e] # None => under[sub[e]] \in Category

DraftsInv == DraftsTypeOK /\ CallInv /\ CopyInv /\ SubInv

LEMMA DraftsStart == DraftsInit => DraftsInv
<1> SUFFICES ASSUME DraftsInit PROVE DraftsInv
  OBVIOUS
<1>1. NoInput \in Input /\ NoCopy \in Copy /\ NoPlan \in Plan
  BY DEF NoInput, Input, NoCopy, Copy, NoPlan, Plan
<1>2. DraftsTypeOK
  BY <1>1 DEF DraftsInit, DraftsTypeOK, CategoryDoc, SubcategoryDoc, AttachmentDoc, SettingsDoc
<1>3. CallInv
  BY DEF DraftsInit, CallInv, NoInput
<1>4. CopyInv /\ SubInv
  BY DEF DraftsInit, CopyInv, SubInv
<1> QED BY <1>2, <1>3, <1>4 DEF DraftsInv

\* The types of the documents, and of the calls.
PapersOK ==
  /\ catalog \in [Category -> CategoryDoc]
  /\ under \in [Sub -> SubcategoryDoc]
  /\ phase \in [Draft -> {"absent", "open", "closed"}]
  /\ category \in [Draft -> Category \cup {None}]
  /\ sub \in [Draft -> Sub \cup {None}]
  /\ wish \in [Draft -> Sub \cup {None}]
  /\ files \in [Draft \X Upload -> AttachmentDoc]
  /\ \A e \in Draft : phase[e] # "absent" => category[e] \in Category
CallsOK ==
  /\ place \in [Call -> {"idle", "load", "category", "taxonomy", "write"}]
  /\ input \in [Call -> Input]
  /\ copy \in [Call -> Copy]
  /\ plan \in [Call -> Plan]
  /\ started \in Nat

LEMMA DraftsTypes == DraftsTypeOK <=> PapersOK /\ CallsOK /\ settings \in SettingsDoc
BY DEF DraftsTypeOK, PapersOK, CallsOK

\* What a call that begins asks for.
BeginsWith(request) ==
  /\ request \in Input
  /\ request.kind \in Kinds
  /\ request.kind \in {"create", "subcategory"} => request.category \in Category
  /\ request.kind \in {"update", "review", "presign", "attach", "detach"} => request.expense \in Draft
  /\ request.kind = "review" => request.wish = Keep

LEMMA BeginAsks ==
  ASSUME NEW r \in Call, Begin(r)
  PROVE  \E request : BeginsWith(request) /\ Ask(r, request)
<1> USE DEF BeginsWith, NoInput, Kinds, Input
<1>1. CASE \E c \in Category, s \in Sub \cup {None} :
             Ask(r, [NoInput EXCEPT !.kind = "create", !.category = c, !.wish = s])
  BY <1>1
<1>2. CASE \E e \in Draft, c \in Category \cup {Keep}, s \in Sub \cup {None, Keep} :
             Ask(r, [NoInput EXCEPT !.kind = "update", !.expense = e, !.category = c, !.wish = s])
  BY <1>2
<1>3. CASE \E e \in Draft, kind \in {"review", "presign"} :
             Ask(r, [NoInput EXCEPT !.kind = kind, !.expense = e])
  BY <1>3
<1>4. CASE \E e \in Draft, kind \in {"attach", "detach"}, f \in Upload :
             Ask(r, [NoInput EXCEPT !.kind = kind, !.expense = e, !.upload = f])
  BY <1>4
<1>5. CASE \E c \in Category : Ask(r, [NoInput EXCEPT !.kind = "subcategory", !.category = c])
  BY <1>5
<1> QED BY <1>1, <1>2, <1>3, <1>4, <1>5 DEF Begin

\* The documents alone change.
LEMMA PapersStep ==
  ASSUME DraftsInv, UNCHANGED <<place, input, copy, plan, started, under, sub>>,
         PapersOK', settings' \in SettingsDoc,
         \A e \in Draft : phase[e] # "absent" => phase'[e] # "absent"
  PROVE  DraftsInv'
<1>1. DraftsTypeOK'
  BY DEF DraftsInv, DraftsTypeOK, PapersOK
<1>2. CallInv' /\ SubInv'
  BY DEF DraftsInv, CallInv, SubInv, Subject
<1>3. CopyInv'
  BY DEF DraftsInv, CopyInv, CallInv, Subject, Kinds
<1> QED BY <1>1, <1>2, <1>3 DEF DraftsInv

LEMMA AskStep ==
  ASSUME DraftsInv, NEW r \in Call, NEW request, BeginsWith(request), Ask(r, request)
  PROVE  DraftsInv'
<1>1. PapersOK /\ CallsOK /\ settings \in SettingsDoc
  BY DraftsTypes DEF DraftsInv
<1>2. UNCHANGED <<catalog, under, settings, phase, category, sub, wish, files, copy, plan>>
  BY DEF Ask, draftsDocs
<1>3. CallsOK'
  BY <1>1, <1>2 DEF CallsOK, Ask, BeginsWith
<1>4. DraftsTypeOK'
  BY <1>1, <1>2, <1>3 DEF DraftsTypeOK, PapersOK, CallsOK
<1>5. /\ place'[r] = IF request.kind \in {"create", "subcategory"} THEN "category" ELSE "load"
      /\ input'[r] = request
      /\ \A q \in Call \ {r} : place'[q] = place[q] /\ input'[q] = input[q]
  BY <1>1 DEF Ask, CallsOK
<1>6. CallInv'
  BY <1>2, <1>5 DEF DraftsInv, CallInv, BeginsWith, Subject
<1>7. CopyInv'
  BY <1>2, <1>5 DEF DraftsInv, CopyInv, Subject
<1>8. SubInv'
  BY <1>2, <1>5 DEF DraftsInv, SubInv
<1> QED BY <1>4, <1>6, <1>7, <1>8 DEF DraftsInv

\* A call that ends leaves the documents as the invariant wants them.
LEMMA FinishStep ==
  ASSUME DraftsInv, NEW r \in Call, Finish(r), PapersOK', settings' \in SettingsDoc,
         \A e \in Draft : phase[e] # "absent" => phase'[e] # "absent",
         \A s \in Sub : under[s] \in Category => under'[s] = under[s],
         \A e \in Draft : sub'[e] # None => under'[sub'[e]] \in Category
  PROVE  DraftsInv'
<1>1. CallsOK /\ PapersOK
  BY DraftsTypes DEF DraftsInv
<1>2. NoInput \in Input /\ NoCopy \in Copy /\ NoPlan \in Plan
  BY DEF NoInput, Input, NoCopy, Copy, NoPlan, Plan
<1>3. CallsOK'
  BY <1>1, <1>2 DEF CallsOK, Finish
<1>4. DraftsTypeOK'
  BY <1>3 DEF DraftsTypeOK, PapersOK, CallsOK
<1>5. /\ place'[r] = "idle" /\ input'[r] = NoInput
      /\ \A q \in Call \ {r} : /\ place'[q] = place[q] /\ input'[q] = input[q]
                               /\ copy'[q] = copy[q] /\ plan'[q] = plan[q]
  BY <1>1 DEF Finish, CallsOK
<1>6. CallInv'
  BY <1>5 DEF DraftsInv, CallInv, Subject, NoInput
<1>7. CopyInv'
  BY <1>5 DEF DraftsInv, CopyInv, CallInv, Subject, Kinds
<1>8. SubInv'
  <2>1. ASSUME NEW q \in Call \ {r}, place[q] = "write", input[q].kind \in {"create", "update"},
               plan[q].sub # None
        PROVE  under'[plan[q].sub] = plan[q].category /\ plan[q].sub = plan[q].wish
    <3>1. under[plan[q].sub] = plan[q].category /\ plan[q].sub = plan[q].wish
      BY <2>1 DEF DraftsInv, SubInv
    <3>2. plan[q].category \in Category /\ plan[q].sub \in Sub
      BY <1>1, <2>1 DEF DraftsInv, CallInv, CallsOK, Plan
    <3> QED BY <3>1, <3>2
  <2> QED BY <1>5, <2>1 DEF SubInv
<1> QED BY <1>4, <1>6, <1>7, <1>8 DEF DraftsInv

LEMMA HandleStep ==
  ASSUME DraftsInv, NEW r \in Call, Handle(r) \/ Abandon(r)
  PROVE  DraftsInv'
<1>1. CallsOK /\ PapersOK /\ settings \in SettingsDoc
  BY DraftsTypes DEF DraftsInv
<1>2. CallInv /\ CopyInv /\ SubInv
  BY DEF DraftsInv
<1>3. ASSUME Finish(r), UNCHANGED draftsDocs PROVE DraftsInv'
  <2>1. UNCHANGED <<catalog, under, settings, phase, category, sub, wish, files>>
    BY <1>3 DEF draftsDocs
  <2>2. PapersOK'
    BY <1>1, <2>1 DEF PapersOK
  <2> QED BY <1>1, <1>2, <1>3, <2>1, <2>2, FinishStep DEF SubInv
\* A step that only changes the call, and goes on.
<1>4. ASSUME UNCHANGED draftsDocs, UNCHANGED <<input, started>>,
             NEW to \in {"category", "taxonomy", "write"}, place' = [place EXCEPT ![r] = to],
             copy' \in [Call -> Copy], plan' \in [Call -> Plan],
             \A q \in Call \ {r} : copy'[q] = copy[q] /\ plan'[q] = plan[q],
             to = "category" => input[r].kind = "update" /\ input[r].category \in Category,
             to = "taxonomy" => input[r].kind \in {"create", "update"},
             to \in {"taxonomy", "write"} => plan'[r].category \in Category,
             input[r].kind \notin {"create", "subcategory"} =>
               /\ phase[Subject(r)] # "absent"
               /\ input[r].wish = Keep => plan'[r].wish = copy'[r].wish
               /\ to # "category" /\ input[r].category = Keep => plan'[r].category = copy'[r].category,
             to = "write" /\ input[r].kind \in {"create", "update"} /\ plan'[r].sub # None =>
               under[plan'[r].sub] = plan'[r].category /\ plan'[r].sub = plan'[r].wish,
             place[r] # "idle"
      PROVE  DraftsInv'
  <2>1. UNCHANGED <<catalog, under, settings, phase, category, sub, wish, files>>
    BY <1>4 DEF draftsDocs
  <2>2. place' \in [Call -> {"idle", "load", "category", "taxonomy", "write"}]
    BY <1>1, <1>4 DEF CallsOK
  <2>3. CallsOK'
    BY <1>1, <1>4, <2>2 DEF CallsOK
  <2>4. DraftsTypeOK'
    BY <1>1, <2>1, <2>3 DEF DraftsTypeOK, PapersOK, CallsOK
  <2>5. place'[r] = to /\ \A q \in Call \ {r} : place'[q] = place[q]
    BY <1>1, <1>4 DEF CallsOK
  <2>6. CallInv'
    BY <1>2, <1>4, <2>5 DEF CallInv, Subject
  <2>7. CopyInv'
    BY <1>2, <1>4, <2>1, <2>5 DEF CopyInv, Subject
  <2>8. SubInv'
    BY <1>2, <1>4, <2>1, <2>5 DEF SubInv
  <2> QED BY <2>4, <2>6, <2>7, <2>8 DEF DraftsInv
<1>5. CASE Abandon(r)
  BY <1>3, <1>5 DEF Abandon
<1>6. CASE Presign(r)
  BY <1>3, <1>6 DEF Presign
<1>7. input[r] \in Input /\ plan[r] \in Plan /\ copy[r] \in Copy
  BY <1>1 DEF CallsOK
<1>8. CASE LoadDraft(r)
  <2>1. CASE Finish(r)
    BY <1>3, <1>8, <2>1 DEF LoadDraft
  <2>2. CASE ~Finish(r)
    <3> DEFINE e == Subject(r)
               w == IF input[r].wish = Keep THEN wish[e] ELSE input[r].wish
               to == IF input[r].kind # "update" THEN "write"
                     ELSE IF input[r].category = Keep THEN "taxonomy" ELSE "category"
    <3>1. /\ copy' = [copy EXCEPT ![r] = CopyOf(e)]
          /\ plan' = [plan EXCEPT ![r].category = category[e], ![r].wish = w]
          /\ place' = [place EXCEPT ![r] = to]
          /\ UNCHANGED <<input, started>> /\ UNCHANGED draftsDocs
          /\ place[r] = "load" /\ phase[e] # "absent"
      BY <1>8, <2>2 DEF LoadDraft, Editable
    <3>2. input[r].kind \in Kinds \ {"create", "subcategory"} /\ e \in Draft
      BY <1>2, <3>1 DEF CallInv, Kinds
    <3>3. category[e] \in Category /\ phase[e] \in {"absent", "open", "closed"} /\ wish[e] \in Sub \cup {None}
      BY <1>1, <3>1, <3>2 DEF PapersOK
    <3>4. CopyOf(e) \in Copy
      BY <3>3 DEF CopyOf, Copy
    <3>5. w \in Sub \cup {None}
      BY <1>7, <3>3 DEF Input
    <3>6. copy' \in [Call -> Copy] /\ copy'[r] = CopyOf(e)
      BY <1>1, <3>1, <3>4 DEF CallsOK
    <3> HIDE DEF w
    <3>7. plan' = [plan EXCEPT ![r] = [plan[r] EXCEPT !.category = category[e], !.wish = w]]
      BY <1>1, <3>1 DEF CallsOK
    <3>8. [plan[r] EXCEPT !.category = category[e], !.wish = w] \in Plan
      BY <1>7, <3>3, <3>5 DEF Plan
    <3>9. plan' \in [Call -> Plan]
      BY <1>1, <3>7, <3>8 DEF CallsOK
    <3>10. plan'[r].category = category[e] /\ plan'[r].wish = w
      BY <1>1, <1>7, <3>7 DEF CallsOK, Plan
    <3>11. copy'[r].category = category[e] /\ copy'[r].wish = wish[e]
      BY <3>6 DEF CopyOf
    <3>12. \A q \in Call \ {r} : copy'[q] = copy[q] /\ plan'[q] = plan[q]
      BY <1>1, <3>1, <3>7 DEF CallsOK
    <3>13. input[r].wish = Keep => w = wish[e]
      BY DEF w
    <3>14. /\ to \in {"category", "taxonomy", "write"}
           /\ to = "category" => input[r].kind = "update" /\ input[r].category \in Category
           /\ to = "taxonomy" => input[r].kind = "update"
           /\ to = "write" => input[r].kind # "update"
      BY <1>7 DEF Input
    <3> HIDE DEF to, e
    <3>15. e = Subject(r)
      BY DEF e
    <3> QED
      BY <1>4, <3>1, <3>2, <3>3, <3>6, <3>9, <3>10, <3>11, <3>12, <3>13, <3>14, <3>15
  <2> QED BY <2>1, <2>2
<1>9. CASE FindCategory(r)
  <2>1. CASE Finish(r)
    BY <1>3, <1>9, <2>1 DEF FindCategory
  <2>2. CASE ~Finish(r)
    <3> DEFINE c == input[r].category
               w == IF input[r].wish = Keep THEN plan[r].wish ELSE input[r].wish
               to == IF input[r].kind = "subcategory" THEN "write" ELSE "taxonomy"
    <3>1. /\ plan' = [plan EXCEPT ![r].category = c,
                                  ![r].wish = IF input[r].wish = Keep THEN @ ELSE input[r].wish]
          /\ place' = [place EXCEPT ![r] = to]
          /\ UNCHANGED <<input, copy, started>> /\ UNCHANGED draftsDocs
          /\ place[r] = "category"
      BY <1>9, <2>2 DEF FindCategory
    <3>2. c \in Category
      BY <1>2, <3>1 DEF CallInv
    <3>3. plan' = [plan EXCEPT ![r] = [plan[r] EXCEPT !.category = c, !.wish = w]]
      BY <1>1, <1>7, <3>1 DEF CallsOK, Plan
    <3>4. w \in Sub \cup {None}
      BY <1>7 DEF Input, Plan
    <3>5. input[r].wish = Keep => w = plan[r].wish
      OBVIOUS
    <3> HIDE DEF w
    <3>6. [plan[r] EXCEPT !.category = c, !.wish = w] \in Plan
      BY <1>7, <3>2, <3>4 DEF Plan
    <3>7. plan' \in [Call -> Plan] /\ \A q \in Call \ {r} : plan'[q] = plan[q]
      BY <1>1, <3>3, <3>6 DEF CallsOK
    <3>8. plan'[r].category = c /\ plan'[r].wish = w
      BY <1>1, <1>7, <3>3 DEF CallsOK, Plan
    <3>9. /\ to \in {"taxonomy", "write"}
          /\ to = "taxonomy" => input[r].kind # "subcategory"
          /\ to = "write" => input[r].kind = "subcategory"
      OBVIOUS
    <3>10. input[r].kind \in Kinds
      BY <1>2, <3>1 DEF CallInv
    <3>11. place[r] = "category" => input[r].kind \in {"create", "update", "subcategory"}
      BY <1>2 DEF CallInv
    <3>12. copy' \in [Call -> Copy]
      BY <1>1, <3>1 DEF CallsOK
    <3>13. input[r].kind \notin {"create", "subcategory"} =>
             /\ phase[Subject(r)] # "absent"
             /\ input[r].wish = Keep => plan'[r].wish = copy'[r].wish
             /\ input[r].category # Keep
      BY <1>2, <3>1, <3>2, <3>5, <3>8, DraftsAssumption DEF CopyInv
    <3> HIDE DEF to, c
    <3> QED
      BY <1>4, <3>1, <3>2, <3>7, <3>8, <3>9, <3>11, <3>12, <3>13
  <2> QED BY <2>1, <2>2
<1>10. CASE FindSubcategory(r)
  <2> DEFINE s == Resolved(plan[r].category, plan[r].wish)
  <2>1. /\ plan' = [plan EXCEPT ![r].sub = s] /\ place' = [place EXCEPT ![r] = "write"]
        /\ UNCHANGED <<draftsDocs, input, copy, started>> /\ place[r] = "taxonomy"
    BY <1>10 DEF FindSubcategory
  <2>2. s \in Sub \cup {None} /\ (s # None => under[s] = plan[r].category /\ s = plan[r].wish)
    BY DEF Resolved
  <2> HIDE DEF s
  <2>3. plan' = [plan EXCEPT ![r] = [plan[r] EXCEPT !.sub = s]]
    BY <1>1, <2>1 DEF CallsOK
  <2>4. [plan[r] EXCEPT !.sub = s] \in Plan
    BY <1>7, <2>2 DEF Plan
  <2>5. plan' \in [Call -> Plan] /\ \A q \in Call \ {r} : plan'[q] = plan[q]
    BY <1>1, <2>3, <2>4 DEF CallsOK
  <2>6. plan'[r].sub = s /\ plan'[r].category = plan[r].category /\ plan'[r].wish = plan[r].wish
    BY <1>1, <1>7, <2>3 DEF CallsOK, Plan
  <2>7. copy' \in [Call -> Copy] /\ copy'[r] = copy[r]
    BY <1>1, <2>1 DEF CallsOK
  <2>8. plan[r].category \in Category
    BY <1>2, <2>1 DEF CallInv
  <2>9. input[r].kind \notin {"create", "subcategory"} =>
          /\ phase[Subject(r)] # "absent"
          /\ input[r].wish = Keep => plan[r].wish = copy[r].wish
          /\ input[r].category = Keep => plan[r].category = copy[r].category
    BY <1>2, <2>1 DEF CopyInv
  <2> QED
    BY <1>4, <2>1, <2>2, <2>5, <2>6, <2>7, <2>8, <2>9
\* What a call at "write" is going to write.
<1>11. ASSUME place[r] = "write"
       PROVE  /\ plan[r].category \in Category /\ plan[r].wish \in Sub \cup {None}
              /\ plan[r].sub \in Sub \cup {None}
              /\ input[r].kind \in {"create", "update"} /\ plan[r].sub # None =>
                   under[plan[r].sub] = plan[r].category
              /\ input[r].kind \in {"update", "review", "attach", "detach"} =>
                   Subject(r) \in Draft /\ phase[Subject(r)] # "absent"
  BY <1>2, <1>7, <1>11 DEF CallInv, CopyInv, SubInv, Plan
<1>12. CASE CreateRequest(r)
  <2>1. PICK e \in Draft :
          /\ phase' = [phase EXCEPT ![e] = "open"]
          /\ category' = [category EXCEPT ![e] = plan[r].category]
          /\ sub' = [sub EXCEPT ![e] = plan[r].sub]
          /\ wish' = [wish EXCEPT ![e] = plan[r].wish]
    BY <1>12 DEF CreateRequest
  <2>2. place[r] = "write" /\ input[r].kind = "create" /\ Finish(r)
        /\ UNCHANGED <<catalog, under, settings, files>>
    BY <1>12 DEF CreateRequest, At
  <2>3. PapersOK'
    BY <1>1, <1>11, <2>1, <2>2 DEF PapersOK
  <2>4. \A d \in Draft : sub'[d] # None => under'[sub'[d]] \in Category
    BY <1>1, <1>2, <1>11, <2>1, <2>2 DEF PapersOK, SubInv
  <2>5. \A d \in Draft : phase[d] # "absent" => phase'[d] # "absent"
    BY <1>1, <2>1 DEF PapersOK
  <2> QED BY <1>1, <2>2, <2>3, <2>4, <2>5, FinishStep
<1>13. CASE UpdateRequest(r)
  <2>1. /\ place[r] = "write" /\ input[r].kind = "update" /\ Finish(r)
        /\ UNCHANGED <<catalog, under, settings, phase, files>>
        /\ sub' = [sub EXCEPT ![Subject(r)] = plan[r].sub]
    BY <1>13 DEF UpdateRequest, At
  <2>2. category' \in [Draft -> Category \cup {None}]
        /\ \A e \in Draft : phase[e] # "absent" => category'[e] \in Category
    BY <1>1, <1>11, <1>13, <2>1 DEF UpdateRequest, PapersOK
  <2>3. wish' \in [Draft -> Sub \cup {None}]
    BY <1>1, <1>11, <1>13, <2>1 DEF UpdateRequest, PapersOK
  <2>4. PapersOK'
    BY <1>1, <1>11, <2>1, <2>2, <2>3 DEF PapersOK
  <2>5. \A d \in Draft : sub'[d] # None => under'[sub'[d]] \in Category
    BY <1>1, <1>2, <1>11, <2>1 DEF PapersOK, SubInv
  <2> QED BY <1>1, <2>1, <2>4, <2>5, FinishStep
<1>14. CASE Review(r)
  <2>1. /\ place[r] = "write" /\ input[r].kind = "review" /\ Finish(r)
        /\ UNCHANGED <<catalog, under, settings, category, sub, files>>
        /\ phase' = [phase EXCEPT ![Subject(r)] = "open"]
        /\ wish' = [wish EXCEPT ![Subject(r)] = plan[r].wish]
    BY <1>14 DEF Review, At
  <2>2. PapersOK'
    BY <1>1, <1>11, <2>1 DEF PapersOK
  <2>3. \A d \in Draft : phase[d] # "absent" => phase'[d] # "absent"
    BY <1>1, <2>1 DEF PapersOK
  <2> QED BY <1>1, <1>2, <2>1, <2>2, <2>3, FinishStep DEF SubInv
<1>15. CASE Attach(r) \/ Detach(r)
  <2>1. Finish(r) /\ UNCHANGED <<catalog, under, settings, phase, category, sub, wish>>
    BY <1>15 DEF Attach, Detach
  <2>2. files' \in [Draft \X Upload -> AttachmentDoc]
    <3> DEFINE f == <<Subject(r), input[r].upload>>
    <3>1. \/ files' = [files EXCEPT ![f] = IF @ = "absent" THEN "live" ELSE @]
          \/ files' = [files EXCEPT ![f] = IF @ = "live" THEN "deleted" ELSE @]
      BY <1>15 DEF Attach, Detach
    <3> HIDE DEF f
    <3> QED BY <1>1, <3>1 DEF PapersOK, AttachmentDoc
  <2>3. PapersOK'
    BY <1>1, <2>1, <2>2 DEF PapersOK
  <2> QED BY <1>1, <1>2, <2>1, <2>3, FinishStep DEF SubInv
<1>16. CASE CreateSubcategory(r)
  <2>1. PICK s \in Sub : under[s] = None /\ under' = [under EXCEPT ![s] = plan[r].category]
    BY <1>16 DEF CreateSubcategory
  <2>2. /\ place[r] = "write" /\ Finish(r)
        /\ UNCHANGED <<catalog, settings, phase, category, sub, wish, files>>
    BY <1>16 DEF CreateSubcategory, At
  <2>3. PapersOK'
    BY <1>1, <1>11, <2>1, <2>2 DEF PapersOK, SubcategoryDoc
  <2>4. \A t \in Sub : under[t] \in Category => under'[t] = under[t]
    BY <1>1, <2>1, DraftsAssumption DEF PapersOK
  <2>5. \A d \in Draft : sub'[d] # None => under'[sub'[d]] \in Category
    BY <1>1, <1>2, <2>2, <2>4 DEF PapersOK, SubInv
  <2> QED BY <1>1, <2>2, <2>3, <2>4, <2>5, FinishStep
<1> QED
  BY <1>5, <1>6, <1>8, <1>9, <1>10, <1>12, <1>13, <1>14, <1>15, <1>16 DEF Handle

LEMMA DraftsStep == DraftsInv /\ [DraftsNext]_draftsVars => DraftsInv'
<1> SUFFICES ASSUME DraftsInv, [DraftsNext]_draftsVars PROVE DraftsInv'
  OBVIOUS
<1>1. PapersOK /\ settings \in SettingsDoc
  BY DraftsTypes DEF DraftsInv
<1>2. CASE UNCHANGED draftsVars
  <2>1. PapersOK'
    BY <1>1, <1>2 DEF draftsVars, draftsDocs, PapersOK
  <2> QED BY <1>1, <1>2, <2>1, PapersStep DEF draftsVars, draftsDocs
<1>3. ASSUME NEW r \in Call, Begin(r) PROVE DraftsInv'
  BY <1>3, BeginAsks, AskStep
<1>4. ASSUME NEW r \in Call, Handle(r) \/ Abandon(r) PROVE DraftsInv'
  BY <1>4, HandleStep
<1>5. ASSUME NEW c \in Category, CreateCategory(c) \/ \E active \in BOOLEAN : UpdateCategory(c, active)
      PROVE  DraftsInv'
  <2>1. UNCHANGED <<under, settings, phase, category, sub, wish, files, place, input, copy, plan, started>>
    BY <1>5 DEF CreateCategory, UpdateCategory
  <2>2. catalog' \in [Category -> CategoryDoc]
    BY <1>1, <1>5 DEF CreateCategory, UpdateCategory, PapersOK, CategoryDoc
  <2>3. PapersOK'
    BY <1>1, <2>1, <2>2 DEF PapersOK
  <2> QED BY <1>1, <2>1, <2>3, PapersStep
<1>6. CASE GetSettings
  <2>1. PapersOK' /\ settings' \in SettingsDoc
    BY <1>1, <1>6 DEF GetSettings, PapersOK, SettingsDoc
  <2> QED BY <1>6, <2>1, PapersStep DEF GetSettings
<1>7. ASSUME NEW e \in Draft, Move(e) PROVE DraftsInv'
  <2>1. PapersOK' /\ \A d \in Draft : phase[d] # "absent" => phase'[d] # "absent"
    BY <1>1, <1>7 DEF Move, PapersOK
  <2> QED BY <1>1, <1>7, <2>1, PapersStep DEF Move
<1> QED BY <1>2, <1>3, <1>4, <1>5, <1>6, <1>7 DEF DraftsNext

LEMMA DraftsAlways == DraftsSpec => []DraftsInv
BY DraftsStart, DraftsStep, PTL DEF DraftsSpec

\* Categories, subcategories, expenses, attachments and calls always have their types, and
\* an expense has a category, whatever becomes of it in the catalog (createRequest).
THEOREM DraftsTypeCorrect == DraftsSpec => []DraftsTypeOK
BY DraftsAlways, PTL DEF DraftsInv

\* A step that sets an expense against its own subcategory is a write of an outdated copy.
LEMMA IncoherentStep ==
  ASSUME DraftsInv, [DraftsNext]_draftsVars, NEW e \in Draft, Coherent(e), ~Coherent(e)'
  PROVE  \E r \in Call : place[r] = "write" /\ Subject(r) = e /\ Stale(r)
<1>1. PapersOK /\ CallsOK
  BY DraftsTypes DEF DraftsInv
<1>2. CallInv /\ CopyInv /\ SubInv
  BY DEF DraftsInv
<1>3. ~(under' = under /\ sub'[e] = sub[e] /\ category'[e] = category[e] /\ wish'[e] = wish[e])
  BY DEF Coherent
<1>4. PICK r \in Call : \/ CreateRequest(r) \/ UpdateRequest(r) \/ Review(r) \/ CreateSubcategory(r)
  BY <1>3 DEF DraftsNext, draftsVars, draftsDocs, Begin, Ask, Abandon, Handle, LoadDraft, FindCategory,
              FindSubcategory, Presign, Attach, Detach, CreateCategory, UpdateCategory, GetSettings, Move
<1>5. place[r] = "write" /\ plan[r] \in Plan
  BY <1>1, <1>4 DEF CreateRequest, UpdateRequest, Review, CreateSubcategory, At, CallsOK
<1>6. CASE CreateRequest(r)
  <2>1. PICK d \in Draft :
          /\ category' = [category EXCEPT ![d] = plan[r].category]
          /\ sub' = [sub EXCEPT ![d] = plan[r].sub]
          /\ wish' = [wish EXCEPT ![d] = plan[r].wish]
    BY <1>6 DEF CreateRequest
  <2>2. under' = under /\ input[r].kind = "create"
    BY <1>6 DEF CreateRequest, At
  <2>3. d = e
    BY <1>1, <1>3, <2>1, <2>2 DEF PapersOK
  <2>4. sub'[e] = plan[r].sub /\ category'[e] = plan[r].category /\ wish'[e] = plan[r].wish
    BY <1>1, <2>1, <2>3 DEF PapersOK
  <2> QED BY <1>2, <1>5, <2>2, <2>4 DEF SubInv, Coherent
<1>7. CASE UpdateRequest(r)
  <2>1. under' = under /\ input[r].kind = "update"
    BY <1>7 DEF UpdateRequest, At
  <2>2. Subject(r) = e
    BY <1>1, <1>3, <1>7, <2>1 DEF UpdateRequest, PapersOK
  <2>3. /\ sub'[e] = plan[r].sub
        /\ category'[e] = IF input[r].category = Keep THEN category[e] ELSE plan[r].category
        /\ wish'[e] = IF input[r].wish = Keep THEN wish[e] ELSE plan[r].wish
    BY <1>1, <1>7, <2>2 DEF UpdateRequest, PapersOK
  <2>4. ASSUME ~Stale(r) PROVE Coherent(e)'
    <3>1. /\ input[r].category = Keep => plan[r].category = category[e]
          /\ input[r].wish = Keep => plan[r].wish = wish[e]
      BY <1>2, <1>5, <2>1, <2>2, <2>4 DEF CopyInv, Stale
    <3> QED BY <1>2, <1>5, <2>1, <2>3, <3>1 DEF SubInv, Coherent
  <2> QED BY <1>5, <2>2, <2>4
<1>8. CASE Review(r)
  <2>1. /\ under' = under /\ sub' = sub /\ category' = category /\ input[r].kind = "review"
        /\ wish' = [wish EXCEPT ![Subject(r)] = plan[r].wish]
    BY <1>8 DEF Review, At
  <2>2. Subject(r) = e /\ wish'[e] = plan[r].wish
    BY <1>1, <1>3, <2>1 DEF PapersOK
  <2>3. plan[r].wish = copy[r].wish
    BY <1>2, <1>5, <2>1 DEF CallInv, CopyInv
  <2> QED BY <1>3, <1>5, <2>1, <2>2, <2>3 DEF Stale
<1>9. CASE CreateSubcategory(r)
  <2>1. PICK s \in Sub : under[s] = None /\ under' = [under EXCEPT ![s] = plan[r].category]
    BY <1>9 DEF CreateSubcategory
  <2>2. sub' = sub /\ category' = category /\ wish' = wish
    BY <1>9 DEF CreateSubcategory
  <2>3. sub[e] # None => sub[e] # s
    BY <1>2, <2>1, DraftsAssumption DEF SubInv
  <2>4. sub[e] # None => under'[sub[e]] = under[sub[e]]
    BY <1>1, <2>1, <2>3 DEF PapersOK
  <2> QED BY <2>2, <2>4 DEF Coherent
<1> QED BY <1>4, <1>6, <1>7, <1>8, <1>9

\* Only a write whose copy is out of date sets an expense against its own subcategory
\* (updateRequest, reviewRequest: expenses.service.ts:812, 1611).
THEOREM IncoherenceTakesARace == DraftsSpec => IncoherenceNeedsARace
<1> DEFINE Raced ==
      \A e \in Draft : Coherent(e) /\ ~Coherent(e)' =>
        \E r \in Call : place[r] = "write" /\ Subject(r) = e /\ Stale(r)
<1>1. DraftsInv /\ [DraftsNext]_draftsVars => [Raced]_draftsVars
  BY IncoherentStep
<1> QED BY <1>1, DraftsAlways, PTL DEF DraftsSpec, IncoherenceNeedsARace
=============================================================================
