-------------------------- MODULE ExpenseRequests --------------------------
(***************************************************************************)
(* The workflow of the expense requests of one tenant (ExpensesService):   *)
(* submit, review, approve, reject, cancel, mark as paid, one at a time or *)
(* in bulk.                                                                *)
(*                                                                         *)
(* A call loads an expense, compares the status it loaded with the         *)
(* transitions of the workflow machine, and writes by _id alone: the write *)
(* asks for no status, and nothing runs in a transaction.  The audit record*)
(* follows the write, a mail that may fail unnoticed follows the record.   *)
(* A bulk call goes through its expenses in order and keeps the outcome of *)
(* each.                                                                   *)
(*                                                                         *)
(* Amounts, comments and the mail are left out.  Who may act is left to    *)
(* Fail: assertOwnsRequest ends a call before it has written.              *)
(***************************************************************************)
EXTENDS Naturals, Sequences, FiniteSets

CONSTANTS
  Expense,      \* ids of expense requests
  Stored,       \* those that exist
  Lists,        \* the expenses bulk calls may name, in the order of their body
  Req,          \* calls served at the same time
  BulkMax,      \* bulkMaxItemsPerOperation of the settings
  MaxRequests   \* bound: calls ever started

\* bulkExpenseRequestIdsSchema: a list is not empty and names no expense twice.
ASSUME ExpenseAssumption ==
  /\ Stored \subseteq Expense
  /\ Lists \subseteq Seq(Expense)
  /\ \A q \in Lists : q # <<>> /\ \A i, j \in DOMAIN q : q[i] = q[j] => i = j
  /\ BulkMax \in Nat /\ MaxRequests \in Nat

Status == {"absent", "draft", "submitted", "returned", "approved", "rejected", "paid", "canceled"}
Action == {"submit", "review", "approve", "reject", "cancel", "mark_paid"}
BulkAction == {"approve", "reject", "mark_paid"}

\* The statuses an action may start from.
TRANSITIONS(a) ==
  CASE a \in {"submit", "cancel"} -> {"draft", "returned"}
    [] a \in {"review", "approve", "reject"} -> {"submitted"}
    [] a = "mark_paid" -> {"approved"}

\* The dates an expense may carry.
Stamp == {"submittedAt", "approvedAt", "canceledAt", "paidAt"}

VARIABLES
  status,   \* of each expense
  stamps,   \* the dates each expense carries
  reason,   \* does each expense carry a rejectionReasonCode
  records,  \* audit records: which action was recorded of which expense
  pc,       \* where each call is
  action,   \* what each call does
  bulk,     \* is it one of the bulk calls
  queue,    \* the expenses it has yet to go through, the present one first
  seen,     \* the status it loaded
  ok,       \* the expenses a bulk call will report as successes
  failed,   \* and as failures
  asked     \* calls started

docs == <<status, stamps, reason>>
calls == <<pc, action, bulk, queue, seen, ok, failed>>
vars == <<docs, records, calls, asked>>

TypeOK ==
  /\ status \in [Expense -> Status]
  /\ stamps \in [Expense -> SUBSET Stamp]
  /\ reason \in [Expense -> BOOLEAN]
  /\ records \in SUBSET (Expense \X Action)
  /\ pc \in [Req -> {"idle", "limit", "load", "write", "audit", "summary"}]
  /\ action \in [Req -> Action]
  /\ bulk \in [Req -> BOOLEAN]
  /\ queue \in [Req -> Seq(Expense)]
  /\ seen \in [Req -> Status]
  /\ ok \in [Req -> SUBSET Expense]
  /\ failed \in [Req -> SUBSET Expense]
  /\ asked \in Nat
  /\ \A r \in Req : pc[r] \in {"load", "write", "audit"} => queue[r] # <<>>

\* The dates that go with a status the workflow has led to.
Evidence(s) ==
  CASE s \in {"absent", "draft", "canceled"} -> {}
    [] s \in {"submitted", "returned", "rejected"} -> {"submittedAt"}
    [] s = "approved" -> {"submittedAt", "approvedAt"}
    [] s = "paid" -> {"submittedAt", "approvedAt", "paidAt"}

Init ==
  /\ status \in {f \in [Expense -> Status] : \A e \in Expense : f[e] # "absent" <=> e \in Stored}
  /\ stamps = [e \in Expense |->
       Evidence(status[e]) \cup IF status[e] = "canceled" THEN {"canceledAt"} ELSE {}]
  /\ reason = [e \in Expense |-> status[e] = "rejected"]
  /\ records = {}
  /\ pc = [r \in Req |-> "idle"]
  /\ action = [r \in Req |-> "submit"]
  /\ bulk = [r \in Req |-> FALSE]
  /\ queue = [r \in Req |-> <<>>]
  /\ seen = [r \in Req |-> "draft"]
  /\ ok = [r \in Req |-> {}]
  /\ failed = [r \in Req |-> {}]
  /\ asked = 0

Item(r) == Head(queue[r])
Goto(r, step) ==
  pc' = [pc EXCEPT ![r] = step] /\ UNCHANGED <<action, bulk, queue, seen, ok, failed>>
End(r) ==
  /\ pc' = [pc EXCEPT ![r] = "idle"]
  /\ action' = [action EXCEPT ![r] = "submit"]
  /\ bulk' = [bulk EXCEPT ![r] = FALSE]
  /\ queue' = [queue EXCEPT ![r] = <<>>]
  /\ seen' = [seen EXCEPT ![r] = "draft"]
  /\ ok' = [ok EXCEPT ![r] = {}]
  /\ failed' = [failed EXCEPT ![r] = {}]

\* Mutated form of Advance: the end of the list is not looked for.
AdvancePast(r, done) ==
  IF ~bulk[r] THEN End(r)
  ELSE /\ queue' = [queue EXCEPT ![r] = Tail(@)]
       /\ pc' = [pc EXCEPT ![r] = "load"]
       /\ UNCHANGED <<action, bulk, seen, ok, failed>>

\* The present expense is done with: a bulk call notes the outcome and takes the next.
Advance(r, done) ==
  IF ~bulk[r] THEN End(r)
  ELSE /\ queue' = [queue EXCEPT ![r] = Tail(@)]
       /\ pc' = [pc EXCEPT ![r] = IF Len(queue[r]) = 1 THEN "summary" ELSE "load"]
       /\ seen' = [seen EXCEPT ![r] = "draft"]
       /\ ok' = [ok EXCEPT ![r] = IF done THEN @ \cup {Item(r)} ELSE @]
       /\ failed' = [failed EXCEPT ![r] = IF done THEN @ ELSE @ \cup {Item(r)}]
       /\ UNCHANGED <<action, bulk>>

-----------------------------------------------------------------------------
(* Calls.                                                                   *)

Start(r, what, many, items) ==
  /\ pc[r] = "idle"
  /\ asked < MaxRequests
  /\ asked' = asked + 1
  /\ pc' = [pc EXCEPT ![r] = IF many THEN "limit" ELSE "load"]
  /\ action' = [action EXCEPT ![r] = what]
  /\ bulk' = [bulk EXCEPT ![r] = many]
  /\ queue' = [queue EXCEPT ![r] = items]
  /\ UNCHANGED <<docs, records, seen, ok, failed>>

\* submitRequest, reviewRequest, ..., markRequestAsPaid.
AskOne(r, what, e) == Start(r, what, FALSE, <<e>>)

\* bulkApproveRequests, bulkRejectRequests, bulkMarkRequestsAsPaid.
AskMany(r, what, items) == Start(r, what, TRUE, items)

\* assertBulkRequestLimit: too many expenses refuse the whole call.
Limit(r) ==
  /\ pc[r] = "limit"
  /\ IF Len(queue[r]) > BulkMax THEN End(r) ELSE Goto(r, "load")
  /\ UNCHANGED <<docs, records, asked>>

\* Mutated form of Load: the status is not compared with the transitions.
LoadAnyStatus(r) ==
  /\ pc[r] = "load"
  /\ pc' = [pc EXCEPT ![r] = "write"]
  /\ seen' = [seen EXCEPT ![r] = status[Item(r)]]
  /\ UNCHANGED <<action, bulk, queue, ok, failed>>
  /\ UNCHANGED <<docs, records, asked>>

\* findRequestOrThrow and assertTransitionAllowed.
Load(r) ==
  /\ pc[r] = "load"
  /\ IF status[Item(r)] \in TRANSITIONS(action[r])
     THEN /\ pc' = [pc EXCEPT ![r] = "write"]
          /\ seen' = [seen EXCEPT ![r] = status[Item(r)]]
          /\ UNCHANGED <<action, bulk, queue, ok, failed>>
     ELSE Advance(r, FALSE)
  /\ UNCHANGED <<docs, records, asked>>

\* The update finds the expense by _id: whatever its status is by now.
Write(r, what, result, dates) ==
  /\ pc[r] = "write" /\ action[r] = what
  /\ status' = [status EXCEPT ![Item(r)] = result]
  /\ stamps' = [stamps EXCEPT ![Item(r)] = @ \cup dates]
  /\ Goto(r, "audit")
  /\ UNCHANGED <<records, asked>>

Reason(r, given) == reason' = [reason EXCEPT ![Item(r)] = given]

SubmitRequest(r) == Write(r, "submit", "submitted", {"submittedAt"}) /\ UNCHANGED reason

\* Mutated form of ReviewRequest: a review approves.
ReviewApproves(r) == Write(r, "review", "approved", {}) /\ Reason(r, FALSE)

\* Back to the requester; the metadata it rewrites are in ExpenseDrafts.
ReviewRequest(r) == Write(r, "review", "returned", {}) /\ Reason(r, FALSE)

ApproveRequest(r) == Write(r, "approve", "approved", {"approvedAt"}) /\ Reason(r, FALSE)

RejectRequest(r) == Write(r, "reject", "rejected", {}) /\ Reason(r, TRUE)

CancelRequest(r) == Write(r, "cancel", "canceled", {"canceledAt"}) /\ UNCHANGED reason

MarkRequestAsPaid(r) == Write(r, "mark_paid", "paid", {"paidAt"}) /\ UNCHANGED reason

\* recordAuditLog, and the mail whose failure nobody sees.
Audit(r) ==
  /\ pc[r] = "audit"
  /\ records' = records \cup {<<Item(r), action[r]>>}
  /\ Advance(r, TRUE)
  /\ UNCHANGED <<docs, asked>>

\* A query or the audit record rejects: a bulk call counts a failure and goes on.
ItemFails(r) ==
  /\ pc[r] \in {"load", "write", "audit"}
  /\ Advance(r, FALSE)
  /\ UNCHANGED <<docs, records, asked>>

\* The audit record of the bulk call, and its answer.
Summary(r) ==
  /\ pc[r] = "summary"
  /\ End(r)
  /\ UNCHANGED <<docs, records, asked>>

\* The process dies, or the call is refused before it has begun.
Fail(r) ==
  /\ pc[r] # "idle"
  /\ End(r)
  /\ UNCHANGED <<docs, records, asked>>

-----------------------------------------------------------------------------
Arrive(r) ==
  \/ \E what \in Action, e \in Expense : AskOne(r, what, e)
  \/ \E what \in BulkAction, items \in Lists : AskMany(r, what, items)

Serve(r) ==
  \/ Limit(r) \/ Load(r) \/ Audit(r) \/ Summary(r)
  \/ SubmitRequest(r) \/ ReviewRequest(r) \/ ApproveRequest(r)
  \/ RejectRequest(r) \/ CancelRequest(r) \/ MarkRequestAsPaid(r)

Next == \E r \in Req : Arrive(r) \/ Serve(r) \/ ItemFails(r) \/ Fail(r)

Spec == Init /\ [][Next]_vars

-----------------------------------------------------------------------------
(* Properties.                                                              *)

\* Whatever the interleaving of stale writes, the status of an expense is one its dates
\* account for: what is paid has been approved, what is decided has been submitted, and
\* what is rejected says why
\* (expense-workflow.machine.ts:11, with the writes of expenses.service.ts).
StatusHasEvidence ==
  \A e \in Expense :
    Evidence(status[e]) \subseteq stamps[e] /\ (status[e] = "rejected" => reason[e])

\* From which status to which an expense may go.
Edges ==
  {<<"draft", "submitted">>, <<"draft", "canceled">>, <<"submitted", "returned">>,
   <<"submitted", "approved">>, <<"submitted", "rejected">>, <<"returned", "submitted">>,
   <<"returned", "canceled">>, <<"approved", "paid">>}

\* An expense takes an edge of the workflow (expense-workflow.machine.ts:11), unless the
\* write is of a call whose loaded status is no longer that of the expense: the filter
\* of the update has no status (expenses.service.ts:1558, 1683, 1744, 1871).
MovesFollowTheMachine ==
  [][\A e \in Expense : status'[e] # status[e] =>
       \/ <<status[e], status'[e]>> \in Edges
       \/ \E r \in Req : pc[r] = "write" /\ Item(r) = e /\ seen[r] # status[e]]_vars
=============================================================================
