---------------------------- MODULE AuditOutbox ----------------------------
(***************************************************************************)
(* AuditService.record without a session, and the flush of the outbox that *)
(* list, listPlatform and getTenantMetrics run before they read.           *)
(*                                                                         *)
(* A caller of record inserts an entry in audit_outbox and delivers it; a  *)
(* reader picks the oldest pending entries of its scope and delivers them  *)
(* all at once.  A delivery is a sequence of separate database calls, so   *)
(* any number of them may be at work on one entry; what keeps audit_logs   *)
(* free of repetitions is its unique index on sourceOutboxId.              *)
(*                                                                         *)
(* delivery.attempts, deliveredAt and lastError are left out: nothing in   *)
(* the code reads them.                                                    *)
(***************************************************************************)
EXTENDS Naturals, FiniteSets

CONSTANTS
  Entry,      \* outbox entries, in order of createdAt
  ScopeOf,    \* the scope of each entry: the platform or one tenant
  Worker,     \* requests: callers of record and readers of the log
  NoEntry,
  Batch,      \* the limit of the flush query (50 in the code)
  MaxErrors,  \* bound: database calls that fail
  MaxCrashes  \* bound: requests whose process dies

Scope == {ScopeOf[e] : e \in Entry}

ASSUME OutboxAssumption ==
  /\ Entry \subseteq Nat /\ NoEntry \notin Entry
  /\ Batch \in Nat \ {0} /\ MaxErrors \in Nat /\ MaxCrashes \in Nat

VARIABLES
  delivery,  \* the delivery field of each audit_outbox document
  logs,      \* how many audit_logs documents carry each sourceOutboxId
  job,       \* what each worker does: nothing, record an entry, read a scope
  task,      \* the deliveries each worker is running, per entry
  missing,   \* what a worker's answer left out: entries of its job with no log
  errors, crashes

bounds == <<errors, crashes>>
vars == <<delivery, logs, job, task, missing, errors, crashes>>

\* "none" is no document.  auditLogId names a log by the entry it comes from.
Delivery == [status : {"none", "pending", "delivered"}, auditLogId : Entry \cup {NoEntry}]

\* seen is the auditLogId of the document in the method's hands.
Task == [pc : {"off", "load", "create", "find", "saveDelivered", "savePending"},
         seen : Entry \cup {NoEntry}]

\* due: the entries whose log the worker's answer should hold.
Job == [kind : {"idle", "record", "read"}, due : SUBSET Entry]

NoTask == [pc |-> "off", seen |-> NoEntry]
LoadTask == [pc |-> "load", seen |-> NoEntry]
NoJob == [kind |-> "idle", due |-> {}]

TypeOK ==
  /\ delivery \in [Entry -> Delivery]
  /\ logs \in [Entry -> {0, 1}]
  /\ job \in [Worker -> Job]
  /\ task \in [Worker -> [Entry -> Task]]
  /\ missing \in [Worker -> SUBSET Entry]
  /\ errors \in Nat
  /\ crashes \in Nat

Init ==
  /\ delivery = [e \in Entry |-> [status |-> "none", auditLogId |-> NoEntry]]
  /\ logs = [e \in Entry |-> 0]
  /\ job = [w \in Worker |-> NoJob]
  /\ task = [w \in Worker |-> [e \in Entry |-> NoTask]]
  /\ missing = [w \in Worker |-> {}]
  /\ errors = 0
  /\ crashes = 0

Exists(e) == delivery[e].status # "none"
Pending(e) == delivery[e].status = "pending"
AtWork(w) == {e \in Entry : task[w][e].pc # "off"}
Free(w) == job[w].kind = "idle" /\ AtWork(w) = {}

Recorded == {e \in Entry : Exists(e)}

-----------------------------------------------------------------------------
\* record(): the insert in audit_outbox; from then on the event is durable.
Record(w, e) ==
  /\ Free(w)
  /\ ~Exists(e) /\ \A f \in Entry : f < e => Exists(f)
  /\ delivery' = [delivery EXCEPT ![e].status = "pending"]
  /\ job' = [job EXCEPT ![w] = [kind |-> "record", due |-> {e}]]
  /\ task' = [task EXCEPT ![w][e] = LoadTask]
  /\ UNCHANGED <<logs, missing, bounds>>

\* The flush query: pending entries of the scope, oldest first, Batch at most.
Oldest(S) == {e \in S : Cardinality({f \in S : f < e}) < Batch}
PendingOf(sc) == {e \in Entry : Pending(e) /\ ScopeOf[e] = sc}

\* flushPendingOutbox: the query, and one delivery per entry it returned.  The
\* answer is due the entries the query found and those it saw delivered.
Flush(w, sc) ==
  /\ Free(w)
  /\ LET batch == Oldest(PendingOf(sc))
         old == {e \in Recorded : ScopeOf[e] = sc /\ ~Pending(e)}
     IN /\ job' = [job EXCEPT ![w] = [kind |-> "read", due |-> batch \cup old]]
        /\ task' = [task EXCEPT ![w] =
             [e \in Entry |-> IF e \in batch THEN LoadTask ELSE NoTask]]
  /\ UNCHANGED <<delivery, logs, missing, bounds>>

-----------------------------------------------------------------------------
(* deliverOutboxEntry, one database call at a time.                         *)

At(w, e, step) == task[w][e].pc = step
Goto(w, e, step) == task' = [task EXCEPT ![w][e].pc = step]

Load(w, e) ==
  /\ At(w, e, "load")
  /\ task' = [task EXCEPT ![w][e] =
       [pc |-> IF delivery[e].status = "delivered" /\ delivery[e].auditLogId # NoEntry
               THEN "off" ELSE "create",
        seen |-> delivery[e].auditLogId]]
  /\ UNCHANGED <<delivery, logs, job, missing, bounds>>

\* Mutated form of InsertLog: no unique index on sourceOutboxId.
InsertLogNoIndex(e) == logs' = [logs EXCEPT ![e] = logs[e] + 1]

\* AuditLogModel.create, which the unique index refuses when there is a log.
InsertLog(e) == logs[e] = 0 /\ logs' = [logs EXCEPT ![e] = 1]

Create(w, e) ==
  /\ At(w, e, "create")
  /\ \/ InsertLog(e) /\ Goto(w, e, "saveDelivered")
     \/ logs[e] # 0 /\ UNCHANGED logs /\ Goto(w, e, "find")
  /\ UNCHANGED <<delivery, job, missing, bounds>>

\* The create that failed is looked up by sourceOutboxId.
Find(w, e) ==
  /\ At(w, e, "find")
  /\ Goto(w, e, IF logs[e] = 0 THEN "savePending" ELSE "saveDelivered")
  /\ UNCHANGED <<delivery, logs, job, missing, bounds>>

\* outboxEntry.save() writes the whole delivery field, whatever it holds by now.
WriteDelivery(e, status, logId) ==
  delivery' = [delivery EXCEPT ![e] = [status |-> status, auditLogId |-> logId]]

SaveDelivered(w, e) ==
  /\ At(w, e, "saveDelivered")
  /\ WriteDelivery(e, "delivered", e)
  /\ Goto(w, e, "off")
  /\ UNCHANGED <<logs, job, missing, bounds>>

\* Mutated form of SavePending: the catch block also counts the entry as done.
SavePendingAsDelivered(w, e) ==
  /\ At(w, e, "savePending")
  /\ WriteDelivery(e, "delivered", task[w][e].seen)
  /\ Goto(w, e, "off")
  /\ UNCHANGED <<logs, job, missing, bounds>>

\* The catch block: back to pending, the rest as seen; record() and list() go on.
SavePending(w, e) ==
  /\ At(w, e, "savePending")
  /\ WriteDelivery(e, "pending", task[w][e].seen)
  /\ Goto(w, e, "off")
  /\ UNCHANGED <<logs, job, missing, bounds>>

-----------------------------------------------------------------------------
(* A database call fails; an insert or a save may yet have had its effect.  *)

\* create: whatever the error, the code looks the log up.
CreateFails(w, e) ==
  /\ At(w, e, "create")
  /\ UNCHANGED logs \/ InsertLog(e)
  /\ Goto(w, e, "find")
  /\ UNCHANGED <<delivery, job>>

FindFails(w, e) ==
  /\ At(w, e, "find")
  /\ Goto(w, e, "savePending")
  /\ UNCHANGED <<delivery, logs, job>>

\* The assignment stays in the document, so the catch block saves its auditLogId.
SaveDeliveredFails(w, e) ==
  /\ At(w, e, "saveDelivered")
  /\ UNCHANGED delivery \/ WriteDelivery(e, "delivered", e)
  /\ task' = [task EXCEPT ![w][e] = [pc |-> "savePending", seen |-> e]]
  /\ UNCHANGED <<logs, job>>

\* An error of findById or of the catch block's save rejects the request, while
\* the other deliveries of its Promise.all go on.
DeliveryRejects(w, e) ==
  /\ \/ At(w, e, "load") /\ UNCHANGED delivery
     \/ /\ At(w, e, "savePending")
        /\ UNCHANGED delivery \/ WriteDelivery(e, "pending", task[w][e].seen)
  /\ job' = [job EXCEPT ![w] = NoJob]
  /\ Goto(w, e, "off")
  /\ UNCHANGED logs

CallFails(w, e) ==
  /\ errors < MaxErrors
  /\ errors' = errors + 1
  /\ \/ CreateFails(w, e) \/ FindFails(w, e)
     \/ SaveDeliveredFails(w, e) \/ DeliveryRejects(w, e)
  /\ UNCHANGED <<missing, crashes>>

-----------------------------------------------------------------------------

\* All deliveries are over: record answers, a reader queries audit_logs.
Finish(w) ==
  /\ job[w].kind # "idle"
  /\ AtWork(w) = {}
  /\ job' = [job EXCEPT ![w] = NoJob]
  /\ missing' = [missing EXCEPT ![w] = {e \in job[w].due : logs[e] = 0}]
  /\ UNCHANGED <<delivery, logs, task, bounds>>

\* The process that serves the request dies.
Crash(w) ==
  /\ crashes < MaxCrashes
  /\ crashes' = crashes + 1
  /\ ~Free(w)
  /\ job' = [job EXCEPT ![w] = NoJob]
  /\ task' = [task EXCEPT ![w] = [e \in Entry |-> NoTask]]
  /\ UNCHANGED <<delivery, logs, missing, errors>>

Deliver(w, e) ==
  Load(w, e) \/ Create(w, e) \/ Find(w, e) \/ SaveDelivered(w, e) \/ SavePending(w, e)

Next ==
  \/ \E w \in Worker, e \in Entry : Record(w, e) \/ Deliver(w, e) \/ CallFails(w, e)
  \/ \E w \in Worker, sc \in Scope : Flush(w, sc)
  \/ \E w \in Worker : Finish(w) \/ Crash(w)

Spec == Init /\ [][Next]_vars

\* A call that was made returns: Node's event loop resumes every handler.
Fairness ==
  \A w \in Worker : /\ WF_vars(Finish(w))
                    /\ \A e \in Entry : WF_vars(Deliver(w, e))

FairSpec == Spec /\ Fairness

-----------------------------------------------------------------------------
(* Properties.                                                              *)

\* An entry that says delivered has a log and names it, whichever writers of the
\* entry raced (deliverOutboxEntry saves it from what it saw before).
DeliveredHasLog ==
  \A e \in Entry : delivery[e].status = "delivered" =>
    logs[e] = 1 /\ delivery[e].auditLogId = e

\* While no database call fails, what a request answers with lacks no event it
\* recorded, found pending or saw delivered, however deliveries interleave and
\* whichever other requests die.
AnswersAreComplete == errors = 0 => \A w \in Worker : missing[w] = {}

\* An event goes to audit_logs after it is durable in audit_outbox, and once.
Trail == INSTANCE AuditTrail WITH captured <- Recorded, copies <- logs
ImplementsTrail == Trail!TrailSpec

\* Every durable event reaches audit_logs, provided readers of its scope keep
\* coming: nothing else retries the entries of callers that died.
ReadersKeepComing == \A sc \in Scope : []<><<\E w \in Worker : Flush(w, sc)>>_vars
EventsReachTheLog ==
  ReadersKeepComing => \A e \in Entry : Exists(e) ~> logs[e] # 0
=============================================================================
