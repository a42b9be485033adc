--------------------------- MODULE PlatformProofs ---------------------------
(***************************************************************************)
(* Proofs about what every module runs on, the audit log (AuditOutbox) and *)
(* the server process (AppProcess), and about the business module beside   *)
(* them, the CRM (CrmPipeline).                                            *)
(*                                                                         *)
(* AuditOutbox, for any entries, scopes, workers and bounds.               *)
(* DeliveredHasLog is not inductive: a save writes what its task computed  *)
(* earlier, so the invariant has to follow the tasks (TaskInv): a task     *)
(* about to save "delivered" has a log to name, and a task may hold an     *)
(* auditLogId only if that log is there.  Logs are never removed, which is *)
(* what makes facts about other workers' tasks stable.                     *)
(*                                                                         *)
(* AppProcess, for any retries, thresholds, batches and bounds.  What the  *)
(* log has announced is what the snapshot says only because the count of   *)
(* skipped ticks never goes down, for its recovery is not announced; what  *)
(* a shutdown has closed stays closed because nothing starts the server or *)
(* the monitor again (StopInv).                                            *)
(*                                                                         *)
(* CrmPipeline, for any documents, requests and bounds.  Nothing that a    *)
(* request has found is sure to be so when it writes, unless it is alone:  *)
(* the invariant (AloneInv) says that what such a request has found        *)
(* (FoundInv) and counted (CountedInv) is still so.                        *)
(***************************************************************************)
EXTENDS AuditOutbox, AppProcess, CrmPipeline, FiniteSetTheorems, TLAPS

\* What the documents say is so.
DocInv ==
  \A e \in Entry :
    /\ delivery[e].status = "delivered" => delivery[e].auditLogId = e
    /\ delivery[e].auditLogId # NoEntry => delivery[e].auditLogId = e /\ logs[e] = 1
    /\ logs[e] = 1 => Exists(e)

\* What a running delivery holds is so.
TaskInv ==
  \A w \in Worker, e \in Entry :
    /\ ~At(w, e, "off") => Exists(e)
    /\ At(w, e, "saveDelivered") => logs[e] = 1
    /\ task[w][e].seen # NoEntry => task[w][e].seen = e /\ logs[e] = 1

Inv == TypeOK /\ DocInv /\ TaskInv

\* Until a call fails, a delivery at "find" has lost a race for the log, and an
\* event that is due has its log or a delivery at work on it.
DueInv ==
  errors = 0 => \A w \in Worker :
    /\ missing[w] = {}
    /\ \A e \in Entry : ~At(w, e, "savePending") /\ (At(w, e, "find") => logs[e] = 1)
    /\ \A e \in job[w].due : logs[e] = 1 \/ ~At(w, e, "off")

USE OutboxAssumption

-----------------------------------------------------------------------------
LEMMA TypeInit == Init => TypeOK
BY DEF Init, TypeOK, Delivery, Task, Job, NoTask, NoJob

\* The three writes of a delivery keep the types.
LEMMA WriteTypes ==
  ASSUME TypeOK, NEW w \in Worker, NEW e \in Entry
  PROVE  /\ \A step \in {"off", "load", "create", "find", "saveDelivered", "savePending"} :
              Goto(w, e, step) => task' \in [Worker -> [Entry -> Task]]
         /\ InsertLog(e) => logs' \in [Entry -> {0, 1}]
         /\ \A written \in {"pending", "delivered"}, logId \in Entry \cup {NoEntry} :
              WriteDelivery(e, written, logId) => delivery' \in [Entry -> Delivery]
<1>1. ASSUME NEW step \in {"off", "load", "create", "find", "saveDelivered", "savePending"},
             Goto(w, e, step)
      PROVE  task' \in [Worker -> [Entry -> Task]]
  BY <1>1 DEF TypeOK, Task, Goto
<1>2. ASSUME InsertLog(e) PROVE logs' \in [Entry -> {0, 1}]
  BY <1>2 DEF TypeOK, InsertLog
<1>3. ASSUME NEW written \in {"pending", "delivered"}, NEW logId \in Entry \cup {NoEntry},
             WriteDelivery(e, written, logId)
      PROVE  delivery' \in [Entry -> Delivery]
  BY <1>3 DEF TypeOK, Delivery, WriteDelivery
<1> QED BY <1>1, <1>2, <1>3

\* Every step keeps the types.
LEMMA TypeStep == TypeOK /\ [Next]_vars => TypeOK'
<1> SUFFICES ASSUME TypeOK, [Next]_vars PROVE TypeOK'
  OBVIOUS
<1> USE DEF TypeOK, Delivery, Task, Job, NoTask, NoJob, LoadTask, bounds
<1>1. CASE UNCHANGED vars
  BY <1>1 DEF vars
<1>2. ASSUME NEW w \in Worker, NEW e \in Entry, Record(w, e) PROVE TypeOK'
  <2>1. delivery' \in [Entry -> Delivery]
    BY <1>2 DEF Record
  <2>2. job' \in [Worker -> Job]
    BY <1>2 DEF Record
  <2>3. task' \in [Worker -> [Entry -> Task]]
    BY <1>2 DEF Record
  <2> QED BY <1>2, <2>1, <2>2, <2>3 DEF Record
<1>3. ASSUME NEW w \in Worker, NEW sc \in Scope, Flush(w, sc) PROVE TypeOK'
  <2> DEFINE batch == Oldest(PendingOf(sc))
             old == {e \in Recorded : ScopeOf[e] = sc /\ ~Pending(e)}
  <2>1. batch \subseteq Entry /\ old \subseteq Entry
    BY DEF Oldest, PendingOf, Recorded
  <2>2. /\ job' = [job EXCEPT ![w] = [kind |-> "read", due |-> batch \cup old]]
        /\ task' = [task EXCEPT ![w] =
             [e \in Entry |-> IF e \in batch THEN LoadTask ELSE NoTask]]
        /\ UNCHANGED <<delivery, logs, missing, errors, crashes>>
    BY <1>3 DEF Flush
  <2> HIDE DEF batch, old
  <2> QED BY <2>1, <2>2
<1>4. ASSUME NEW w \in Worker, NEW e \in Entry, Deliver(w, e) PROVE TypeOK'
  <2>1. CASE Load(w, e)
    BY <2>1 DEF Load
  <2>2. CASE Create(w, e)
    BY <2>2, WriteTypes DEF Create
  <2>3. CASE Find(w, e)
    BY <2>3, WriteTypes DEF Find
  <2>4. CASE SaveDelivered(w, e)
    BY <2>4, WriteTypes DEF SaveDelivered
  <2>5. CASE SavePending(w, e)
    <3>1. task[w][e].seen \in Entry \cup {NoEntry}
      OBVIOUS
    <3> QED BY <2>5, <3>1, WriteTypes DEF SavePending
  <2> QED BY <1>4, <2>1, <2>2, <2>3, <2>4, <2>5 DEF Deliver
<1>5. ASSUME NEW w \in Worker, NEW e \in Entry, CallFails(w, e) PROVE TypeOK'
  <2>0. errors' \in Nat /\ UNCHANGED <<missing, crashes>>
    BY <1>5 DEF CallFails
  <2>1. CASE CreateFails(w, e)
    BY <2>0, <2>1, WriteTypes DEF CreateFails
  <2>2. CASE FindFails(w, e)
    BY <2>0, <2>2, WriteTypes DEF FindFails
  <2>3. CASE SaveDeliveredFails(w, e)
    <3>1. delivery' \in [Entry -> Delivery]
      BY <2>3, WriteTypes DEF SaveDeliveredFails
    <3>2. task' \in [Worker -> [Entry -> Task]]
      BY <2>3 DEF SaveDeliveredFails
    <3> QED BY <2>0, <2>3, <3>1, <3>2 DEF SaveDeliveredFails
  <2>4. CASE DeliveryRejects(w, e)
    <3>1. delivery' \in [Entry -> Delivery]
      <4>1. task[w][e].seen \in Entry \cup {NoEntry}
        OBVIOUS
      <4> QED BY <2>4, <4>1, WriteTypes DEF DeliveryRejects
    <3>2. task' \in [Worker -> [Entry -> Task]]
      BY <2>4, WriteTypes DEF DeliveryRejects
    <3> QED BY <2>0, <2>4, <3>1, <3>2 DEF DeliveryRejects
  <2> QED BY <1>5, <2>1, <2>2, <2>3, <2>4 DEF CallFails
<1>6. ASSUME NEW w \in Worker, Finish(w) PROVE TypeOK'
  BY <1>6 DEF Finish
<1>7. ASSUME NEW w \in Worker, Crash(w) PROVE TypeOK'
  BY <1>7 DEF Crash
<1> QED BY <1>1, <1>2, <1>3, <1>4, <1>5, <1>6, <1>7 DEF Next

\* Every variable keeps its type, and no event has two logs: a delivery that
\* finds a log is refused by the unique index (AuditLogModel.create).
THEOREM OutboxTypeCorrect == Spec => []TypeOK
BY TypeInit, TypeStep, PTL DEF Spec

-----------------------------------------------------------------------------
LEMMA InvInit == Init => Inv
<1> SUFFICES ASSUME Init PROVE DocInv /\ TaskInv
  BY TypeInit DEF Inv
<1> QED BY DEF Init, DocInv, TaskInv, Exists, At, NoTask

\* The steps of a delivery that touch one entry of one worker keep Inv.
LEMMA DeliverStep ==
  ASSUME Inv, TypeOK', NEW w \in Worker, NEW e \in Entry, Deliver(w, e)
  PROVE  DocInv' /\ TaskInv'
<1> USE DEF Inv, TypeOK, Delivery, Task, Exists, At
<1>1. CASE Load(w, e)
  BY <1>1 DEF Load, DocInv, TaskInv
<1>2. CASE Create(w, e)
  <2>1. CASE InsertLog(e) /\ Goto(w, e, "saveDelivered") /\ UNCHANGED delivery
    <3>1. logs'[e] = 1 /\ Exists(e) /\ \A f \in Entry : logs[f] = 1 => logs'[f] = 1
      BY <1>2, <2>1 DEF Create, InsertLog, TaskInv
    <3>2. DocInv'
      BY <2>1, <3>1 DEF InsertLog, DocInv
    <3>3. TaskInv'
      BY <2>1, <3>1 DEF Goto, TaskInv
    <3> QED BY <3>2, <3>3
  <2>2. CASE UNCHANGED <<logs, delivery>> /\ Goto(w, e, "find")
    <3>1. DocInv'
      BY <2>2 DEF DocInv
    <3>2. TaskInv'
      BY <1>2, <2>2 DEF Create, Goto, TaskInv
    <3> QED BY <3>1, <3>2
  <2> QED BY <1>2, <2>1, <2>2 DEF Create
<1>3. CASE Find(w, e)
  BY <1>3 DEF Find, Goto, DocInv, TaskInv
<1>4. CASE SaveDelivered(w, e)
  BY <1>4 DEF SaveDelivered, WriteDelivery, Goto, DocInv, TaskInv
<1>5. CASE SavePending(w, e)
  BY <1>5 DEF SavePending, WriteDelivery, Goto, DocInv, TaskInv
<1> QED BY <1>1, <1>2, <1>3, <1>4, <1>5 DEF Deliver

\* So do the calls that fail, with or without their effect.
LEMMA FailStep ==
  ASSUME Inv, TypeOK', NEW w \in Worker, NEW e \in Entry, CallFails(w, e)
  PROVE  DocInv' /\ TaskInv'
<1> USE DEF Inv, TypeOK, Delivery, Task, Exists, At
<1>1. CASE CreateFails(w, e)
  BY <1>1 DEF CreateFails, InsertLog, Goto, DocInv, TaskInv
<1>2. CASE FindFails(w, e)
  BY <1>2 DEF FindFails, Goto, DocInv, TaskInv
<1>3. CASE SaveDeliveredFails(w, e)
  BY <1>3 DEF SaveDeliveredFails, WriteDelivery, DocInv, TaskInv
<1>4. CASE DeliveryRejects(w, e)
  BY <1>4 DEF DeliveryRejects, WriteDelivery, Goto, DocInv, TaskInv
<1> QED BY <1>1, <1>2, <1>3, <1>4 DEF CallFails

LEMMA InvStep == Inv /\ [Next]_vars => Inv'
<1> SUFFICES ASSUME Inv, [Next]_vars PROVE DocInv' /\ TaskInv'
  BY TypeStep DEF Inv
<1>0. TypeOK'
  BY TypeStep DEF Inv
<1> USE DEF Inv, TypeOK, Delivery, Task, Exists, At, LoadTask, NoTask
<1>1. CASE UNCHANGED vars
  BY <1>1 DEF vars, DocInv, TaskInv
<1>2. ASSUME NEW w \in Worker, NEW e \in Entry, Record(w, e) PROVE DocInv' /\ TaskInv'
  BY <1>2 DEF Record, DocInv, TaskInv
<1>3. ASSUME NEW w \in Worker, NEW sc \in Scope, Flush(w, sc) PROVE DocInv' /\ TaskInv'
  <2> DEFINE batch == Oldest(PendingOf(sc))
  <2>1. \A e \in batch : Exists(e)
    BY DEF Oldest, PendingOf, Pending
  <2>2. /\ task' = [task EXCEPT ![w] =
             [e \in Entry |-> IF e \in batch THEN LoadTask ELSE NoTask]]
        /\ UNCHANGED <<delivery, logs>>
    BY <1>3 DEF Flush
  <2> HIDE DEF batch
  <2> QED BY <2>1, <2>2 DEF DocInv, TaskInv
<1>4. ASSUME NEW w \in Worker, NEW e \in Entry, Deliver(w, e) PROVE DocInv' /\ TaskInv'
  BY <1>0, <1>4, DeliverStep
<1>5. ASSUME NEW w \in Worker, NEW e \in Entry, CallFails(w, e) PROVE DocInv' /\ TaskInv'
  BY <1>0, <1>5, FailStep
<1>6. ASSUME NEW w \in Worker, Finish(w) PROVE DocInv' /\ TaskInv'
  BY <1>6 DEF Finish, DocInv, TaskInv
<1>7. ASSUME NEW w \in Worker, Crash(w) PROVE DocInv' /\ TaskInv'
  BY <1>7 DEF Crash, DocInv, TaskInv
<1> QED BY <1>1, <1>2, <1>3, <1>4, <1>5, <1>6, <1>7 DEF Next

LEMMA InvAlways == Spec => []Inv
BY InvInit, InvStep, PTL DEF Spec

\* An entry that says delivered has exactly one log and names it, for any number
\* of writers of the entry (deliverOutboxEntry).
THEOREM DeliveredIsLogged == Spec => []DeliveredHasLog
<1>1. Inv => DeliveredHasLog
  BY DEF Inv, TypeOK, DocInv, DeliveredHasLog
<1> QED BY <1>1, InvAlways, PTL

-----------------------------------------------------------------------------
\* A step captures an event, delivers a captured one that has no log, or does
\* nothing that the trail shows.
THEOREM OutboxImplementsTrail == Spec => ImplementsTrail
<1>1. Init => Trail!TrailInit
  BY DEF Init, Trail!TrailInit, Recorded, Exists
<1>2. ASSUME Inv, Inv', [Next]_vars
      PROVE  [Trail!TrailNext]_(Trail!trailVars)
  <2>1. ASSUME NEW w \in Worker, NEW e \in Entry, Record(w, e)
        PROVE  Trail!Capture(e)
    BY <1>2, <2>1 DEF Record, Trail!Capture, Recorded, Exists, Inv, TypeOK, Delivery
  <2>2. ASSUME NEW e \in Entry, InsertLog(e), UNCHANGED delivery
        PROVE  Trail!Deliver(e)
    BY <1>2, <2>2 DEF InsertLog, Trail!Deliver, Recorded, Exists, Inv, DocInv, TypeOK
  <2>3. ASSUME UNCHANGED logs, \A e \in Entry : Exists(e) <=> Exists(e)'
        PROVE  UNCHANGED Trail!trailVars
    BY <2>3 DEF Trail!trailVars, Recorded
  <2>4. ASSUME NEW w \in Worker, NEW e \in Entry, Deliver(w, e) \/ CallFails(w, e)
        PROVE  Trail!TrailNext \/ UNCHANGED Trail!trailVars
    <3>1. CASE InsertLog(e) /\ UNCHANGED delivery
      BY <2>2, <3>1 DEF Trail!TrailNext
    <3>2. CASE ~(InsertLog(e) /\ UNCHANGED delivery)
      <4>1. UNCHANGED logs
        BY <2>4, <3>2 DEF Deliver, CallFails, Load, Create, Find, SaveDelivered, SavePending,
             CreateFails, FindFails, SaveDeliveredFails, DeliveryRejects
      <4>2. \/ UNCHANGED delivery
            \/ /\ ~At(w, e, "off")
               /\ \E written \in {"pending", "delivered"}, logId \in Entry \cup {NoEntry} :
                    WriteDelivery(e, written, logId)
        <5>1. task[w][e].seen \in Entry \cup {NoEntry}
          BY <1>2 DEF Inv, TypeOK, Task
        <5>2. CASE UNCHANGED delivery
          BY <5>2
        <5>3. CASE At(w, e, "saveDelivered") /\ WriteDelivery(e, "delivered", e)
          BY <5>3 DEF At
        <5>4. CASE At(w, e, "savePending") /\ WriteDelivery(e, "pending", task[w][e].seen)
          BY <5>1, <5>4 DEF At
        <5> QED BY <2>4, <5>2, <5>3, <5>4 DEF Deliver, CallFails, Load, Create, Find,
             SaveDelivered, SavePending, CreateFails, FindFails, SaveDeliveredFails,
             DeliveryRejects
      <4>3. \A f \in Entry : Exists(f) <=> Exists(f)'
        BY <1>2, <4>2 DEF WriteDelivery, Exists, Inv, TypeOK, Delivery, TaskInv
      <4> QED BY <2>3, <4>1, <4>3
    <3> QED BY <3>1, <3>2
  <2>5. CASE \/ \E w \in Worker, sc \in Scope : Flush(w, sc)
             \/ \E w \in Worker : Finish(w) \/ Crash(w)
             \/ UNCHANGED vars
    <3>1. UNCHANGED <<delivery, logs>>
      BY <2>5 DEF Flush, Finish, Crash, vars
    <3> QED BY <2>3, <3>1 DEF Exists
  <2> QED BY <1>2, <2>1, <2>4, <2>5 DEF Next, Trail!TrailNext
<1> QED BY <1>1, <1>2, InvAlways, PTL DEF Spec, ImplementsTrail, Trail!TrailSpec

-----------------------------------------------------------------------------
LEMMA DueInit == Init => DueInv
BY DEF Init, DueInv, At, NoTask, NoJob

\* Every step keeps DueInv; a call that fails ends its hypothesis.
LEMMA DueStep == Inv /\ DueInv /\ [Next]_vars => DueInv'
<1> SUFFICES ASSUME Inv, DueInv, [Next]_vars, errors' = 0 PROVE DueInv'
  BY DEF DueInv
<1> USE DEF Inv, TypeOK, Task, Job, At, DueInv
<1>0. errors = 0
  BY OutboxAssumption DEF Next, vars, bounds, Record, Deliver, CallFails, Flush, Finish,
       Crash, Load, Create, Find, SaveDelivered, SavePending
<1>1. CASE UNCHANGED vars
  BY <1>0, <1>1 DEF vars
<1>2. ASSUME NEW w \in Worker, NEW e \in Entry, Record(w, e) PROVE DueInv'
  BY <1>0, <1>2 DEF Record, LoadTask
<1>3. ASSUME NEW w \in Worker, NEW sc \in Scope, Flush(w, sc) PROVE DueInv'
  <2> DEFINE batch == Oldest(PendingOf(sc))
             old == {e \in Recorded : ScopeOf[e] = sc /\ ~Pending(e)}
  <2>1. batch \subseteq Entry /\ \A e \in old : e \in Entry /\ logs[e] = 1
    BY DEF Oldest, PendingOf, Recorded, Pending, Exists, DocInv, Delivery
  <2>2. /\ job' = [job EXCEPT ![w] = [kind |-> "read", due |-> batch \cup old]]
        /\ task' = [task EXCEPT ![w] =
             [e \in Entry |-> IF e \in batch THEN LoadTask ELSE NoTask]]
        /\ UNCHANGED <<logs, missing>>
    BY <1>3 DEF Flush
  <2> HIDE DEF batch, old
  <2> QED BY <1>0, <2>1, <2>2 DEF LoadTask, NoTask
<1>4. ASSUME NEW w \in Worker, NEW e \in Entry, Deliver(w, e) PROVE DueInv'
  <2>1. CASE Load(w, e)
    BY <1>0, <2>1 DEF Load, DocInv
  <2>2. CASE Create(w, e)
    <3>1. CASE InsertLog(e) /\ Goto(w, e, "saveDelivered") /\ UNCHANGED <<job, missing>>
      <4>1. \A f \in Entry : logs'[f] = IF f = e THEN 1 ELSE logs[f]
        BY <3>1 DEF InsertLog
      <4> QED BY <1>0, <3>1, <4>1 DEF Goto
    <3>2. CASE logs[e] = 1 /\ Goto(w, e, "find") /\ UNCHANGED <<logs, job, missing>>
      BY <1>0, <3>2 DEF Goto
    <3> QED BY <2>2, <3>1, <3>2 DEF Create
  <2>3. CASE Find(w, e)
    BY <1>0, <2>3 DEF Find, Goto
  <2>4. CASE SaveDelivered(w, e)
    BY <1>0, <2>4 DEF SaveDelivered, Goto, TaskInv
  <2>5. CASE SavePending(w, e)
    BY <1>0, <2>5 DEF SavePending
  <2> QED BY <1>4, <2>1, <2>2, <2>3, <2>4, <2>5 DEF Deliver
<1>5. ASSUME NEW w \in Worker, NEW e \in Entry, CallFails(w, e) PROVE DueInv'
  BY <1>0, <1>5 DEF CallFails
<1>6. ASSUME NEW w \in Worker, Finish(w) PROVE DueInv'
  <2>1. \A e \in job[w].due : e \in Entry /\ logs[e] = 1
    BY <1>0, <1>6 DEF Finish, AtWork
  <2>2. {e \in job[w].due : logs[e] = 0} = {}
    <3>1. \A e \in job[w].due : logs[e] # 0
      BY <2>1
    <3> QED BY <3>1, Zenon
  <2>3. \A v \in Worker : missing'[v] = {}
    BY <1>0, <1>6, <2>2 DEF Finish
  <2>4. \A v \in Worker : job'[v].due \subseteq job[v].due
    BY <1>6 DEF Finish, NoJob
  <2> QED BY <2>3, <2>4, <1>0, <1>6 DEF Finish
<1>7. ASSUME NEW w \in Worker, Crash(w) PROVE DueInv'
  BY <1>0, <1>7 DEF Crash, NoJob, NoTask
<1> QED BY <1>1, <1>2, <1>3, <1>4, <1>5, <1>6, <1>7 DEF Next

\* Without failed calls an answer lacks no event it is due, for any number of
\* concurrent deliveries and crashes of others (record, flushPendingOutbox).
THEOREM AnswersComplete == Spec => []AnswersAreComplete
<1>1. DueInv => AnswersAreComplete
  BY DEF DueInv, AnswersAreComplete
<1> QED BY <1>1, DueInit, DueStep, InvAlways, PTL DEF Spec

-----------------------------------------------------------------------------
(* The server process.                                                      *)

HIDE OutboxAssumption
USE ProcessAssumption

\* Another attempt is made only if one is left.
RetryInv == phase = "waiting" => attempt <= MaxRetries

\* Once the shutdown has begun the monitor has stopped and the server closes; before it
\* disconnects the server has closed.
StopInv ==
  /\ phase = "closing" => ~timer /\ server = "closing"
  /\ server = "closing" => phase \in {"closing", "killed"}
  /\ phase = "disconnecting" => inflight = 0 /\ server = "closed" /\ ~timer

ProcessInv == ProcessTypeOK /\ RetryInv /\ HealthTellsTheTruth /\ StopInv

\* A snapshot, and one with other counters of which the last has not gone down.
Snapshots ==
  [status : {"disabled", "idle", "running"}, drift : Nat, failed : Nat, skipped : Nat]

\* What is announced follows the snapshot: the alert of the skipped ticks never ends.
LEMMA EmitTellsTheTruth ==
  ASSUME NEW s \in Snapshots, snapshot \in Snapshots, announced = Alerts(snapshot),
         s.skipped >= snapshot.skipped, Emit(s)
  PROVE  announced' = Alerts(s) /\ announced' \subseteq Metric
<1>1. \A m \in Metric : Thresholds[m] \in Nat
  OBVIOUS
<1>2. "skipped" \in announced => "skipped" \in Alerts(s)
  BY <1>1 DEF Alerts, Metric, Snapshots
<1> QED BY <1>2 DEF Emit, Alerts

\* The status is no alert.
LEMMA StatusIsNoAlert ==
  ASSUME NEW s \in Snapshots, NEW named \in {"disabled", "idle", "running"}
  PROVE  /\ [s EXCEPT !.status = named] \in Snapshots
         /\ [s EXCEPT !.status = named].status = named
         /\ [s EXCEPT !.status = named].skipped = s.skipped
         /\ Alerts([s EXCEPT !.status = named]) = Alerts(s)
<1> DEFINE t == [s EXCEPT !.status = named]
<1>1. t \in Snapshots /\ t.status = named
  BY DEF Snapshots
<1>2. t.drift = s.drift /\ t.failed = s.failed /\ t.skipped = s.skipped
  BY DEF Snapshots
<1>3. t["drift"] = s["drift"] /\ t["failed"] = s["failed"] /\ t["skipped"] = s["skipped"]
  BY <1>2
<1> HIDE DEF t
<1>4. \A m \in Metric : t[m] = s[m]
  BY <1>3 DEF Metric
<1>5. Alerts(t) = Alerts(s)
  BY <1>4 DEF Alerts
<1> QED BY <1>1, <1>2, <1>5 DEF t

\* The parts of the state of a sweep, together.
SweepOK ==
  /\ sweep \in {"none", "settings", "tenants", "checks"}
  /\ left \in 0..BatchSize
  /\ found \in SUBSET {"drift", "failed"}
  /\ snapshot \in Snapshots
  /\ announced \subseteq Metric
  /\ ticks \in Nat
  /\ snapshot.status = "running" <=> sweep # "none"
  /\ announced = Alerts(snapshot)

LEMMA SweepStartsOK ==
  ASSUME SweepOK, SweepStarts(snapshot), ticks' \in Nat
  PROVE  SweepOK'
<1>1. /\ snapshot' \in Snapshots /\ snapshot'.status = "running"
      /\ Alerts(snapshot') = Alerts(snapshot)
  BY StatusIsNoAlert DEF SweepOK, SweepStarts
<1>2. Alerts(snapshot)' = Alerts(snapshot')
  BY DEF Alerts
<1> QED BY <1>1, <1>2 DEF SweepOK, SweepStarts

LEMMA SweepEndsOK ==
  ASSUME SweepOK, NEW s \in Snapshots, s.skipped = snapshot.skipped, SweepEnds(s)
  PROVE  SweepOK'
<1>1. snapshot' = [s EXCEPT !.status = "idle"] /\ Emit(s)
  BY DEF SweepEnds
<1>2. /\ snapshot' \in Snapshots /\ snapshot'.status = "idle"
      /\ Alerts(snapshot') = Alerts(s)
  BY <1>1, StatusIsNoAlert
<1>3. s.skipped >= snapshot.skipped
  BY DEF Snapshots
<1>4. announced' = Alerts(s) /\ announced' \subseteq Metric
  BY <1>1, <1>3, EmitTellsTheTruth DEF SweepOK
<1>5. Alerts(snapshot)' = Alerts(snapshot')
  BY DEF Alerts
<1> QED BY <1>2, <1>4, <1>5 DEF SweepOK, SweepEnds

\* The connections: those that are idle are counted only while the server closes.
ConnectionsOK ==
  /\ inflight \in 0..MaxInFlight /\ idle \in 0..(MaxInFlight - inflight)
  /\ server # "closing" => idle = 0

\* The rest of the state: what is counted, what is on or off, and the others.
CountsOK == attempt \in 0..(MaxRetries + 1) /\ ConnectionsOK /\ RetryInv
FlagsOK == handlers \in BOOLEAN /\ timer \in BOOLEAN
ServerOK ==
  /\ phase \in Starting \cup {"ready"} \cup Stopping \cup Final
  /\ trigger \in {"none", "manual", "SIGTERM"}
  /\ exitCode \in {"none", "zero", "one"}
  /\ ready \in Ready /\ reported \in Ready
  /\ client \in {"open", "closed"}
  /\ server \in {"none", "listening", "closing", "closed"}
  /\ ready = "connected" => client = "open"
  /\ reported = ready
  /\ StopInv

PartsOK == ServerOK /\ CountsOK /\ FlagsOK /\ SweepOK

LEMMA ProcessParts == ProcessInv <=> PartsOK
BY DEF ProcessInv, ProcessTypeOK, HealthTellsTheTruth, ServerOK, CountsOK, FlagsOK, SweepOK,
       PartsOK, ConnectionsOK, Snapshots

LEMMA ProcessStarts == ProcessInit => ProcessInv
<1> SUFFICES ASSUME ProcessInit PROVE PartsOK
  BY ProcessParts
<1>1. /\ ServerOK /\ FlagsOK
  BY DEF ProcessInit, ServerOK, FlagsOK, StopInv, Starting, Ready, Disconnected
<1>2. CountsOK
  BY DEF ProcessInit, CountsOK, ConnectionsOK, RetryInv
<1>3. /\ snapshot \in Snapshots /\ snapshot.status = "disabled"
      /\ \A m \in Metric : snapshot[m] = 0
  BY DEF ProcessInit, Snapshots, Metric
<1>4. \A m \in Metric : Thresholds[m] \in Nat \ {0}
  OBVIOUS
<1>5. Alerts(snapshot) = {}
  BY <1>3, <1>4 DEF Alerts
<1>6. SweepOK
  BY <1>3, <1>5 DEF ProcessInit, SweepOK
<1> QED BY <1>1, <1>2, <1>6 DEF PartsOK

\* The monitor: the server and the connection stay as they are.
LEMMA MonitorStep ==
  ASSUME PartsOK, Tick \/ FindTenants \/ CheckTenant \/ SweepCompletes \/ SweepFails
  PROVE  PartsOK'
<1>1. UNCHANGED <<timer, process, database, http>>
  BY DEF Tick, FindTenants, CheckTenant, SweepCompletes, SweepFails, SweepEnds
<1>0. SweepOK
  BY DEF PartsOK
<1>2. ServerOK' /\ CountsOK' /\ FlagsOK'
  BY <1>1 DEF PartsOK, ServerOK, CountsOK, ConnectionsOK, FlagsOK, RetryInv, StopInv, process,
              database, http
<1> SUFFICES SweepOK'
  BY <1>2 DEF PartsOK
<1>3. CASE Tick
  <2>1. CASE sweep = "none"
    <3>1. SweepStarts(snapshot) /\ ticks' \in Nat
      BY <1>0, <1>3, <2>1 DEF Tick, SweepOK
    <3> QED BY <1>0, <3>1, SweepStartsOK
  <2>2. CASE sweep # "none"
    <3> DEFINE s == [snapshot EXCEPT !.skipped = @ + 1]
    <3>1. s \in Snapshots /\ s.skipped >= snapshot.skipped /\ s.status = snapshot.status
      BY <1>0 DEF SweepOK, Snapshots
    <3>2. snapshot' = s /\ Emit(s) /\ UNCHANGED <<sweep, left, found>> /\ ticks' = ticks + 1
      BY <1>3, <2>2 DEF Tick
    <3> HIDE DEF s
    <3>3. announced' = Alerts(s) /\ announced' \subseteq Metric
      BY <1>0, <3>1, <3>2, EmitTellsTheTruth DEF SweepOK
    <3>4. Alerts(snapshot)' = Alerts(snapshot')
      BY DEF Alerts
    <3> QED BY <1>0, <3>1, <3>2, <3>3, <3>4 DEF SweepOK
  <2> QED BY <2>1, <2>2
<1>4. CASE FindTenants \/ CheckTenant
  <2>1. UNCHANGED <<snapshot, announced, ticks>> /\ Alerts(snapshot)' = Alerts(snapshot)
    BY <1>4 DEF FindTenants, CheckTenant, Alerts
  <2>2. left' \in 0..BatchSize /\ found' \in SUBSET {"drift", "failed"}
    <3>1. CASE FindTenants
      <4>1. PICK n \in (IF sweep = "settings" THEN 1..BatchSize ELSE 0..left) : left' = n
        BY <3>1 DEF FindTenants
      <4>2. left \in 0..BatchSize /\ n \in 0..BatchSize
        BY <1>0 DEF SweepOK
      <4>3. UNCHANGED found
        BY <3>1 DEF FindTenants
      <4> QED BY <1>0, <4>1, <4>2, <4>3 DEF SweepOK
    <3>2. CASE CheckTenant
      <4>1. left' = left - 1 /\ left > 0
        BY <3>2 DEF CheckTenant
      <4>2. found' \in SUBSET {"drift", "failed"}
        BY <1>0, <3>2 DEF CheckTenant, SweepOK
      <4> QED BY <1>0, <4>1, <4>2 DEF SweepOK
    <3> QED BY <1>4, <3>1, <3>2
  <2>3. sweep # "none" /\ sweep' \in {"tenants", "checks"}
    BY <1>4 DEF FindTenants, CheckTenant
  <2> QED BY <1>0, <2>1, <2>2, <2>3 DEF SweepOK
<1>5. CASE SweepCompletes
  <2> DEFINE s == Completed(found)
  <2>1. s \in Snapshots /\ s.skipped = snapshot.skipped
    <3> DEFINE x == IF "drift" \in found THEN snapshot.drift + 1 ELSE 0
               y == IF "failed" \in found THEN snapshot.failed + 1 ELSE 0
    <3>1. x \in Nat /\ y \in Nat
      BY <1>0 DEF SweepOK, Snapshots
    <3>2. s = [snapshot EXCEPT !.drift = x, !.failed = y]
      BY <1>0 DEF Completed, SweepOK, Snapshots
    <3> HIDE DEF s, x, y
    <3> QED BY <1>0, <3>1, <3>2 DEF SweepOK, Snapshots
  <2>2. SweepEnds(s)
    BY <1>5 DEF SweepCompletes
  <2> HIDE DEF s
  <2> QED BY <1>0, <2>1, <2>2, SweepEndsOK
<1>6. CASE SweepFails
  <2> DEFINE s == [snapshot EXCEPT !.failed = @ + 1]
  <2>1. s \in Snapshots /\ s.skipped = snapshot.skipped
    BY <1>0 DEF SweepOK, Snapshots
  <2>2. SweepEnds(s)
    BY <1>6 DEF SweepFails
  <2> HIDE DEF s
  <2> QED BY <1>0, <2>1, <2>2, SweepEndsOK
<1> QED BY <1>3, <1>4, <1>5, <1>6

\* The connection, the requests, the start and the shutdown.
LEMMA ServerStep ==
  ASSUME PartsOK, ShutdownCalled \/ Signal \/ Lose \/ Return
                   \/ Accept \/ AcceptOnIdle \/ Respond \/ CloseIdle
  PROVE  PartsOK'
<1> USE DEF Starting, Stopping, Final, Ready, Disconnected, StopInv
<1>1. UNCHANGED <<attempt, sweep, left, found, snapshot, announced, ticks>>
  BY DEF ShutdownCalled, Signal, Shutdown, Lose, Return, Accept, AcceptOnIdle, Respond, CloseIdle, process, monitor
<1>2. SweepOK'
  BY <1>1 DEF PartsOK, SweepOK, Alerts
<1>3. FlagsOK'
  BY DEF PartsOK, FlagsOK, ShutdownCalled, Signal, Shutdown, Lose, Return, Accept, AcceptOnIdle,
         Respond, CloseIdle, process, monitor
<1>4. CountsOK'
  <2>1. ConnectionsOK'
    <3>1. ConnectionsOK /\ StopInv
      BY DEF PartsOK, CountsOK, ServerOK
    <3>2. CASE ShutdownCalled \/ Signal
      <4>1. UNCHANGED <<inflight, idle>> /\ (server' = server \/ server' = "closing")
        BY <3>2 DEF ShutdownCalled, Signal, Shutdown
      <4> QED BY <3>1, <4>1 DEF ConnectionsOK
    <3>3. CASE Lose \/ Return
      BY <3>1, <3>3 DEF ConnectionsOK, Lose, Return, http
    <3>4. CASE Accept \/ AcceptOnIdle \/ Respond \/ CloseIdle
      BY <3>1, <3>4 DEF ConnectionsOK, Accept, AcceptOnIdle, Respond, CloseIdle
    <3> QED BY <3>2, <3>3, <3>4
  <2>2. phase' = "waiting" => phase = "waiting"
    BY DEF ShutdownCalled, Signal, Shutdown, Lose, Return, Accept, AcceptOnIdle, Respond, CloseIdle, process
  <2> QED BY <1>1, <2>1, <2>2 DEF PartsOK, CountsOK, RetryInv
<1>5. ServerOK'
  <2>1. CASE ShutdownCalled
    BY <2>1 DEF PartsOK, ServerOK, ShutdownCalled, Shutdown, database
  <2>2. CASE Signal
    BY <2>2 DEF PartsOK, ServerOK, Signal, Shutdown, database
  <2>3. CASE Lose \/ Return
    BY <2>3 DEF PartsOK, ServerOK, Lose, Return, Becomes, process, http, monitor
  <2>4. CASE Accept \/ AcceptOnIdle \/ Respond \/ CloseIdle
    BY <2>4 DEF PartsOK, CountsOK, ServerOK, Accept, AcceptOnIdle, Respond, CloseIdle, process, database, monitor
  <2> QED BY <2>1, <2>2, <2>3, <2>4
<1> QED BY <1>2, <1>3, <1>4, <1>5 DEF PartsOK

LEMMA StartOrStopStep ==
  ASSUME PartsOK, StartOrStop
  PROVE  PartsOK'
<1> USE DEF Starting, Stopping, Final, Ready, Disconnected, StopInv
<1>1. CASE Listen
  <2>1. /\ phase' = "ready" /\ server' = "listening" /\ handlers' = TRUE
        /\ UNCHANGED <<trigger, exitCode, attempt, ready, client, reported, inflight, idle>>
    BY <1>1 DEF Listen, database
  <2>2. SweepOK' /\ FlagsOK'
    <3>1. CASE MonitorEnabled
      <4>1. timer' = TRUE /\ SweepStarts(snapshot) /\ UNCHANGED ticks
        BY <1>1, <3>1 DEF Listen, StartMonitor
      <4>2. ticks' \in Nat
        BY <4>1 DEF PartsOK, SweepOK
      <4>3. SweepOK'
        BY <4>1, <4>2, SweepStartsOK DEF PartsOK
      <4> QED BY <2>1, <4>1, <4>3 DEF FlagsOK
    <3>2. CASE ~MonitorEnabled
      <4>1. UNCHANGED monitor
        BY <1>1, <3>2 DEF Listen, StartMonitor
      <4> QED BY <2>1, <4>1 DEF PartsOK, SweepOK, FlagsOK, Alerts, monitor
    <3> QED BY <3>1, <3>2
  <2>3. ServerOK'
    BY <2>1 DEF PartsOK, ServerOK
  <2>4. CountsOK'
    <3>1. phase = "listen"
      BY <1>1 DEF Listen
    <3> QED BY <2>1, <3>1 DEF PartsOK, ServerOK, CountsOK, ConnectionsOK, RetryInv
  <2> QED BY <2>2, <2>3, <2>4 DEF PartsOK
<1>2. CASE ~Listen
  <2>1. UNCHANGED <<monitor, inflight, idle>>
    BY <1>2 DEF StartOrStop, PreflightFails, Start, ConnectSucceeds, ConnectFails, RetryConnect,
                BootstrapSettings, BootstrapFails, ListenFails, GiveUp, ServerClosed,
                DisconnectSucceeds, DisconnectFails, AfterDisconnect, http
  <2>2. SweepOK'
    BY <2>1 DEF PartsOK, SweepOK, Alerts, monitor
  <2>3. FlagsOK'
    BY <1>2, <2>1 DEF PartsOK, FlagsOK, monitor, StartOrStop, PreflightFails, Start,
         ConnectSucceeds, ConnectFails, RetryConnect, BootstrapSettings, BootstrapFails,
         ListenFails, GiveUp, Disconnect, ServerClosed, DisconnectSucceeds, DisconnectFails,
         AfterDisconnect, Shut
  <2>4. CountsOK'
    <3>0. ConnectionsOK'
      <4>1. server' = server \/ idle = 0
        BY <1>2 DEF StartOrStop, PreflightFails, Start, ConnectSucceeds, ConnectFails,
             RetryConnect, BootstrapSettings, BootstrapFails, ListenFails, GiveUp, ServerClosed,
             DisconnectSucceeds, DisconnectFails, AfterDisconnect, http
      <4> QED BY <2>1, <4>1 DEF PartsOK, CountsOK, ConnectionsOK
    <3>1. CASE Start \/ RetryConnect
      BY <3>0, <3>1 DEF Start, RetryConnect, Attempt, PartsOK, CountsOK, RetryInv
    <3>2. CASE ConnectFails
      BY <3>0, <3>2 DEF ConnectFails, PartsOK, CountsOK, RetryInv
    <3>3. CASE ~(Start \/ RetryConnect \/ ConnectFails)
      <4>1. UNCHANGED attempt /\ phase' # "waiting"
        BY <1>2, <3>3 DEF StartOrStop, PreflightFails, ConnectSucceeds, BootstrapSettings,
             BootstrapFails, ListenFails, GiveUp, Disconnect, ServerClosed, DisconnectSucceeds,
             DisconnectFails, AfterDisconnect, Shut
      <4> QED BY <3>0, <4>1 DEF PartsOK, CountsOK, RetryInv
    <3> QED BY <3>1, <3>2, <3>3
  <2>5. ServerOK'
    <3>1. CASE PreflightFails \/ BootstrapSettings
      BY <3>1 DEF PreflightFails, BootstrapSettings, PartsOK, ServerOK, database, http, monitor
    <3>2. CASE Start \/ RetryConnect
      BY <3>2 DEF Start, RetryConnect, Attempt, Becomes, PartsOK, ServerOK, http, monitor
    <3>3. CASE ConnectSucceeds
      BY <3>3 DEF ConnectSucceeds, Becomes, PartsOK, ServerOK, http, monitor
    <3>4. CASE ConnectFails
      BY <3>4 DEF ConnectFails, Becomes, PartsOK, ServerOK, http, monitor
    <3>5. CASE BootstrapFails \/ ListenFails
      BY <3>5 DEF BootstrapFails, ListenFails, GiveUp, Disconnect, Becomes, PartsOK, ServerOK,
                  database, http, monitor
    <3>6. CASE ServerClosed
      BY <3>6 DEF ServerClosed, Disconnect, Shut, Becomes, PartsOK, ServerOK, database, monitor
    <3>7. CASE DisconnectSucceeds \/ DisconnectFails
      BY <3>7 DEF DisconnectSucceeds, DisconnectFails, AfterDisconnect, Shut, Becomes, PartsOK,
                  ServerOK, http, monitor
    <3> QED BY <1>2, <3>1, <3>2, <3>3, <3>4, <3>5, <3>6, <3>7 DEF StartOrStop
  <2> QED BY <2>2, <2>3, <2>4, <2>5 DEF PartsOK
<1> QED BY <1>1, <1>2

LEMMA ProcessSteps == ProcessInv /\ [ProcessNext]_processVars => ProcessInv'
<1> SUFFICES ASSUME ProcessInv, [ProcessNext]_processVars PROVE PartsOK'
  <2>1. PartsOK' => ProcessInv'
    BY ProcessParts, PTL
  <2> QED BY <2>1
<1>1. PartsOK
  BY ProcessParts
<1>2. CASE UNCHANGED processVars
  BY <1>1, <1>2 DEF processVars, process, database, http, monitor, PartsOK, ServerOK, CountsOK,
                    FlagsOK, SweepOK, Alerts, ConnectionsOK, RetryInv, StopInv
<1>3. CASE ProcessNext
  BY <1>1, <1>3, StartOrStopStep, ServerStep, MonitorStep DEF ProcessNext
<1> QED BY <1>2, <1>3

LEMMA ProcessAlways == ProcessSpec => []ProcessInv
BY ProcessStarts, ProcessSteps, PTL DEF ProcessSpec

\* The process has its types in every state: in particular it makes no more attempts to
\* connect than it has retries (connection.ts:267).
THEOREM ProcessTypeCorrect == ProcessSpec => []ProcessTypeOK
<1>1. ProcessInv => ProcessTypeOK
  BY DEF ProcessInv
<1> QED BY <1>1, ProcessAlways, PTL

\* What /health reports of the database and of the monitor, and what the log has announced,
\* is so whatever the connection does and however long a sweep takes.
THEOREM HealthIsTrue == ProcessSpec => []HealthTellsTheTruth
<1>1. ProcessInv => HealthTellsTheTruth
  BY DEF ProcessInv
<1> QED BY <1>1, ProcessAlways, PTL

\* A step that begins to disconnect, or that ends the shutdown, finds the server closed, the
\* requests answered and the monitor stopped; the client is closed unless the connection was
\* down.
LEMMA ReleaseStep ==
  ASSUME ProcessInv, [ProcessNext]_processVars
  PROVE  /\ phase' = "disconnecting" => inflight' = 0 /\ server' = "closed" /\ ~timer'
         /\ phase' = "stopped" /\ phase # "stopped" =>
              /\ inflight' = 0 /\ server' = "closed" /\ ~timer'
              /\ client' = "closed" \/ ready = Disconnected
<1>1. ProcessInv'
  BY ProcessSteps
<1>2. phase' = "disconnecting" => inflight' = 0 /\ server' = "closed" /\ ~timer'
  BY <1>1 DEF ProcessInv, StopInv
<1>3. ASSUME phase' = "stopped", phase # "stopped"
      PROVE  /\ inflight' = 0 /\ server' = "closed" /\ ~timer'
             /\ client' = "closed" \/ ready = Disconnected
  <2>1. ServerClosed \/ DisconnectSucceeds
    BY <1>3 DEF ProcessNext, processVars, StartOrStop, PreflightFails, Start, Attempt,
         ConnectSucceeds, ConnectFails, RetryConnect, BootstrapSettings, BootstrapFails, GiveUp,
         Disconnect, Listen, ListenFails, DisconnectFails, AfterDisconnect, Shut,
         ShutdownCalled, Signal, Shutdown, Lose, Return, Accept, AcceptOnIdle, Respond, CloseIdle, Tick,
         FindTenants, CheckTenant, SweepCompletes, SweepFails, SweepEnds, process
  <2>2. CASE ServerClosed
    BY <1>3, <2>2 DEF ServerClosed, Disconnect, monitor, ProcessInv, StopInv
  <2>3. CASE DisconnectSucceeds
    BY <1>3, <2>3 DEF DisconnectSucceeds, AfterDisconnect, http, monitor, ProcessInv, StopInv
  <2> QED BY <2>1, <2>2, <2>3
<1> QED BY <1>2, <1>3

\* A process disconnects, and has stopped, only when it has released what it held.
THEOREM ShutdownsRelease == ProcessSpec => ShutdownReleases
BY ReleaseStep, ProcessAlways, PTL DEF ProcessSpec, ShutdownReleases

-----------------------------------------------------------------------------
(* The CRM.                                                                 *)

HIDE ProcessAssumption

\* What a request at each step was asked for.
AskedInv ==
  \A r \in Req :
    /\ pc[r] # "idle" => input[r].kind \in Kinds /\ input[r].doc \in Doc
    /\ input[r].contact \in Contact \cup {None, Keep}
    /\ input[r].organization \in Organization \cup {None, Keep}
    /\ input[r].doc \in Organization => input[r].organization = Keep
    /\ input[r].kind = "stage" => input[r].doc \in Opportunity
    /\ pc[r] = "load" /\ input[r].kind = "update" => input[r].doc \in Contact \cup Organization
    /\ pc[r] = "contact" => input[r].kind \in {"create", "update"} /\ input[r].doc \in Opportunity
    /\ pc[r] = "organization" =>
         input[r].kind \in {"create", "update"} /\ input[r].doc \in Contact \cup Opportunity
    /\ pc[r] = "uses" => input[r].kind = "delete" /\ todo[r] \subseteq {"contacts", "opportunities"}
    /\ pc[r] = "write" => input[r].kind # "stage"
    /\ pc[r] = "write" /\ input[r].kind = "activity" => status[input[r].doc] # "absent"
    /\ pc[r] = "count" => todo[r] \subseteq Field
    /\ pc[r] = "commit" => input[r].kind = "stage"

\* What a request that is alone has found is still so.
FoundInv(r) ==
  /\ pc[r] = "write" /\ input[r].kind \in {"create", "update"} =>
       input[r].organization \in {None, Keep} \cup Active
  /\ pc[r] = "uses" =>
       \A what \in {"contacts", "opportunities"} \ todo[r] : Users(Subject(r), what) = {}
  /\ pc[r] = "write" /\ input[r].kind = "delete" /\ Subject(r) \in Organization =>
       \A what \in {"contacts", "opportunities"} : Users(Subject(r), what) = {}

\* What a request that is alone has counted is still so.
CountedInv(r) ==
  /\ pc[r] = "count" => \A f \in Field \ todo[r] : counts[r][f] = Cardinality(Counted(f, stage))
  /\ pc[r] = "sync" => counts[r] = Snapshot(stage)
  /\ pc[r] = "commit" => counts[r] = Snapshot([stage EXCEPT ![Subject(r)] = input[r].stage])
  /\ pc[r] = "record" /\ input[r].kind \notin {"update", "activity"} => counters = Snapshot(stage)

AloneInv ==
  \A r \in alone :
    (\A q \in Req \ {r} : pc[q] = "idle") /\ FoundInv(r) /\ CountedInv(r)

CrmInv == CrmTypeOK /\ AskedInv /\ AloneInv

\* A count is a number.
LEMMA CountsAreNumbers ==
  \A s : (\A f \in Field : Cardinality(Counted(f, s)) \in Nat) /\ Snapshot(s) \in Counters
<1>1. ASSUME NEW s, NEW f \in Field
      PROVE  Cardinality(Counted(f, s)) \in Nat
  <2>1. Counted(f, s) \subseteq Doc
    BY DEF Counted, Field, Doc
  <2>2. IsFiniteSet(Doc)
    BY CrmAssumption
  <2>3. IsFiniteSet(Counted(f, s))
    BY <2>1, <2>2, FS_Subset
  <2> QED BY <2>3, FS_CardinalityType
<1> QED BY <1>1 DEF Snapshot, Counters

CrmSteps == {"idle", "load", "contact", "organization", "write", "uses",
             "count", "sync", "commit", "record"}
CrmWork == Field \cup {"contacts", "opportunities"}

\* The types of what the documents hold, and of what the requests do.
DocsOK ==
  /\ status \in [Doc -> DocStatus]
  /\ stage \in [Opportunity -> Stage]
  /\ contact \in [Opportunity -> MaybeContact]
  /\ organization \in [Contact \cup Opportunity -> MaybeOrganization]
  /\ mentioned \subseteq Mentionable
  /\ \A d \in mentioned : status[d] # "absent"
RequestsOK ==
  /\ pc \in [Req -> CrmSteps]
  /\ input \in [Req -> Input]
  /\ seen \in [Req -> Stage]
  /\ counts \in [Req -> Counters]
  /\ todo \in [Req -> SUBSET CrmWork]

LEMMA CrmTypes ==
  CrmTypeOK <=> /\ DocsOK /\ RequestsOK /\ counters \in Counters \cup {NoCounters}
                /\ lost \in [Req -> BOOLEAN] /\ alone \subseteq Req /\ asked \in Nat
BY DEF CrmTypeOK, DocsOK, RequestsOK, CrmSteps, CrmWork

LEMMA NothingAsked == NoInput \in Input
BY DEF NoInput, Input, Ref, Stage

LEMMA CrmInitOK == CrmInit => CrmInv
<1> SUFFICES ASSUME CrmInit PROVE CrmInv
  OBVIOUS
<1>1. ZeroCounters \in Counters
  BY DEF ZeroCounters, Counters
<1>2. counters \in Counters \cup {NoCounters}
  BY CountsAreNumbers DEF CrmInit
<1>3. DocsOK
  BY DEF CrmInit, DocsOK, DocStatus, MaybeContact, MaybeOrganization, Mentionable
<1>4. RequestsOK
  BY <1>1, NothingAsked DEF CrmInit, RequestsOK, CrmSteps, CrmWork, Stage
<1>5. lost \in [Req -> BOOLEAN]
  BY DEF CrmInit
<1>6. alone \subseteq Req /\ asked \in Nat
  BY DEF CrmInit
<1>7. AskedInv
  BY CrmAssumption DEF CrmInit, AskedInv, NoInput, Doc
<1>8. AloneInv
  BY DEF CrmInit, AloneInv
<1> QED BY <1>2, <1>3, <1>4, <1>5, <1>6, <1>7, <1>8, CrmTypes DEF CrmInv

\* How a step leaves the request it serves.
LEMMA MovesKeepTypes ==
  ASSUME RequestsOK, NEW r \in Req
  PROVE  /\ End(r) => RequestsOK'
         /\ \A step \in CrmSteps : GoOn(r, step) => RequestsOK'
         /\ \A step \in CrmSteps, what \in SUBSET CrmWork : CountNext(r, step, what) => RequestsOK'
<1>1. ASSUME End(r) PROVE RequestsOK'
  <2>1. ZeroCounters \in Counters
    BY DEF ZeroCounters, Counters
  <2> QED BY <1>1, <2>1, NothingAsked DEF End, RequestsOK, CrmSteps, CrmWork, Stage
<1>2. ASSUME NEW step \in CrmSteps, GoOn(r, step) PROVE RequestsOK'
  BY <1>2 DEF GoOn, RequestsOK
<1>3. ASSUME NEW step \in CrmSteps, NEW what \in SUBSET CrmWork, CountNext(r, step, what)
      PROVE  RequestsOK'
  BY <1>3 DEF CountNext, RequestsOK
<1> QED BY <1>1, <1>2, <1>3

\* What an arriving request asks for.
AskedFor(request) ==
  /\ request.kind \in Kinds /\ request.doc \in Doc
  /\ request.contact \in Contact \cup {None, Keep}
  /\ request.organization \in Organization \cup {None, Keep}
  /\ request.doc \in Organization => request.organization = Keep
  /\ request.kind = "stage" => request.doc \in Opportunity
  /\ request.stage \in Stage
  /\ request \in Input

LEMMA ArriveAsks ==
  ASSUME NEW r \in Req, Arrive(r)
  PROVE  \E request : AskedFor(request) /\ Ask(r, request)
<1> USE CrmAssumption DEF AskedFor, NoInput, Kinds, Doc, Input, Ref, Stage
<1>1. CASE \E d \in Organization : Fresh(d) /\ Ask(r, [NoInput EXCEPT !.kind = "create", !.doc = d])
  BY <1>1
<1>2. CASE \E d \in Contact, o \in Organization \cup {None} :
             Fresh(d) /\ Ask(r, [NoInput EXCEPT !.kind = "create", !.doc = d, !.organization = o])
  BY <1>2
<1>3. CASE \E d \in Opportunity, c \in Contact \cup {None}, o \in Organization \cup {None} :
             Fresh(d) /\ Ask(r, [NoInput EXCEPT !.kind = "create", !.doc = d, !.contact = c, !.organization = o])
  BY <1>3
<1>4. CASE \E d \in Organization : Ask(r, [NoInput EXCEPT !.kind = "update", !.doc = d])
  BY <1>4
<1>5. CASE \E d \in Contact, o \in Organization \cup {None, Keep} :
             Ask(r, [NoInput EXCEPT !.kind = "update", !.doc = d, !.organization = o])
  BY <1>5
<1>6. CASE \E d \in Opportunity, c \in Contact \cup {None, Keep}, o \in Organization \cup {None, Keep} :
             Ask(r, [NoInput EXCEPT !.kind = "update", !.doc = d, !.contact = c, !.organization = o])
  BY <1>6
<1>7. CASE \E d \in Doc, kind \in {"delete", "activity"} :
             Ask(r, [NoInput EXCEPT !.kind = kind, !.doc = d])
  BY <1>7
<1>8. CASE \E d \in Opportunity, s \in Stage :
             Ask(r, [NoInput EXCEPT !.kind = "stage", !.doc = d, !.stage = s])
  BY <1>8
<1> QED BY <1>1, <1>2, <1>3, <1>4, <1>5, <1>6, <1>7, <1>8 DEF Arrive

LEMMA FirstSteps ==
  ASSUME NEW request, AskedFor(request)
  PROVE  FirstStep(request) \in {"load", "contact", "organization", "uses", "write"}
BY DEF AskedFor, FirstStep, Kinds

\* A step of a request, and of no other.
LEMMA ServeMoves ==
  ASSUME CrmTypeOK, AskedInv, NEW r \in Req, Serve(r) \/ Fail(r)
  PROVE  /\ pc[r] # "idle" /\ alone' = alone /\ asked' = asked
         /\ RequestsOK'
         /\ \A q \in Req \ {r} : /\ pc'[q] = pc[q] /\ input'[q] = input[q]
                                 /\ counts'[q] = counts[q] /\ todo'[q] = todo[q]
         /\ pc'[r] = "idle" \/ input'[r] = input[r]
<1> DEFINE Moved ==
      /\ RequestsOK'
      /\ \A q \in Req \ {r} : /\ pc'[q] = pc[q] /\ input'[q] = input[q]
                              /\ counts'[q] = counts[q] /\ todo'[q] = todo[q]
      /\ pc'[r] = "idle" \/ input'[r] = input[r]
<1>1. RequestsOK
  BY CrmTypes
<1>2. End(r) => Moved
  BY <1>1, MovesKeepTypes DEF End, RequestsOK
<1>3. \A step \in CrmSteps : GoOn(r, step) => Moved
  BY <1>1, MovesKeepTypes DEF GoOn, RequestsOK
<1>4. \A step \in CrmSteps, what \in SUBSET CrmWork : CountNext(r, step, what) => Moved
  BY <1>1, MovesKeepTypes DEF CountNext, RequestsOK
<1>5. \A step \in {"load", "organization", "write", "record"} : GoOn(r, step) => Moved
  BY <1>3 DEF CrmSteps
<1>6. CountNext(r, "count", Field) => Moved
  BY <1>4 DEF CrmSteps, CrmWork
<1> HIDE DEF Moved
<1>7. CASE Fail(r)
  BY <1>2, <1>7 DEF Fail, Moved
<1>8. CASE CheckContact(r)
  BY <1>2, <1>5, <1>8 DEF CheckContact, Moved
<1>9. CASE CheckOrganization(r)
  BY <1>2, <1>5, <1>9 DEF CheckOrganization, Moved
<1>10. CASE LoadForUpdate(r)
  BY <1>2, <1>5, <1>10 DEF LoadForUpdate, Does, Moved
<1>11. CASE CreateContact(r) \/ CreateOrganization(r) \/ CreateOpportunity(r)
  BY <1>6, <1>11 DEF CreateContact, CreateOrganization, CreateOpportunity, Insert, Does, Moved
<1>12. CASE UpdateContact(r) \/ UpdateOrganization(r) \/ UpdateOpportunity(r)
  BY <1>2, <1>5, <1>12 DEF UpdateContact, UpdateOrganization, UpdateOpportunity, Patch, Does, Moved
<1>13. CASE DeleteContact(r) \/ DeleteOrganization(r) \/ DeleteOpportunity(r)
  BY <1>2, <1>6, <1>13 DEF DeleteContact, DeleteOrganization, DeleteOpportunity, Remove, Does, Moved
<1>14. CASE CountUses(r)
  <2>1. PICK what \in todo[r] :
          IF Users(Subject(r), what) # {} THEN End(r)
          ELSE CountNext(r, IF todo[r] = {what} THEN "write" ELSE "uses", todo[r] \ {what})
    BY <1>14 DEF CountUses
  <2>2. todo[r] \ {what} \in SUBSET CrmWork
    BY <1>1 DEF RequestsOK
  <2>3. (IF todo[r] = {what} THEN "write" ELSE "uses") \in CrmSteps
    BY DEF CrmSteps
  <2>4. Moved
    BY <1>2, <1>4, <2>1, <2>2, <2>3
  <2> QED BY <1>14, <2>4 DEF CountUses, Moved
<1>15. CASE Count(r)
  <2>1. PICK f \in todo[r] :
          /\ counts' = [counts EXCEPT ![r][f] = Cardinality(Counted(f, stage))]
          /\ todo' = [todo EXCEPT ![r] = @ \ {f}]
          /\ pc' = [pc EXCEPT ![r] = IF todo[r] = {f} THEN "sync" ELSE "count"]
    BY <1>15 DEF Count
  <2>2. f \in Field
    BY <1>15 DEF Count, AskedInv
  <2>3. counts'[r] = [counts[r] EXCEPT ![f] = Cardinality(Counted(f, stage))] /\ counts[r] \in Counters
    BY <1>1, <2>1 DEF RequestsOK
  <2>4. counts'[r] \in Counters
    <3>1. Cardinality(Counted(f, stage)) \in Nat
      BY <2>2, CountsAreNumbers
    <3>2. \A c \in [Field -> Nat], n \in Nat : [c EXCEPT ![f] = n] \in [Field -> Nat]
      OBVIOUS
    <3> QED BY <2>3, <3>1, <3>2 DEF Counters
  <2>5. counts' \in [Req -> Counters]
    BY <1>1, <2>1, <2>4 DEF RequestsOK
  <2>6. todo' \in [Req -> SUBSET CrmWork] /\ pc' \in [Req -> CrmSteps]
    BY <1>1, <2>1 DEF RequestsOK, CrmSteps
  <2>7. RequestsOK'
    BY <1>1, <1>15, <2>5, <2>6 DEF RequestsOK, Count
  <2> QED BY <1>1, <1>15, <2>1, <2>7 DEF RequestsOK, Count
<1>16. CASE SyncCounters(r)
  BY <1>5, <1>16 DEF SyncCounters, Moved
<1>17. CASE RecordAuditLog(r)
  BY <1>2, <1>17 DEF RecordAuditLog, Moved
<1>18. CASE TxLoad(r)
  <2>1. pc[r] # "idle" /\ Subject(r) \in Opportunity /\ stage[Subject(r)] \in Stage
    BY <1>18, CrmTypes DEF TxLoad, Does, AskedInv, Subject, DocsOK
  <2>2. CASE End(r)
    BY <1>2, <1>18, <2>1, <2>2 DEF TxLoad, Moved
  <2>3. CASE /\ seen' = [seen EXCEPT ![r] = stage[Subject(r)]]
             /\ counts' = [counts EXCEPT ![r] =
                             Snapshot([stage EXCEPT ![Subject(r)] = input[r].stage])]
             /\ pc' = [pc EXCEPT ![r] = "commit"]
             /\ UNCHANGED <<input, todo>>
    <3>1. counts' \in [Req -> Counters]
      BY <1>1, <2>3, CountsAreNumbers DEF RequestsOK
    <3>2. RequestsOK'
      BY <1>1, <2>1, <2>3, <3>1 DEF RequestsOK, CrmSteps
    <3> QED BY <1>1, <1>18, <2>1, <2>3, <3>2 DEF RequestsOK, TxLoad
  <2> QED BY <1>18, <2>2, <2>3 DEF TxLoad
<1>19. CASE TxCommit(r) \/ TxRetry(r)
  BY <1>5, <1>19 DEF TxCommit, TxRetry, Moved
<1>20. CASE AssertActivityReferences(r) \/ CreateActivity(r)
  BY <1>2, <1>5, <1>20 DEF AssertActivityReferences, CreateActivity, Does, Moved
<1> QED
  BY <1>7, <1>8, <1>9, <1>10, <1>11, <1>12, <1>13, <1>14, <1>15, <1>16, <1>17, <1>18, <1>19, <1>20
     DEF Serve

\* A step writes documents, references and counters of their types; a document that has
\* been created is never absent again.
LEMMA ServeWrites ==
  ASSUME CrmTypeOK, AskedInv, NEW r \in Req, Serve(r) \/ Fail(r)
  PROVE  /\ DocsOK' /\ counters' \in Counters \cup {NoCounters}
         /\ lost' \in [Req -> BOOLEAN]
         /\ \A d \in Doc : status[d] # "absent" => status'[d] # "absent"
<1> DEFINE Same == UNCHANGED docs
           Fit == /\ DocsOK'
                  /\ \A d \in Doc : status[d] # "absent" => status'[d] # "absent"
<1>1. DocsOK /\ RequestsOK /\ lost \in [Req -> BOOLEAN] /\ counters \in Counters \cup {NoCounters}
  BY CrmTypes
<1>2. Same => Fit
  BY <1>1 DEF docs, DocsOK
<1>3. \A d : Touch(r, d) => lost' \in [Req -> BOOLEAN]
  BY DEF Touch
<1>4. pc[r] # "idle" => /\ Subject(r) \in Doc
                        /\ input[r].contact \in Contact \cup {None, Keep}
                        /\ input[r].organization \in Organization \cup {None, Keep}
  BY DEF AskedInv, Subject
<1>5. ASSUME Insert(r), DocsOK => /\ contact' \in [Opportunity -> MaybeContact]
                                  /\ organization' \in [Contact \cup Opportunity -> MaybeOrganization]
      PROVE  Fit
  <2>1. Subject(r) \in Doc
    BY <1>4, <1>5 DEF Insert, Does
  <2> QED BY <1>1, <1>5, <2>1 DEF Insert, DocsOK, DocStatus, Mentionable, Doc
<1>6. \A d \in Contact \cup Opportunity :
        [organization EXCEPT ![d] = Given(input[r].organization)]
          \in [Contact \cup Opportunity -> MaybeOrganization]
      \/ pc[r] = "idle"
  BY <1>1, <1>4 DEF DocsOK, Given, MaybeOrganization
<1>7. \A d \in Opportunity :
        [contact EXCEPT ![d] = Given(input[r].contact)] \in [Opportunity -> MaybeContact]
      \/ pc[r] = "idle"
  BY <1>1, <1>4 DEF DocsOK, Given, MaybeContact
<1>8. pc[r] # "idle" /\ Subject(r) \in Contact \cup Opportunity =>
        Patched(organization, r, input[r].organization)
          \in [Contact \cup Opportunity -> MaybeOrganization]
  BY <1>1, <1>4 DEF DocsOK, Patched, MaybeOrganization
<1>9. pc[r] # "idle" /\ Subject(r) \in Opportunity =>
        Patched(contact, r, input[r].contact) \in [Opportunity -> MaybeContact]
  BY <1>1, <1>4 DEF DocsOK, Patched, MaybeContact
<1>10. ASSUME Patch(r), DocsOK => /\ contact' \in [Opportunity -> MaybeContact]
                                  /\ organization' \in [Contact \cup Opportunity -> MaybeOrganization]
       PROVE  Fit
  BY <1>1, <1>10 DEF Patch, DocsOK
<1>11. ASSUME Remove(r) PROVE Fit
  <2>1. Subject(r) \in Doc
    BY <1>4, <1>11 DEF Remove, Does
  <2> QED BY <1>1, <1>11, <2>1 DEF Remove, DocsOK, DocStatus, Mentionable, Doc
<1>12. Insert(r) \/ Patch(r) \/ Remove(r) => pc[r] # "idle" /\ counters' = counters
  BY DEF Insert, Patch, Remove, Does
<1>13. Insert(r) \/ Patch(r) \/ Remove(r) => lost' \in [Req -> BOOLEAN]
  BY <1>1, <1>3 DEF Insert, Patch, Remove
<1> HIDE DEF Same, Fit
<1>14. Fit /\ counters' = counters /\ lost' = lost => /\ Fit /\ counters' \in Counters \cup {NoCounters}
                                                      /\ lost' \in [Req -> BOOLEAN]
  BY <1>1
<1> DEFINE Goal == Fit /\ counters' \in Counters \cup {NoCounters} /\ lost' \in [Req -> BOOLEAN]
<1> SUFFICES Goal
  BY DEF Fit
<1>15. CASE CreateContact(r)
  <2>1. Fit
    BY <1>1, <1>5, <1>6, <1>12, <1>15 DEF CreateContact, DocsOK
  <2> QED BY <1>1, <1>12, <1>13, <1>15, <2>1 DEF CreateContact
<1>16. CASE CreateOrganization(r)
  <2>1. Fit
    BY <1>1, <1>5, <1>16 DEF CreateOrganization, DocsOK
  <2> QED BY <1>1, <1>12, <1>13, <1>16, <2>1 DEF CreateOrganization
<1>17. CASE CreateOpportunity(r)
  <2>1. Fit
    BY <1>1, <1>5, <1>6, <1>7, <1>12, <1>17 DEF CreateOpportunity, DocsOK
  <2> QED BY <1>1, <1>12, <1>13, <1>17, <2>1 DEF CreateOpportunity
<1>18. CASE UpdateContact(r)
  <2>1. Fit
    BY <1>1, <1>8, <1>10, <1>12, <1>18 DEF UpdateContact, DocsOK
  <2> QED BY <1>1, <1>12, <1>13, <1>18, <2>1 DEF UpdateContact
<1>19. CASE UpdateOrganization(r)
  <2>1. Fit
    BY <1>1, <1>10, <1>19 DEF UpdateOrganization, DocsOK
  <2> QED BY <1>1, <1>12, <1>13, <1>19, <2>1 DEF UpdateOrganization
<1>20. CASE UpdateOpportunity(r)
  <2>1. Fit
    BY <1>1, <1>8, <1>9, <1>10, <1>12, <1>20 DEF UpdateOpportunity, DocsOK
  <2> QED BY <1>1, <1>12, <1>13, <1>20, <2>1 DEF UpdateOpportunity
<1>21. CASE DeleteContact(r) \/ DeleteOrganization(r) \/ DeleteOpportunity(r)
  <2>1. Remove(r)
    BY <1>21 DEF DeleteContact, DeleteOrganization, DeleteOpportunity
  <2> QED BY <1>1, <1>11, <1>12, <1>13, <2>1
<1>22. CASE \/ Fail(r) \/ CheckContact(r) \/ CheckOrganization(r) \/ LoadForUpdate(r) \/ CountUses(r)
            \/ Count(r) \/ RecordAuditLog(r) \/ TxRetry(r) \/ AssertActivityReferences(r)
  <2>1. Same /\ counters' = counters /\ lost' = lost
    BY <1>22 DEF Same, Fail, CheckContact, CheckOrganization, LoadForUpdate, CountUses, Count,
                 RecordAuditLog, TxRetry, AssertActivityReferences
  <2> QED BY <1>2, <1>14, <2>1
<1>23. CASE SyncCounters(r)
  <2>1. counters' \in Counters
    BY <1>1, <1>23 DEF SyncCounters, RequestsOK
  <2>2. Same /\ lost' \in [Req -> BOOLEAN]
    BY <1>3, <1>23 DEF SyncCounters, Same
  <2> QED BY <1>2, <2>1, <2>2
<1>24. CASE TxLoad(r)
  <2>1. lost' \in [Req -> BOOLEAN]
    BY <1>1, <1>24 DEF TxLoad
  <2>2. Same /\ counters' = counters
    BY <1>24 DEF TxLoad, Same
  <2> QED BY <1>1, <1>2, <2>1, <2>2
<1>25. CASE TxCommit(r)
  <2>1. counters' \in Counters
    BY <1>1, <1>25 DEF TxCommit, RequestsOK
  <2>2. Subject(r) \in Opportunity /\ input[r].stage \in Stage
    BY <1>1, <1>25 DEF TxCommit, AskedInv, Subject, RequestsOK, Input
  <2>3. Fit
    BY <1>1, <1>25, <2>2 DEF TxCommit, Fit, DocsOK
  <2>4. lost' \in [Req -> BOOLEAN]
    BY <1>3, <1>25 DEF TxCommit
  <2> QED BY <2>1, <2>3, <2>4
<1>26. CASE CreateActivity(r)
  <2>1. Subject(r) \in Doc /\ status[Subject(r)] # "absent"
    BY <1>4, <1>26 DEF CreateActivity, Does, AskedInv, Subject
  <2>2. Fit
    BY <1>1, <1>26, <2>1 DEF CreateActivity, Fit, DocsOK, Mentionable, Doc
  <2> QED BY <1>1, <1>26, <2>2 DEF CreateActivity
<1> QED
  BY <1>15, <1>16, <1>17, <1>18, <1>19, <1>20, <1>21, <1>22, <1>23, <1>24, <1>25, <1>26 DEF Serve

LEMMA AskTypes ==
  ASSUME CrmTypeOK, AskedInv, NEW r \in Req, NEW request, AskedFor(request), Ask(r, request)
  PROVE  /\ CrmTypeOK' /\ AskedInv'
         /\ pc'[r] = FirstStep(request) /\ input'[r] = request
         /\ todo'[r] = IF FirstStep(request) = "uses" THEN {"contacts", "opportunities"} ELSE {}
<1>1. RequestsOK /\ DocsOK /\ lost \in [Req -> BOOLEAN] /\ asked \in Nat
  BY CrmTypes
<1>2. FirstStep(request) \in {"load", "contact", "organization", "uses", "write"}
  BY FirstSteps
<1>3. request \in Input
  BY DEF AskedFor
<1>4. RequestsOK'
  BY <1>1, <1>2, <1>3 DEF Ask, RequestsOK, CrmSteps, CrmWork
<1>5. DocsOK'
  BY <1>1 DEF Ask, docs, DocsOK
<1>6. lost' \in [Req -> BOOLEAN]
  BY <1>1 DEF Ask
<1>7. counters' = counters /\ alone' \subseteq Req /\ asked' \in Nat
  BY <1>1 DEF Ask
<1>8. CrmTypeOK'
  BY <1>4, <1>5, <1>6, <1>7, CrmTypes DEF CrmTypeOK, DocsOK, RequestsOK, CrmSteps, CrmWork
<1>9. /\ pc'[r] = FirstStep(request) /\ input'[r] = request
      /\ todo'[r] = IF FirstStep(request) = "uses" THEN {"contacts", "opportunities"} ELSE {}
      /\ \A q \in Req \ {r} : pc'[q] = pc[q] /\ input'[q] = input[q] /\ todo'[q] = todo[q]
      /\ status' = status
  BY <1>1 DEF Ask, RequestsOK, docs
<1>10. /\ FirstStep(request) = "load" /\ request.kind = "update" =>
            request.doc \in Contact \cup Organization
       /\ FirstStep(request) = "contact" =>
            request.kind \in {"create", "update"} /\ request.doc \in Opportunity
       /\ FirstStep(request) = "organization" =>
            request.kind \in {"create", "update"} /\ request.doc \in Contact \cup Opportunity
       /\ FirstStep(request) = "uses" => request.kind = "delete"
       /\ FirstStep(request) = "write" => request.kind \notin {"stage", "activity"}
  BY DEF FirstStep, AskedFor, Kinds, Doc
<1>11. AskedInv'
  BY <1>2, <1>9, <1>10 DEF AskedInv, AskedFor
<1> QED BY <1>8, <1>9, <1>11

LEMMA ServeAsked ==
  ASSUME CrmTypeOK, AskedInv, NEW r \in Req, Serve(r) \/ Fail(r)
  PROVE  AskedInv'
<1> DEFINE OfRequest ==
      /\ pc[r] # "idle" => input[r].kind \in Kinds /\ input[r].doc \in Doc
      /\ input[r].contact \in Contact \cup {None, Keep}
      /\ input[r].organization \in Organization \cup {None, Keep}
      /\ input[r].doc \in Organization => input[r].organization = Keep
      /\ input[r].kind = "stage" => input[r].doc \in Opportunity
    OfStep ==
      /\ pc[r] = "load" /\ input[r].kind = "update" => input[r].doc \in Contact \cup Organization
      /\ pc[r] = "contact" => input[r].kind \in {"create", "update"} /\ input[r].doc \in Opportunity
      /\ pc[r] = "organization" =>
           input[r].kind \in {"create", "update"} /\ input[r].doc \in Contact \cup Opportunity
      /\ pc[r] = "uses" => input[r].kind = "delete" /\ todo[r] \subseteq {"contacts", "opportunities"}
      /\ pc[r] = "write" => input[r].kind # "stage"
      /\ pc[r] = "write" /\ input[r].kind = "activity" => status[input[r].doc] # "absent"
      /\ pc[r] = "count" => todo[r] \subseteq Field
      /\ pc[r] = "commit" => input[r].kind = "stage"
<1>1. RequestsOK
  BY CrmTypes
<1>2. OfRequest /\ OfStep
  BY DEF AskedInv
<1>3. End(r) => pc'[r] = "idle" /\ input'[r] = NoInput
  BY <1>1 DEF End, RequestsOK
<1>4. ASSUME pc'[r] = "idle" /\ input'[r] = NoInput PROVE OfRequest' /\ OfStep'
  BY <1>4, CrmAssumption DEF NoInput, Doc
<1>5. ASSUME input'[r] = input[r], pc[r] # "idle" PROVE OfRequest'
  BY <1>2, <1>5
<1>6. \A step : GoOn(r, step) => pc'[r] = step /\ input'[r] = input[r] /\ todo'[r] = todo[r]
  BY <1>1 DEF GoOn, RequestsOK
<1>7. \A step, what : CountNext(r, step, what) => pc'[r] = step /\ input'[r] = input[r] /\ todo'[r] = what
  BY <1>1 DEF CountNext, RequestsOK
<1>8. \A q \in Req \ {r} : /\ pc'[q] = pc[q] /\ input'[q] = input[q]
                           /\ counts'[q] = counts[q] /\ todo'[q] = todo[q]
  BY ServeMoves
<1>9. /\ pc[r] # "idle"
      /\ \A d \in Doc : status[d] # "absent" => status'[d] # "absent"
  BY ServeMoves, ServeWrites
<1>10. input[r].doc \in Doc
  BY <1>2, <1>9
<1> DEFINE Fit == OfRequest' /\ OfStep'
           Stay == input'[r] = input[r]
<1>11. End(r) => Fit
  BY <1>3, <1>4
<1>12. ASSUME Stay, pc'[r] \in {"sync", "record"} PROVE Fit
  BY <1>2, <1>9, <1>12
<1> SUFFICES Fit
  BY <1>8, <1>9 DEF AskedInv
<1>13. CASE Fail(r) \/ RecordAuditLog(r)
  BY <1>11, <1>13 DEF Fail, RecordAuditLog
<1>14. CASE CheckContact(r)
  <2>1. CASE GoOn(r, "organization")
    BY <1>2, <1>6, <1>9, <1>14, <2>1 DEF CheckContact
  <2> QED BY <1>11, <1>14, <2>1 DEF CheckContact
<1>15. CASE CheckOrganization(r)
  <2>1. CASE GoOn(r, "write")
    BY <1>2, <1>6, <1>9, <1>15, <2>1 DEF CheckOrganization
  <2> QED BY <1>11, <1>15, <2>1 DEF CheckOrganization
<1>16. CASE LoadForUpdate(r)
  <2>1. CASE GoOn(r, IF Subject(r) \in Contact THEN "organization" ELSE "write")
    BY <1>2, <1>6, <1>9, <1>16, <2>1 DEF LoadForUpdate, Does, Subject
  <2> QED BY <1>11, <1>16, <2>1 DEF LoadForUpdate
<1>17. ASSUME CountNext(r, "count", Field) PROVE Fit
  BY <1>2, <1>7, <1>9, <1>17
<1>18. CASE CreateContact(r) \/ CreateOrganization(r) \/ CreateOpportunity(r)
  BY <1>17, <1>18 DEF CreateContact, CreateOrganization, CreateOpportunity, Insert
<1>19. CASE UpdateContact(r) \/ UpdateOrganization(r) \/ UpdateOpportunity(r)
  <2>1. End(r) \/ GoOn(r, "record")
    BY <1>19 DEF UpdateContact, UpdateOrganization, UpdateOpportunity, Patch
  <2> QED BY <1>6, <1>11, <1>12, <2>1
<1>20. CASE DeleteContact(r) \/ DeleteOrganization(r) \/ DeleteOpportunity(r)
  <2>1. End(r) \/ CountNext(r, "count", Field)
    BY <1>20 DEF DeleteContact, DeleteOrganization, DeleteOpportunity, Remove
  <2> QED BY <1>11, <1>17, <2>1
<1>21. CASE CountUses(r)
  <2>1. PICK what \in todo[r] :
          \/ End(r)
          \/ CountNext(r, IF todo[r] = {what} THEN "write" ELSE "uses", todo[r] \ {what})
    BY <1>21 DEF CountUses
  <2>2. CASE CountNext(r, IF todo[r] = {what} THEN "write" ELSE "uses", todo[r] \ {what})
    <3>1. input[r].kind = "delete" /\ todo[r] \subseteq {"contacts", "opportunities"}
      BY <1>2, <1>21 DEF CountUses
    <3>2. pc'[r] \in {"write", "uses"} /\ Stay /\ todo'[r] = todo[r] \ {what}
      BY <1>7, <2>2
    <3> QED BY <1>2, <1>9, <3>1, <3>2
  <2> QED BY <1>11, <2>1, <2>2
<1>22. CASE Count(r)
  <2>1. PICK f \in todo[r] :
          /\ todo' = [todo EXCEPT ![r] = @ \ {f}]
          /\ pc' = [pc EXCEPT ![r] = IF todo[r] = {f} THEN "sync" ELSE "count"]
    BY <1>22 DEF Count
  <2>2. /\ pc'[r] \in {"sync", "count"} /\ todo'[r] = todo[r] \ {f} /\ Stay
        /\ todo[r] \subseteq Field
    BY <1>1, <1>2, <1>22, <2>1 DEF RequestsOK, Count
  <2> QED BY <1>2, <1>9, <2>2
<1>23. CASE SyncCounters(r) \/ TxCommit(r) \/ CreateActivity(r)
  BY <1>6, <1>12, <1>23 DEF SyncCounters, TxCommit, CreateActivity
<1>24. CASE TxLoad(r)
  <2>1. CASE pc' = [pc EXCEPT ![r] = "commit"] /\ UNCHANGED <<input, todo>>
    <3>1. pc'[r] = "commit" /\ Stay /\ input[r].kind = "stage"
      BY <1>1, <1>24, <2>1 DEF RequestsOK, TxLoad, Does
    <3> QED BY <1>2, <1>9, <3>1
  <2> QED BY <1>11, <1>24, <2>1 DEF TxLoad
<1>25. CASE TxRetry(r)
  BY <1>2, <1>6, <1>9, <1>25 DEF TxRetry
<1>26. CASE AssertActivityReferences(r)
  <2>1. CASE Subject(r) \in Active /\ GoOn(r, "write")
    <3>1. pc'[r] = "write" /\ Stay /\ input[r].kind = "activity" /\ status[input[r].doc] # "absent"
      BY <1>6, <1>26, <2>1 DEF AssertActivityReferences, Does, Subject, Active
    <3> QED BY <1>2, <1>9, <1>10, <3>1
  <2> QED BY <1>11, <1>26, <2>1 DEF AssertActivityReferences
<1> QED
  BY <1>13, <1>14, <1>15, <1>16, <1>18, <1>19, <1>20, <1>21, <1>22, <1>23, <1>24, <1>25, <1>26 DEF Serve

LEMMA AskAlone ==
  ASSUME CrmTypeOK, AskedInv, NEW r \in Req, NEW request, AskedFor(request), Ask(r, request)
  PROVE  AloneInv'
<1> SUFFICES ASSUME NEW q \in alone'
             PROVE  (\A p \in Req \ {q} : pc'[p] = "idle") /\ FoundInv(q)' /\ CountedInv(q)'
  BY DEF AloneInv
<1>1. q = r /\ \A p \in Req : pc[p] = "idle"
  BY DEF Ask
<1>2. /\ pc'[r] = FirstStep(request) /\ input'[r] = request
      /\ todo'[r] = IF FirstStep(request) = "uses" THEN {"contacts", "opportunities"} ELSE {}
  BY AskTypes
<1>3. \A p \in Req \ {r} : pc'[p] = "idle"
  BY <1>1, CrmTypes DEF Ask, RequestsOK
<1>4. CountedInv(r)'
  BY <1>2, FirstSteps DEF CountedInv
<1>5. /\ FirstStep(request) = "write" /\ request.kind \in {"create", "update"} =>
           request.organization = Keep
      /\ FirstStep(request) = "write" /\ request.kind = "delete" => request.doc \notin Organization
  BY DEF FirstStep, AskedFor, Kinds, Doc
<1>6. FoundInv(r)'
  BY <1>2, <1>5 DEF FoundInv, Subject
<1> QED BY <1>1, <1>3, <1>4, <1>6

\* Finds and counts depend on the documents alone.
LEMMA FindsStay ==
  ASSUME UNCHANGED docs
  PROVE  /\ Active' = Active
         /\ \A o, what : Users(o, what)' = Users(o, what)
         /\ \A f \in Field : Counted(f, stage)' = Counted(f, stage)
         /\ Snapshot(stage)' = Snapshot(stage)
<1>1. status' = status /\ stage' = stage /\ organization' = organization
  BY DEF docs
<1>2. Active' = Active
  BY <1>1 DEF Active
<1>3. \A o, what : Users(o, what)' = Users(o, what)
  BY <1>1, <1>2 DEF Users
<1>4. \A f \in Field : Counted(f, stage)' = Counted(f, stage)
  BY <1>1, <1>2 DEF Counted, Field
<1>5. Snapshot(stage)' = Snapshot(stage)
  BY <1>4 DEF Snapshot
<1> QED BY <1>2, <1>3, <1>4, <1>5

LEMMA ServeAlone ==
  ASSUME CrmTypeOK, AskedInv, AloneInv, NEW r \in Req, Serve(r) \/ Fail(r)
  PROVE  AloneInv'
<1> DEFINE Fit == FoundInv(r)' /\ CountedInv(r)'
<1>1. RequestsOK /\ DocsOK
  BY CrmTypes
<1>2. /\ pc[r] # "idle" /\ alone' = alone
      /\ \A q \in Req \ {r} : pc'[q] = pc[q]
  BY ServeMoves
<1>3. ASSUME r \notin alone PROVE AloneInv'
  BY <1>2, <1>3 DEF AloneInv, CrmTypeOK
<1>4. ASSUME r \in alone, Fit PROVE AloneInv'
  <2>1. \A q \in Req \ {r} : pc'[q] = "idle"
    BY <1>2, <1>4 DEF AloneInv
  <2>2. \A q \in alone : q = r
    BY <1>2, <1>4 DEF AloneInv, CrmTypeOK
  <2> QED BY <1>2, <1>4, <2>1, <2>2 DEF AloneInv
<1> SUFFICES ASSUME r \in alone PROVE Fit
  BY <1>3, <1>4
<1>5. FoundInv(r) /\ CountedInv(r)
  BY DEF AloneInv
<1>6. ASSUME pc'[r] \in {"idle", "load", "contact", "organization"} PROVE Fit
  BY <1>6 DEF FoundInv, CountedInv
<1>7. End(r) => pc'[r] = "idle"
  BY <1>1 DEF End, RequestsOK
<1>8. \A step : GoOn(r, step) => /\ pc'[r] = step /\ input'[r] = input[r] /\ todo'[r] = todo[r]
                                 /\ counts'[r] = counts[r]
  BY <1>1 DEF GoOn, RequestsOK
<1>9. \A step, what : CountNext(r, step, what) =>
        pc'[r] = step /\ input'[r] = input[r] /\ todo'[r] = what /\ counts'[r] = counts[r]
  BY <1>1 DEF CountNext, RequestsOK
<1>10. End(r) => Fit
  BY <1>6, <1>7
<1>11. CountNext(r, "count", Field) => Fit
  BY <1>9 DEF FoundInv, CountedInv
<1> HIDE DEF Fit
<1>12. CASE Fail(r) \/ RecordAuditLog(r)
  BY <1>10, <1>12 DEF Fail, RecordAuditLog
<1>13. CASE CheckContact(r)
  BY <1>6, <1>8, <1>10, <1>13 DEF CheckContact
<1>14. CASE CheckOrganization(r)
  <2>1. CASE input[r].organization \in {None, Keep} \cup Active /\ GoOn(r, "write")
    <3>1. pc'[r] = "write" /\ input'[r] = input[r] /\ input[r].kind \in {"create", "update"}
      BY <1>8, <1>14, <2>1 DEF CheckOrganization, AskedInv
    <3>2. Active' = Active
      BY <1>14, FindsStay DEF CheckOrganization
    <3> QED BY <2>1, <3>1, <3>2 DEF Fit, FoundInv, CountedInv
  <2> QED BY <1>10, <1>14, <2>1 DEF CheckOrganization
<1>15. CASE LoadForUpdate(r)
  <2>1. CASE GoOn(r, IF Subject(r) \in Contact THEN "organization" ELSE "write")
    <3>1. input[r].kind = "update" /\ (Subject(r) \notin Contact => input[r].organization = Keep)
      BY <1>15 DEF LoadForUpdate, Does, AskedInv, Subject
    <3>2. CASE Subject(r) \in Contact
      BY <1>6, <1>8, <2>1, <3>2
    <3>3. CASE Subject(r) \notin Contact
      <4>1. pc'[r] = "write" /\ input'[r] = input[r]
        BY <1>8, <2>1, <3>3
      <4> QED BY <3>1, <3>3, <4>1 DEF Fit, FoundInv, CountedInv
    <3> QED BY <3>2, <3>3
  <2> QED BY <1>10, <1>15, <2>1 DEF LoadForUpdate
<1>16. CASE CreateContact(r) \/ CreateOrganization(r) \/ CreateOpportunity(r)
  BY <1>11, <1>16 DEF CreateContact, CreateOrganization, CreateOpportunity, Insert
<1>17. CASE UpdateContact(r) \/ UpdateOrganization(r) \/ UpdateOpportunity(r)
  <2>1. Patch(r)
    BY <1>17 DEF UpdateContact, UpdateOrganization, UpdateOpportunity
  <2>2. CASE GoOn(r, "record")
    <3>1. pc'[r] = "record" /\ input'[r].kind = "update"
      BY <1>8, <2>1, <2>2 DEF Patch, Does
    <3> QED BY <3>1 DEF Fit, FoundInv, CountedInv
  <2> QED BY <1>10, <2>1, <2>2 DEF Patch
<1>18. CASE DeleteContact(r) \/ DeleteOrganization(r) \/ DeleteOpportunity(r)
  BY <1>10, <1>11, <1>18 DEF DeleteContact, DeleteOrganization, DeleteOpportunity, Remove
<1>19. CASE CountUses(r)
  <2>1. PICK what \in todo[r] :
          \/ End(r)
          \/ /\ Users(Subject(r), what) = {}
             /\ CountNext(r, IF todo[r] = {what} THEN "write" ELSE "uses", todo[r] \ {what})
    BY <1>19 DEF CountUses
  <2>2. CASE /\ Users(Subject(r), what) = {}
             /\ CountNext(r, IF todo[r] = {what} THEN "write" ELSE "uses", todo[r] \ {what})
    <3>1. Active' = Active /\ organization' = organization
      BY <1>19, FindsStay DEF CountUses, docs
    <3>2. pc[r] = "uses" /\ input[r].kind = "delete"
      BY <1>19 DEF CountUses, AskedInv
    <3>3. /\ input'[r] = input[r] /\ todo'[r] = todo[r] \ {what}
          /\ pc'[r] = IF todo[r] = {what} THEN "write" ELSE "uses"
      BY <1>9, <2>2
    <3>4. \A w \in {"contacts", "opportunities"} \ todo'[r] : Users(Subject(r), w) = {}
      BY <1>5, <2>2, <3>2, <3>3 DEF FoundInv
    <3>5. \A w \in {"contacts", "opportunities"} \ todo'[r] : Users(Subject(r), w)' = {}
      <4>1. Subject(r)' = Subject(r)
        BY <3>3 DEF Subject
      <4> QED BY <3>1, <3>4, <4>1 DEF Users
    <3>6. FoundInv(r)'
      <4>1. CASE todo[r] = {what}
        BY <3>2, <3>3, <3>5, <4>1 DEF FoundInv
      <4>2. CASE todo[r] # {what}
        BY <3>3, <3>5, <4>2 DEF FoundInv
      <4> QED BY <4>1, <4>2
    <3> QED BY <3>3, <3>6 DEF Fit, CountedInv
  <2> QED BY <1>10, <2>1, <2>2
<1>20. CASE Count(r)
  <2>1. PICK f \in todo[r] :
          /\ counts' = [counts EXCEPT ![r][f] = Cardinality(Counted(f, stage))]
          /\ todo' = [todo EXCEPT ![r] = @ \ {f}]
          /\ pc' = [pc EXCEPT ![r] = IF todo[r] = {f} THEN "sync" ELSE "count"]
    BY <1>20 DEF Count
  <2>2. todo[r] \subseteq Field /\ pc[r] = "count" /\ UNCHANGED docs
    BY <1>20 DEF Count, AskedInv
  <2>3. /\ counts'[r] = [counts[r] EXCEPT ![f] = Cardinality(Counted(f, stage))]
        /\ todo'[r] = todo[r] \ {f}
        /\ pc'[r] = IF todo[r] = {f} THEN "sync" ELSE "count"
    BY <1>1, <2>1 DEF RequestsOK
  <2>4. counts[r] \in [Field -> Nat]
    BY <1>1 DEF RequestsOK, Counters
  <2>5. \A g \in Field \ todo'[r] : counts'[r][g] = Cardinality(Counted(g, stage))
    BY <1>5, <2>2, <2>3, <2>4 DEF CountedInv
  <2>6. \A g \in Field : Counted(g, stage)' = Counted(g, stage)
    BY <2>2, FindsStay
  <2>7. \A g \in Field \ todo'[r] : counts'[r][g] = Cardinality(Counted(g, stage)')
    BY <2>5, <2>6
  <2>8. CASE pc'[r] = "count"
    BY <2>7, <2>8 DEF Fit, FoundInv, CountedInv
  <2>9. CASE pc'[r] = "sync" /\ todo[r] = {f}
    <3>1. counts'[r] = [g \in Field |-> counts'[r][g]]
      BY <2>3, <2>4
    <3>2. \A g \in Field : counts'[r][g] = Cardinality(Counted(g, stage))
      BY <2>3, <2>5, <2>9
    <3>3. counts'[r] = Snapshot(stage)
      BY <3>1, <3>2 DEF Snapshot
    <3>4. Snapshot(stage)' = Snapshot(stage)
      BY <2>2, FindsStay
    <3> QED BY <2>9, <3>3, <3>4 DEF Fit, FoundInv, CountedInv
  <2> QED BY <2>3, <2>8, <2>9
<1>21. CASE SyncCounters(r)
  <2>1. counters' = Snapshot(stage) /\ pc'[r] = "record"
    BY <1>5, <1>8, <1>21 DEF SyncCounters, CountedInv
  <2>2. Snapshot(stage)' = Snapshot(stage)
    BY <1>21, FindsStay DEF SyncCounters
  <2> QED BY <2>1, <2>2 DEF Fit, FoundInv, CountedInv
<1>22. CASE TxLoad(r)
  <2>1. CASE /\ counts' = [counts EXCEPT ![r] =
                             Snapshot([stage EXCEPT ![Subject(r)] = input[r].stage])]
             /\ pc' = [pc EXCEPT ![r] = "commit"]
             /\ UNCHANGED <<input, todo>>
    <3>1. /\ counts'[r] = Snapshot([stage EXCEPT ![Subject(r)] = input[r].stage])
          /\ pc'[r] = "commit" /\ Subject(r)' = Subject(r) /\ input' = input
      BY <1>1, <2>1 DEF RequestsOK, Subject
    <3>2. stage' = stage /\ status' = status
      BY <1>22 DEF TxLoad, docs
    <3>3. Snapshot([stage EXCEPT ![Subject(r)] = input[r].stage])'
            = Snapshot([stage EXCEPT ![Subject(r)] = input[r].stage])
      BY <3>1, <3>2 DEF Snapshot, Counted, Active, Subject
    <3> QED BY <3>1, <3>3 DEF Fit, FoundInv, CountedInv
  <2> QED BY <1>10, <1>22, <2>1 DEF TxLoad
<1>23. CASE TxCommit(r)
  <2>1. /\ counters' = Snapshot([stage EXCEPT ![Subject(r)] = input[r].stage])
        /\ pc'[r] = "record"
        /\ status' = status
        /\ stage' = [stage EXCEPT ![Subject(r)] = input[r].stage]
    BY <1>5, <1>8, <1>23 DEF TxCommit, CountedInv
  <2>2. Snapshot(stage)' = Snapshot([stage EXCEPT ![Subject(r)] = input[r].stage])
    BY <2>1 DEF Snapshot, Counted, Active
  <2> QED BY <2>1, <2>2 DEF Fit, FoundInv, CountedInv
<1>24. CASE TxRetry(r)
  BY <1>6, <1>8, <1>24 DEF TxRetry
<1>25. CASE AssertActivityReferences(r)
  <2>1. CASE GoOn(r, "write")
    <3>1. pc'[r] = "write" /\ input'[r].kind = "activity"
      BY <1>8, <1>25, <2>1 DEF AssertActivityReferences, Does
    <3> QED BY <3>1 DEF Fit, FoundInv, CountedInv
  <2> QED BY <1>10, <1>25, <2>1 DEF AssertActivityReferences
<1>26. CASE CreateActivity(r)
  <2>1. pc'[r] = "record" /\ input'[r].kind = "activity"
    BY <1>8, <1>26 DEF CreateActivity, Does
  <2> QED BY <2>1 DEF Fit, FoundInv, CountedInv
<1> QED
  BY <1>12, <1>13, <1>14, <1>15, <1>16, <1>17, <1>18, <1>19, <1>20, <1>21, <1>22, <1>23, <1>24,
     <1>25, <1>26 DEF Serve

LEMMA CrmStepOK == CrmInv /\ [CrmNext]_crmVars => CrmInv'
<1> SUFFICES ASSUME CrmInv, [CrmNext]_crmVars PROVE CrmInv'
  OBVIOUS
<1>1. CASE UNCHANGED crmVars
  <2>1. UNCHANGED docs /\ UNCHANGED <<counters, pc, input, seen, counts, todo, lost, alone, asked>>
    BY <1>1 DEF crmVars, requests
  <2>2. CrmTypeOK' /\ AskedInv'
    BY <2>1 DEF CrmInv, CrmTypeOK, AskedInv, docs
  <2>3. AloneInv'
    <3>1. ASSUME NEW r \in alone PROVE FoundInv(r)' /\ CountedInv(r)'
      <4>1. FoundInv(r) /\ CountedInv(r)
        BY DEF CrmInv, AloneInv
      <4>2. FoundInv(r)'
        BY <2>1, <4>1 DEF FoundInv, Subject, Users, Active, docs
      <4>3. Snapshot([stage EXCEPT ![Subject(r)] = input[r].stage])'
              = Snapshot([stage EXCEPT ![Subject(r)] = input[r].stage])
        BY <2>1 DEF Snapshot, Counted, Active, Subject, docs
      <4>4. CountedInv(r)'
        BY <2>1, <4>1, <4>3, FindsStay DEF CountedInv
      <4> QED BY <4>2, <4>4
    <3> QED BY <2>1, <3>1 DEF CrmInv, AloneInv
  <2> QED BY <2>2, <2>3 DEF CrmInv
<1>2. ASSUME NEW r \in Req, Arrive(r) PROVE CrmInv'
  BY <1>2, ArriveAsks, AskTypes, AskAlone DEF CrmInv
<1>3. ASSUME NEW r \in Req, Serve(r) \/ Fail(r) PROVE CrmInv'
  <2>1. CrmTypeOK /\ AskedInv /\ AloneInv
    BY DEF CrmInv
  <2>2. DocsOK' /\ RequestsOK' /\ counters' \in Counters \cup {NoCounters}
    BY <1>3, <2>1, ServeMoves, ServeWrites
  <2>3. lost' \in [Req -> BOOLEAN]
    BY <1>3, <2>1, ServeWrites
  <2>4. alone' \subseteq Req /\ asked' \in Nat
    BY <1>3, <2>1, ServeMoves DEF CrmTypeOK
  <2>5. CrmTypeOK'
    BY <2>2, <2>3, <2>4 DEF CrmTypeOK, DocsOK, RequestsOK, CrmSteps, CrmWork
  <2> QED BY <1>3, <2>1, <2>5, ServeAsked, ServeAlone DEF CrmInv
<1> QED BY <1>1, <1>2, <1>3 DEF CrmNext

LEMMA CrmAlways == CrmSpec => []CrmInv
BY CrmInitOK, CrmStepOK, PTL DEF CrmSpec

\* The documents, the counters and the requests of the CRM always have their types, and an
\* activity is only about documents that have existed (crm.service.ts:1099).
THEOREM CrmTypeCorrect == CrmSpec => []CrmTypeOK
BY CrmAlways, PTL DEF CrmInv

\* A creation, deletion or change of stage that no other request overlaps leaves the stored
\* counters equal to a count of the documents (crm.service.ts:1184), for any number of
\* documents and whatever drift it started from.
THEOREM LoneSyncsHeal == CrmSpec => []LoneSyncHeals
<1>1. ASSUME CrmInv PROVE LoneSyncHeals
  <2>1. ASSUME NEW r \in alone, pc[r] = "record", input[r].kind \notin {"update", "activity"}
        PROVE  GetCounters = Snapshot(stage)
    <3>1. counters = Snapshot(stage)
      BY <1>1, <2>1 DEF CrmInv, AloneInv, CountedInv
    <3>2. counters # NoCounters
      <4>1. Snapshot(stage) \in Counters
        BY CountsAreNumbers
      <4> QED BY <3>1, <4>1, NoCountersAssumption DEF NoCountersAssumption
    <3> QED BY <3>1, <3>2 DEF GetCounters
  <2> QED BY <2>1 DEF LoneSyncHeals
<1> QED BY <1>1, CrmAlways, PTL

\* A step that leaves a reference dangling is a write of a request that is not alone.
LEMMA DanglingStep ==
  ASSUME CrmInv, [CrmNext]_crmVars, NEW d \in Contact \cup Opportunity, ~Dangling(d), Dangling(d)'
  PROVE  \E r \in Req \ alone : pc[r] = "write"
<1>1. CrmTypeOK /\ DocsOK /\ AskedInv /\ AloneInv
  BY CrmTypes DEF CrmInv
<1>2. organization[d] \in Organization \cup {None} /\ d \in Doc
  BY <1>1 DEF DocsOK, MaybeOrganization, Doc
<1>3. ~(status' = status /\ organization'[d] = organization[d])
  BY DEF Dangling, Active
<1>4. PICK r \in Req : Arrive(r) \/ Serve(r) \/ Fail(r)
  BY <1>3 DEF CrmNext, crmVars, docs
<1>5. ~Arrive(r)
  BY <1>3, ArriveAsks DEF Ask, docs
<1>6. ~Fail(r)
  BY <1>3 DEF Fail, docs
<1>7. /\ ~CheckContact(r) /\ ~CheckOrganization(r) /\ ~LoadForUpdate(r) /\ ~CountUses(r) /\ ~Count(r)
      /\ ~SyncCounters(r) /\ ~RecordAuditLog(r) /\ ~TxLoad(r) /\ ~TxCommit(r) /\ ~TxRetry(r)
      /\ ~AssertActivityReferences(r) /\ ~CreateActivity(r)
  BY <1>3 DEF CheckContact, CheckOrganization, LoadForUpdate, CountUses, Count, SyncCounters,
              RecordAuditLog, TxLoad, TxCommit, TxRetry, AssertActivityReferences, CreateActivity, docs
<1> SUFFICES ASSUME r \in alone PROVE FALSE
  <2>1. pc[r] = "write"
    BY <1>4, <1>5, <1>6, <1>7
       DEF Serve, CreateContact, CreateOrganization, CreateOpportunity, Insert, UpdateContact,
           UpdateOrganization, UpdateOpportunity, Patch, DeleteContact, DeleteOrganization,
           DeleteOpportunity, Remove, Does
  <2> QED BY <2>1
<1>8. FoundInv(r)
  BY <1>1 DEF AloneInv
<1>9. /\ d \in Active' /\ organization'[d] # None /\ organization'[d] \notin Active'
      /\ ~(d \in Active /\ organization[d] # None /\ organization[d] \notin Active)
  BY DEF Dangling
<1>10. CASE CreateContact(r) \/ CreateOrganization(r) \/ CreateOpportunity(r)
  <2>1. Insert(r) /\ pc[r] = "write" /\ input[r].kind = "create"
    BY <1>10 DEF CreateContact, CreateOrganization, CreateOpportunity, Insert, Does
  <2>2. Active' = Active \cup {Subject(r)}
    BY <1>1, <2>1 DEF Insert, DocsOK, Active, DocStatus, AskedInv, Subject
  <2>3. input[r].organization \in {None, Keep} \cup Active
    BY <1>8, <2>1 DEF FoundInv
  <2>4. CASE d = Subject(r) /\ d \notin Organization
    <3>1. organization'[d] = Given(input[r].organization)
      BY <1>1, <1>10, <2>4 DEF CreateContact, CreateOrganization, CreateOpportunity, DocsOK, Doc
    <3> QED BY <1>9, <2>2, <2>3, <3>1 DEF Given
  <2>5. CASE d # Subject(r)
    <3>1. organization'[d] = organization[d]
      BY <1>1, <1>10, <2>5 DEF CreateContact, CreateOrganization, CreateOpportunity, DocsOK
    <3> QED BY <1>9, <2>2, <2>5, <3>1
  <2> QED BY <2>4, <2>5, CrmAssumption
<1>11. CASE UpdateContact(r) \/ UpdateOrganization(r) \/ UpdateOpportunity(r)
  <2>1. Patch(r) /\ pc[r] = "write" /\ input[r].kind = "update"
    BY <1>11 DEF UpdateContact, UpdateOrganization, UpdateOpportunity, Patch, Does
  <2>2. Active' = Active
    BY <2>1 DEF Patch, Active
  <2>3. input[r].organization \in {None, Keep} \cup Active
    BY <1>8, <2>1 DEF FoundInv
  <2>4. organization'[d] = organization[d] \/ organization'[d] \in {None} \cup Active
    BY <1>1, <1>11, <2>3
       DEF UpdateContact, UpdateOrganization, UpdateOpportunity, Patched, DocsOK
  <2> QED BY <1>9, <2>2, <2>4
<1>12. CASE DeleteContact(r) \/ DeleteOrganization(r) \/ DeleteOpportunity(r)
  <2>1. Remove(r) /\ pc[r] = "write" /\ input[r].kind = "delete"
    BY <1>12 DEF DeleteContact, DeleteOrganization, DeleteOpportunity, Remove, Does
  <2>2. organization' = organization
    BY <2>1 DEF Remove
  <2>3. Active \ {Subject(r)} \subseteq Active' /\ Active' \subseteq Active
    BY <1>1, <2>1 DEF Remove, DocsOK, Active, AskedInv, Subject
  <2>4. organization[d] = Subject(r) /\ d \in Active /\ organization[d] \in Organization
    BY <1>2, <1>9, <2>2, <2>3
  <2>5. \A what \in {"contacts", "opportunities"} : d \notin Users(Subject(r), what)
    BY <1>8, <2>1, <2>4 DEF FoundInv
  <2> QED BY <2>4, <2>5 DEF Users
<1> QED
  BY <1>4, <1>5, <1>6, <1>7, <1>10, <1>11, <1>12 DEF Serve

\* A contact or an opportunity comes to refer to a deleted organization only in a race: by a
\* write of a request that another one has overlapped (crm.service.ts:711, 289, 888).
THEOREM DanglingTakesARace == CrmSpec => DanglingNeedsARace
<1> DEFINE Broken ==
      \A d \in Contact \cup Opportunity : ~Dangling(d) /\ Dangling(d)' =>
        \E r \in Req \ alone : pc[r] = "write"
<1>1. CrmInv /\ [CrmNext]_crmVars => Broken
  BY DanglingStep
<1>2. CrmInv /\ [CrmNext]_crmVars => [Broken]_crmVars
  BY <1>1
<1> QED BY <1>2, CrmAlways, PTL DEF CrmSpec, DanglingNeedsARace
=============================================================================
