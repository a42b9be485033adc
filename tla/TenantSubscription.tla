------------------------- MODULE TenantSubscription -------------------------
(***************************************************************************)
(* The subscription of one tenant: checkout sessions and provider webhooks *)
(* (BillingService), assignSubscription and cancelSubscription             *)
(* (TenantService), and the gate that every business request passes        *)
(* (resolveTenantContext.middleware), which suspends a tenant whose grace  *)
(* period is over.                                                         *)
(*                                                                         *)
(* A webhook stores its event first and applies it in a transaction that   *)
(* loads what it changes, so that transaction is one step here.  assign,   *)
(* cancel and the gate change a tenant document they loaded earlier.       *)
(*                                                                         *)
(* activeModuleKeys is always written together with planId, and stands for *)
(* it.  Time is not modelled: a gate may find the grace period over        *)
(* whenever it looks, and assign may find the checkout session expired.    *)
(* Signatures are checked before anything here and leave no state.         *)
(***************************************************************************)
EXTENDS Naturals, FiniteSets

CONSTANTS
  Req,        \* requests to the API, webhook deliveries among them
  Kinds,      \* what requests may ask for
  Checkout,   \* ids of billing_checkout_sessions documents
  Event,      \* provider event ids
  Payload,    \* what each event says
  Plan,       \* plan ids
  Catalog,    \* those that resolvePlan resolves
  NoPlan, NoCheckout, NoEvent,
  MaxAborts,  \* bound: transient transaction errors
  MaxLost     \* bound: requests that die or reject on a database error

AllKinds == {"checkout", "webhook", "assign", "cancel", "use"}
MaybePlan == Plan \cup {NoPlan}
MaybeCheckout == Checkout \cup {NoCheckout}

\* plan is NoPlan when the payload names none; key is buildWebhookIdempotencyKey.
Payloads == [type : {"paid", "failed", "canceled"}, checkout : MaybeCheckout,
             plan : MaybePlan, key : Nat]

ASSUME SubscriptionAssumption ==
  /\ Kinds \subseteq AllKinds
  /\ Payload \in [Event -> Payloads]
  /\ Catalog \subseteq Plan
  /\ NoPlan \notin Plan /\ NoCheckout \notin Checkout /\ NoEvent \notin Event
  /\ MaxAborts \in Nat /\ MaxLost \in Nat

VARIABLES
  tenant,    \* the tenant document: subscriptionStatus, planId and __v
  checkout,  \* the billing_checkout_sessions collection
  event,     \* the status of each billing_events document
  pc,        \* where each request is
  input,     \* what each request is about
  view,      \* the tenant document in each request's hands
  answer,    \* what each request answered
  moved,     \* requests that changed the tenant
  audited,   \* requests whose audit record is durable
  aborts, lost

vars == <<tenant, checkout, event, pc, input, view, answer, moved, audited, aborts, lost>>

Status == {"pending", "active", "grace", "suspended", "canceled", "reactivated"}
Settled == {"processed", "ignored", "failed"}

\* dirty: the paths Mongoose will send with the next save.
TenantDoc == [status : Status, plan : MaybePlan, version : Nat]
View == [status : Status, plan : MaybePlan, version : Nat, dirty : SUBSET {"status", "plan"}]
CheckoutDoc == [status : {"none", "pending", "activated", "failed", "canceled"},
                plan : MaybePlan]
Input == [kind : AllKinds \cup {"none"}, event : Event \cup {NoEvent},
          checkout : MaybeCheckout, plan : MaybePlan]

NoInput == [kind |-> "none", event |-> NoEvent, checkout |-> NoCheckout, plan |-> NoPlan]
NoView == [status |-> "pending", plan |-> NoPlan, version |-> 0, dirty |-> {}]

Over == {"done", "lost"}
PC == Over \cup {"idle", "lookup", "insert", "apply", "audit", "tx", "gate"}
Answers == {"none", "processed", "ignored", "duplicate", "ok", "rejected", "error"}

TypeOK ==
  /\ tenant \in TenantDoc
  /\ checkout \in [Checkout -> CheckoutDoc]
  /\ event \in [Event -> Settled \cup {"none", "received"}]
  /\ pc \in [Req -> PC]
  /\ input \in [Req -> Input]
  /\ view \in [Req -> View]
  /\ answer \in [Req -> Answers]
  /\ moved \subseteq Req
  /\ audited \subseteq Req
  /\ aborts \in Nat
  /\ lost \in Nat

Init ==
  /\ tenant = [status |-> "pending", plan |-> NoPlan, version |-> 0]
  /\ checkout = [c \in Checkout |-> [status |-> "none", plan |-> NoPlan]]
  /\ event = [e \in Event |-> "none"]
  /\ pc = [r \in Req |-> "idle"]
  /\ input = [r \in Req |-> NoInput]
  /\ view = [r \in Req |-> NoView]
  /\ answer = [r \in Req |-> "none"]
  /\ moved = {}
  /\ audited = {}
  /\ aborts = 0
  /\ lost = 0

At(r, step) == pc[r] = step
Goto(r, step) == pc' = [pc EXCEPT ![r] = step]
Answer(r, a) == Goto(r, "done") /\ answer' = [answer EXCEPT ![r] = a]

Start(r, kind, step) ==
  /\ kind \in Kinds
  /\ At(r, "idle")
  /\ Goto(r, step)

bounds == <<aborts, lost>>
docs == <<tenant, checkout, event>>

-----------------------------------------------------------------------------
(* Writing the tenant.  __v guards, and counts, the writes of the module    *)
(* list; a change of status alone carries no condition.                     *)

\* Mutated form of ActivationStatus: the name checkout sessions have for it.
ActivationStatusOfCheckout(previous) == "activated"

\* The status an activation leads to from the one before.
ActivationStatus(previous) ==
  IF previous \in {"canceled", "suspended", "grace"} THEN "reactivated" ELSE "active"

SetTenant(r, status, plan) ==
  /\ tenant' = [status |-> status, plan |-> plan,
                version |-> tenant.version + (IF plan = tenant.plan THEN 0 ELSE 1)]
  /\ moved' = IF tenant.status = status /\ tenant.plan = plan THEN moved ELSE moved \cup {r}

-----------------------------------------------------------------------------
(* Checkout.                                                                *)

\* createCheckoutSession: one insert, then the audit record through the outbox.
CreateCheckout(r, c, p) ==
  /\ Start(r, "checkout", "audit")
  /\ checkout[c].status = "none"
  /\ p \in Catalog
  /\ checkout' = [checkout EXCEPT ![c] = [status |-> "pending", plan |-> p]]
  /\ input' = [input EXCEPT ![r] = [NoInput EXCEPT !.kind = "checkout", !.checkout = c]]
  /\ answer' = [answer EXCEPT ![r] = "ok"]
  /\ UNCHANGED <<tenant, event, view, moved, audited, bounds>>

\* Mutated form of Audit: the recorder's errors are swallowed.
AuditSwallowed(r) ==
  /\ At(r, "audit")
  /\ audited' \in {audited, audited \cup {r}}
  /\ Goto(r, "done")
  /\ UNCHANGED <<docs, input, view, answer, moved, bounds>>

\* recordAuditLog without a session: the record is durable in the outbox.
Audit(r) ==
  /\ At(r, "audit")
  /\ audited' = audited \cup {r}
  /\ Goto(r, "done")
  /\ UNCHANGED <<docs, input, view, answer, moved, bounds>>

-----------------------------------------------------------------------------
(* processProviderWebhook.                                                  *)

\* The provider delivers an event, for the first time or again.
Receive(r, e) ==
  /\ Start(r, "webhook", "lookup")
  /\ input' = [input EXCEPT ![r] = [NoInput EXCEPT !.kind = "webhook", !.event = e]]
  /\ UNCHANGED <<docs, view, answer, moved, audited, bounds>>

EventOf(r) == input[r].event
Duplicates(e) == {f \in Event : \/ f = e /\ event[f] # "none"
                                \/ /\ Payload[f].key = Payload[e].key
                                   /\ event[f] \in {"processed", "ignored"}}

\* Both lookups.  What they look for never goes away, so one step stands for them.
LookUp(r) ==
  /\ At(r, "lookup")
  /\ \/ Duplicates(EventOf(r)) # {} /\ Answer(r, "duplicate")
     \/ Duplicates(EventOf(r)) = {} /\ Goto(r, "insert") /\ UNCHANGED answer
  /\ UNCHANGED <<docs, input, view, moved, audited, bounds>>

\* Mutated form of InsertEvent: no unique index on providerEventId.
InsertEventNoIndex(r) ==
  /\ At(r, "insert")
  /\ event' = [event EXCEPT ![EventOf(r)] = "received"]
  /\ Goto(r, "apply")
  /\ UNCHANGED <<tenant, checkout, input, view, answer, moved, audited, bounds>>

\* The unique index on providerEventId lets one delivery in; the others find the
\* event by its key and answer duplicate.
InsertEvent(r) ==
  /\ At(r, "insert")
  /\ \/ /\ event[EventOf(r)] = "none"
        /\ event' = [event EXCEPT ![EventOf(r)] = "received"]
        /\ Goto(r, "apply")
        /\ UNCHANGED answer
     \/ /\ event[EventOf(r)] # "none"
        /\ Answer(r, "duplicate")
        /\ UNCHANGED event
  /\ UNCHANGED <<tenant, checkout, input, view, moved, audited, bounds>>

Found(c) == c # NoCheckout /\ checkout[c].status # "none"
PlanOf(e) == IF Payload[e].plan # NoPlan THEN Payload[e].plan
             ELSE checkout[Payload[e].checkout].plan

SettleEvent(r, status) == event' = [event EXCEPT ![EventOf(r)] = status]

\* No checkout session matches the payload: the event is kept and ignored.
IgnoreEvent(r) ==
  /\ At(r, "apply")
  /\ ~Found(Payload[EventOf(r)].checkout)
  /\ SettleEvent(r, "ignored")
  /\ Answer(r, "ignored")
  /\ UNCHANGED <<tenant, checkout, input, view, moved, audited, bounds>>

\* The transaction of processPaidWebhook.
ApplyPaid(r) ==
  LET e == EventOf(r)
      c == Payload[e].checkout
  IN /\ At(r, "apply")
     /\ Payload[e].type = "paid"
     /\ Found(c)
     /\ \/ /\ PlanOf(e) \in Catalog
           /\ SetTenant(r, ActivationStatus(tenant.status), PlanOf(e))
           /\ checkout' = [checkout EXCEPT ![c] = [status |-> "activated", plan |-> PlanOf(e)]]
           /\ SettleEvent(r, "processed")
           /\ Goto(r, "audit") /\ answer' = [answer EXCEPT ![r] = "processed"]
        \/ /\ PlanOf(e) \notin Catalog
           /\ checkout' = [checkout EXCEPT ![c].status = "failed"]
           /\ SettleEvent(r, "failed")
           /\ Answer(r, "ignored")
           /\ UNCHANGED <<tenant, moved>>
     /\ UNCHANGED <<input, view, audited, bounds>>

\* Mutated form of ApplyTerminal: the event is not saved with the rest.
ApplyTerminalOnly(r) ==
  LET e == EventOf(r)
      c == Payload[e].checkout
  IN /\ At(r, "apply")
     /\ Payload[e].type # "paid"
     /\ Found(c)
     /\ SetTenant(r, IF Payload[e].type = "failed" THEN "grace" ELSE "suspended", tenant.plan)
     /\ checkout' = [checkout EXCEPT ![c].status = Payload[e].type]
     /\ Goto(r, "audit") /\ answer' = [answer EXCEPT ![r] = "processed"]
     /\ UNCHANGED <<event, input, view, audited, bounds>>

\* The transaction of processTerminalWebhook, whatever the checkout or the tenant was.
ApplyTerminal(r) ==
  LET e == EventOf(r)
      c == Payload[e].checkout
  IN /\ At(r, "apply")
     /\ Payload[e].type # "paid"
     /\ Found(c)
     /\ SetTenant(r, IF Payload[e].type = "failed" THEN "grace" ELSE "suspended", tenant.plan)
     /\ checkout' = [checkout EXCEPT ![c].status = Payload[e].type]
     /\ SettleEvent(r, "processed")
     /\ Goto(r, "audit") /\ answer' = [answer EXCEPT ![r] = "processed"]
     /\ UNCHANGED <<input, view, audited, bounds>>

-----------------------------------------------------------------------------
(* assignSubscription and cancelSubscription.                               *)

Loaded == [status |-> tenant.status, plan |-> tenant.plan, version |-> tenant.version,
           dirty |-> {}]

\* Mutated form of AssignLoad: any checkout session of the tenant will do.
AssignLoadUnpaid(r, c) ==
  /\ Start(r, "assign", "tx")
  /\ Found(c)
  /\ input' = [input EXCEPT ![r] =
       [NoInput EXCEPT !.kind = "assign", !.checkout = c, !.plan = checkout[c].plan]]
  /\ view' = [view EXCEPT ![r] = Loaded]
  /\ UNCHANGED <<docs, answer, moved, audited, bounds>>

\* The owner asks for the plan of an activated checkout session; other requests
\* are refused, which changes nothing.
AssignLoad(r, c) ==
  /\ Start(r, "assign", "tx")
  /\ checkout[c].status = "activated"
  /\ input' = [input EXCEPT ![r] =
       [NoInput EXCEPT !.kind = "assign", !.checkout = c, !.plan = checkout[c].plan]]
  /\ view' = [view EXCEPT ![r] = Loaded]
  /\ UNCHANGED <<docs, answer, moved, audited, bounds>>

CancelLoad(r) ==
  /\ Start(r, "cancel", "tx")
  /\ input' = [input EXCEPT ![r] = [NoInput EXCEPT !.kind = "cancel"]]
  /\ view' = [view EXCEPT ![r] = Loaded]
  /\ UNCHANGED <<docs, answer, moved, audited, bounds>>

\* The tenant document after the callback's assignments: a path becomes dirty
\* when its value changes, and stays so until a save.
Edited(r) ==
  LET d == view[r]
      status == IF input[r].kind = "assign" THEN ActivationStatus(d.status) ELSE "canceled"
  IN [status |-> status, plan |-> input[r].plan, version |-> d.version,
      dirty |-> d.dirty \cup (IF status = d.status THEN {} ELSE {"status"})
                        \cup (IF input[r].plan = d.plan THEN {} ELSE {"plan"})]

Conflict(d) == "plan" \in d.dirty /\ d.version # tenant.version

\* The callback and its commit: the dirty paths and the audit record.  When the
\* module list is among them and has changed since, the save fails (VersionError).
Commit(r) ==
  LET d == Edited(r)
  IN /\ At(r, "tx")
     /\ IF Conflict(d)
        THEN Answer(r, "error") /\ UNCHANGED <<tenant, moved, audited>>
        ELSE /\ SetTenant(r, IF "status" \in d.dirty THEN d.status ELSE tenant.status,
                             IF "plan" \in d.dirty THEN d.plan ELSE tenant.plan)
             /\ audited' = audited \cup {r}
             /\ Answer(r, "ok")
     /\ UNCHANGED <<checkout, event, input, view, bounds>>

\* A transient error aborts the attempt before or after the save of the tenant;
\* the callback runs again on the same document, which a save has left clean.
Abort(r) ==
  /\ aborts < MaxAborts
  /\ aborts' = aborts + 1
  /\ At(r, "tx")
  /\ \/ view' = [view EXCEPT ![r] = Edited(r)]
     \/ ~Conflict(Edited(r)) /\ view' = [view EXCEPT ![r] = [Edited(r) EXCEPT !.dirty = {}]]
  /\ UNCHANGED <<docs, pc, input, answer, moved, audited, lost>>

-----------------------------------------------------------------------------
(* The gate: a request of a member for anything but checkout, assign or     *)
(* cancel.  It loads the tenant, awaits the authorization, then decides.    *)

GateLoad(r) ==
  /\ Start(r, "use", "gate")
  /\ input' = [input EXCEPT ![r] = [NoInput EXCEPT !.kind = "use"]]
  /\ view' = [view EXCEPT ![r] = Loaded]
  /\ UNCHANGED <<docs, answer, moved, audited, bounds>>

\* Access while active, reactivated or in grace.
Gate(r) ==
  /\ At(r, "gate")
  /\ Answer(r, IF view[r].status \in {"active", "reactivated", "grace"} THEN "ok"
               ELSE "rejected")
  /\ UNCHANGED <<docs, input, view, moved, audited, bounds>>

\* The grace period of the document it loaded is over: tenant.save(), then refusal.
GateSuspend(r) ==
  /\ At(r, "gate")
  /\ view[r].status = "grace"
  /\ SetTenant(r, "suspended", tenant.plan)
  /\ Answer(r, "rejected")
  /\ UNCHANGED <<checkout, event, input, view, audited, bounds>>

-----------------------------------------------------------------------------
\* The process dies or a database call rejects: no answer, or an error.
Lose(r) ==
  /\ lost < MaxLost
  /\ lost' = lost + 1
  /\ ~At(r, "idle") /\ pc[r] \notin Over
  /\ Goto(r, "lost")
  /\ answer' = [answer EXCEPT ![r] = "error"]
  /\ UNCHANGED <<docs, input, view, moved, audited, aborts>>

Webhook(r) == LookUp(r) \/ InsertEvent(r) \/ IgnoreEvent(r) \/ ApplyPaid(r) \/ ApplyTerminal(r)
Arrive(r) ==
  \/ \E c \in Checkout, p \in Plan : CreateCheckout(r, c, p)
  \/ \E e \in Event : Receive(r, e)
  \/ \E c \in Checkout : AssignLoad(r, c)
  \/ CancelLoad(r) \/ GateLoad(r)
Proceed(r) == Webhook(r) \/ Audit(r) \/ Commit(r) \/ Gate(r) \/ GateSuspend(r)

Next == \E r \in Req : Arrive(r) \/ Proceed(r) \/ Abort(r) \/ Lose(r)

Spec == Init /\ [][Next]_vars

\* A request that arrived is served: each await returns.
FairSpec == Spec /\ \A r \in Req : WF_vars(Proceed(r))

-----------------------------------------------------------------------------
(* Properties.                                                              *)

PaidProcessed(c) ==
  \E e \in Event : Payload[e].type = "paid" /\ Payload[e].checkout = c
                   /\ event[e] = "processed"

\* ADR-015: no path makes a tenant active, gives it a plan or activates a
\* checkout session without a processed payment, stale documents included.
PaymentEvidence ==
  /\ \A c \in Checkout : checkout[c].status = "activated" => PaidProcessed(c)
  /\ tenant.status \in {"active", "reactivated"} \/ tenant.plan # NoPlan =>
       \E c \in Checkout : PaidProcessed(c)

\* ADR-016: an event has one outcome, which no redelivery changes or applies again.
SettledEventsStay ==
  [][/\ \A e \in Event : event[e] \in Settled => event'[e] = event[e]
     /\ \A r \in Req : At(r, "apply") /\ pc'[r] \in {"audit", "done"} =>
          event[EventOf(r)] = "received" /\ event'[EventOf(r)] \in Settled]_vars

\* An event that was stored gets its outcome, unless the request that stored it
\* was lost: nothing else picks it up (processProviderWebhook).
StoredEventsSettle ==
  \A e \in Event : event[e] = "received" ~>
    event[e] \in Settled \/ \E r \in Req : At(r, "lost") /\ EventOf(r) = e

\* ADR-016: a webhook, an assignment or a cancelation that changed the subscription
\* and was answered has left its audit record, in its transaction or after it.  (The
\* end of a grace period leaves none, and a lost webhook request may not.)
AnsweredIsAudited ==
  \A r \in moved : At(r, "done") /\ input[r].kind # "use" => r \in audited
=============================================================================
