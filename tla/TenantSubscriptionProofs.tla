---------------------- MODULE TenantSubscriptionProofs ----------------------
(***************************************************************************)
(* Proofs about TenantSubscription, for any requests, events, checkouts,   *)
(* plans, payloads and bounds.                                             *)
(*                                                                         *)
(* PaymentEvidence is not inductive for two reasons.  A commit writes what *)
(* its request computed from an old document, so the invariant follows the *)
(* requests in a transaction (OwnerInv); and evidence must not go away,    *)
(* which needs that an event being applied is in no other request's hands  *)
(* (EventInv), the work of the unique index on providerEventId.            *)
(***************************************************************************)
EXTENDS TenantSubscription, TLAPS

Paid == \E c \in Checkout : PaidProcessed(c)

\* A delivery that applies an event owns it.
EventInv ==
  \A r \in Req : At(r, "apply") =>
    /\ EventOf(r) \in Event
    /\ event[EventOf(r)] = "received"
    /\ \A q \in Req : At(q, "apply") /\ EventOf(q) = EventOf(r) => q = r

\* A delivery past the lookup has an event to insert.
InsertInv == \A r \in Req : pc[r] \in {"lookup", "insert"} => EventOf(r) \in Event

\* What assign and cancel are about to write.
OwnerInv ==
  \A r \in Req : At(r, "tx") => \/ input[r].kind = "assign" /\ Paid
                                \/ input[r].kind = "cancel" /\ input[r].plan = NoPlan

Inv == TypeOK /\ EventInv /\ InsertInv /\ OwnerInv /\ PaymentEvidence

USE SubscriptionAssumption

-----------------------------------------------------------------------------
\* Every event's payload, and what the helpers return.
LEMMA PayloadType ==
  ASSUME NEW e \in Event
  PROVE  /\ Payload[e].type \in {"paid", "failed", "canceled"}
         /\ Payload[e].checkout \in MaybeCheckout
         /\ Payload[e].plan \in MaybePlan
BY DEF Payloads

LEMMA ActivationType == \A s : ActivationStatus(s) \in {"active", "reactivated"}
BY DEF ActivationStatus

\* Writing the tenant keeps its type, and moves nobody else.
LEMMA SetTenantType ==
  ASSUME TypeOK, NEW r \in Req, NEW s \in Status, NEW p \in MaybePlan, SetTenant(r, s, p)
  PROVE  tenant' \in TenantDoc /\ moved' \subseteq Req
BY DEF TypeOK, SetTenant, TenantDoc

LEMMA EditedType ==
  ASSUME TypeOK, NEW r \in Req
  PROVE  Edited(r) \in View
<1>1. view[r] \in View /\ input[r] \in Input
  BY DEF TypeOK
<1>2. ActivationStatus(view[r].status) \in Status
  BY ActivationType DEF Status
<1> QED BY <1>1, <1>2 DEF Edited, View, Input, Status

LEMMA TypeInit == Init => TypeOK
BY DEF Init, TypeOK, TenantDoc, CheckoutDoc, Status, Input, View, NoInput, NoView, PC, Over,
   Answers, MaybePlan, MaybeCheckout, AllKinds

-----------------------------------------------------------------------------
(* Types, one lemma per group of actions.                                   *)

\* A request moves on and may answer.
LEMMA MoveType ==
  ASSUME TypeOK, NEW r \in Req
  PROVE  /\ \A step \in PC : Goto(r, step) => pc' \in [Req -> PC]
         /\ \A a \in Answers : Answer(r, a) =>
              pc' \in [Req -> PC] /\ answer' \in [Req -> Answers]
         /\ \A a \in Answers : [answer EXCEPT ![r] = a] \in [Req -> Answers]
BY DEF TypeOK, Goto, Answer, PC, Over

LEMMA LoadedType == TypeOK => Loaded \in View
BY DEF TypeOK, TenantDoc, Loaded, View

LEMMA ArriveType == ASSUME TypeOK, NEW r \in Req, Arrive(r) PROVE TypeOK'
<1> USE DEF Start, docs, bounds
<1>0. \A step \in {"audit", "lookup", "tx", "gate"} : step \in PC
  BY DEF PC
<1>1. ASSUME NEW c \in Checkout, NEW p \in Plan, CreateCheckout(r, c, p) PROVE TypeOK'
  <2>1. checkout' \in [Checkout -> CheckoutDoc]
    BY <1>1 DEF CreateCheckout, TypeOK, CheckoutDoc, MaybePlan
  <2>2. input' \in [Req -> Input]
    BY <1>1 DEF CreateCheckout, TypeOK, Input, NoInput, AllKinds, MaybeCheckout, MaybePlan
  <2>3. answer' \in [Req -> Answers] /\ pc' \in [Req -> PC]
    BY <1>0, <1>1, MoveType DEF CreateCheckout, Answers
  <2> QED BY <1>1, <2>1, <2>2, <2>3 DEF CreateCheckout, TypeOK
<1>2. ASSUME NEW e \in Event, Receive(r, e) PROVE TypeOK'
  <2>1. input' \in [Req -> Input]
    BY <1>2 DEF Receive, TypeOK, Input, NoInput, AllKinds, MaybeCheckout, MaybePlan
  <2>2. pc' \in [Req -> PC]
    BY <1>0, <1>2, MoveType DEF Receive
  <2> QED BY <1>2, <2>1, <2>2 DEF Receive, TypeOK
<1>3. ASSUME NEW c \in Checkout, AssignLoad(r, c) PROVE TypeOK'
  <2>1. checkout[c].plan \in MaybePlan
    BY DEF TypeOK, CheckoutDoc
  <2>2. input' \in [Req -> Input]
    BY <1>3, <2>1 DEF AssignLoad, TypeOK, Input, NoInput, AllKinds, MaybeCheckout
  <2>3. pc' \in [Req -> PC] /\ view' \in [Req -> View]
    BY <1>0, <1>3, MoveType, LoadedType DEF AssignLoad, TypeOK
  <2> QED BY <1>3, <2>2, <2>3 DEF AssignLoad, TypeOK
<1>4. ASSUME CancelLoad(r) PROVE TypeOK'
  <2>1. input' \in [Req -> Input]
    BY <1>4 DEF CancelLoad, TypeOK, Input, NoInput, AllKinds, MaybeCheckout, MaybePlan
  <2>2. pc' \in [Req -> PC] /\ view' \in [Req -> View]
    BY <1>0, <1>4, MoveType, LoadedType DEF CancelLoad, TypeOK
  <2> QED BY <1>4, <2>1, <2>2 DEF CancelLoad, TypeOK
<1>5. ASSUME GateLoad(r) PROVE TypeOK'
  <2>1. input' \in [Req -> Input]
    BY <1>5 DEF GateLoad, TypeOK, Input, NoInput, AllKinds, MaybeCheckout, MaybePlan
  <2>2. pc' \in [Req -> PC] /\ view' \in [Req -> View]
    BY <1>0, <1>5, MoveType, LoadedType DEF GateLoad, TypeOK
  <2> QED BY <1>5, <2>1, <2>2 DEF GateLoad, TypeOK
<1> QED BY <1>1, <1>2, <1>3, <1>4, <1>5 DEF Arrive

LEMMA WebhookType ==
  ASSUME TypeOK, EventInv, InsertInv, NEW r \in Req, Webhook(r)
  PROVE  TypeOK'
<1> USE DEF docs, bounds
<1>0. \A step \in {"insert", "apply", "audit"} : step \in PC
  BY DEF PC
<1>a. \A a \in {"processed", "ignored", "duplicate"} : a \in Answers
  BY DEF Answers
<1>1. CASE LookUp(r)
  BY <1>0, <1>a, <1>1, MoveType DEF LookUp, TypeOK
<1>2. CASE InsertEvent(r)
  <2>1. event' \in [Event -> Settled \cup {"none", "received"}]
    BY <1>2 DEF InsertEvent, TypeOK
  <2> QED BY <1>0, <1>a, <1>2, <2>1, MoveType DEF InsertEvent, TypeOK
<1> DEFINE e == EventOf(r)
           c == Payload[e].checkout
<1>3. ASSUME At(r, "apply"), NEW s \in Settled, SettleEvent(r, s)
      PROVE  event' \in [Event -> Settled \cup {"none", "received"}]
  BY <1>3 DEF SettleEvent, TypeOK
<1>4. CASE IgnoreEvent(r)
  <2>1. event' \in [Event -> Settled \cup {"none", "received"}]
    BY <1>3, <1>4 DEF IgnoreEvent, Settled
  <2> QED BY <1>a, <1>4, <2>1, MoveType DEF IgnoreEvent, TypeOK
<1>5. ASSUME At(r, "apply"), Found(c)
      PROVE  e \in Event /\ c \in Checkout /\ PlanOf(e) \in MaybePlan
  <2>1. e \in Event
    BY <1>5 DEF EventInv
  <2>2. c \in Checkout
    BY <1>5, <2>1, PayloadType DEF Found, MaybeCheckout
  <2>3. checkout[c].plan \in MaybePlan
    BY <2>2 DEF TypeOK, CheckoutDoc
  <2> QED BY <2>1, <2>2, <2>3, PayloadType DEF PlanOf
<1>6. CASE ApplyPaid(r)
  <2>0. e \in Event /\ c \in Checkout /\ PlanOf(e) \in MaybePlan
    BY <1>5, <1>6 DEF ApplyPaid
  <2>1. event' \in [Event -> Settled \cup {"none", "received"}]
    BY <1>3, <1>6 DEF ApplyPaid, Settled
  <2>2. checkout' \in [Checkout -> CheckoutDoc]
    <3>1. [checkout EXCEPT ![c] = [status |-> "activated", plan |-> PlanOf(e)]]
             \in [Checkout -> CheckoutDoc]
      BY <2>0 DEF TypeOK, CheckoutDoc
    <3>2. [checkout EXCEPT ![c].status = "failed"] \in [Checkout -> CheckoutDoc]
      BY <2>0 DEF TypeOK, CheckoutDoc
    <3> QED BY <1>6, <3>1, <3>2 DEF ApplyPaid
  <2>3. tenant' \in TenantDoc /\ moved' \subseteq Req
    <3>1. ActivationStatus(tenant.status) \in Status
      BY ActivationType DEF Status
    <3>2. CASE SetTenant(r, ActivationStatus(tenant.status), PlanOf(e))
      BY <2>0, <3>1, <3>2, SetTenantType
    <3>3. CASE UNCHANGED <<tenant, moved>>
      BY <3>3 DEF TypeOK
    <3> QED BY <1>6, <3>2, <3>3 DEF ApplyPaid
  <2>4. pc' \in [Req -> PC] /\ answer' \in [Req -> Answers]
    BY <1>0, <1>a, <1>6, MoveType DEF ApplyPaid
  <2>5. UNCHANGED <<input, view, audited, aborts, lost>>
    BY <1>6 DEF ApplyPaid
  <2> QED BY <2>1, <2>2, <2>3, <2>4, <2>5 DEF TypeOK
<1>7. CASE ApplyTerminal(r)
  <2>0. e \in Event /\ c \in Checkout
    BY <1>5, <1>7 DEF ApplyTerminal
  <2>1. event' \in [Event -> Settled \cup {"none", "received"}]
    BY <1>3, <1>7 DEF ApplyTerminal, Settled
  <2>2. checkout' \in [Checkout -> CheckoutDoc]
    <3>1. Payload[e].type \in {"failed", "canceled"}
      BY <1>7, <2>0, PayloadType DEF ApplyTerminal
    <3>2. checkout' = [checkout EXCEPT ![c].status = Payload[e].type]
      BY <1>7 DEF ApplyTerminal
    <3> HIDE DEF e, c
    <3> QED BY <2>0, <3>1, <3>2 DEF TypeOK, CheckoutDoc
  <2>3. tenant' \in TenantDoc /\ moved' \subseteq Req
    <3>1. tenant.plan \in MaybePlan /\ {"grace", "suspended"} \subseteq Status
      BY DEF TypeOK, TenantDoc, Status
    <3>2. \/ SetTenant(r, "grace", tenant.plan)
          \/ SetTenant(r, "suspended", tenant.plan)
      BY <1>7 DEF ApplyTerminal
    <3> QED BY <3>1, <3>2, SetTenantType
  <2>4. pc' \in [Req -> PC] /\ answer' \in [Req -> Answers]
    BY <1>0, <1>a, <1>7, MoveType DEF ApplyTerminal
  <2>5. UNCHANGED <<input, view, audited, aborts, lost>>
    BY <1>7 DEF ApplyTerminal
  <2> QED BY <2>1, <2>2, <2>3, <2>4, <2>5 DEF TypeOK
<1> QED BY <1>1, <1>2, <1>4, <1>6, <1>7 DEF Webhook

LEMMA OtherType ==
  ASSUME TypeOK, NEW r \in Req, Audit(r) \/ Commit(r) \/ Gate(r) \/ GateSuspend(r) \/ Abort(r) \/ Lose(r)
  PROVE  TypeOK'
<1> USE DEF docs, bounds
<1>0. {"done", "lost"} \subseteq PC /\ {"ok", "error", "rejected"} \subseteq Answers
  BY DEF PC, Over, Answers
<1>1. CASE Audit(r)
  BY <1>0, <1>1, MoveType DEF Audit, TypeOK
<1>2. CASE Commit(r)
  <2> DEFINE d == Edited(r)
             s == IF "status" \in d.dirty THEN d.status ELSE tenant.status
             p == IF "plan" \in d.dirty THEN d.plan ELSE tenant.plan
  <2>1. s \in Status /\ p \in MaybePlan
    BY EditedType DEF View, TypeOK, TenantDoc
  <2>2. \/ SetTenant(r, s, p)
        \/ UNCHANGED <<tenant, moved>>
    BY <1>2 DEF Commit
  <2>3. tenant' \in TenantDoc /\ moved' \subseteq Req
    <3> HIDE DEF s, p
    <3>1. CASE SetTenant(r, s, p)
      BY <2>1, <3>1, SetTenantType
    <3>2. CASE UNCHANGED <<tenant, moved>>
      BY <3>2 DEF TypeOK
    <3> QED BY <2>2, <3>1, <3>2
  <2>4. pc' \in [Req -> PC] /\ answer' \in [Req -> Answers]
    BY <1>0, <1>2, MoveType DEF Commit
  <2>5. audited' \subseteq Req /\ UNCHANGED <<checkout, event, input, view, aborts, lost>>
    BY <1>2 DEF Commit, TypeOK
  <2> QED BY <2>3, <2>4, <2>5 DEF TypeOK
<1>3. CASE Gate(r)
  BY <1>0, <1>3, MoveType DEF Gate, TypeOK
<1>4. CASE GateSuspend(r)
  <2>1. tenant.plan \in MaybePlan /\ "suspended" \in Status
    BY DEF TypeOK, TenantDoc, Status
  <2>2. tenant' \in TenantDoc /\ moved' \subseteq Req
    BY <1>4, <2>1, SetTenantType DEF GateSuspend
  <2>3. pc' \in [Req -> PC] /\ answer' \in [Req -> Answers]
    BY <1>0, <1>4, MoveType DEF GateSuspend
  <2> QED BY <1>4, <2>2, <2>3 DEF GateSuspend, TypeOK
<1>5. CASE Abort(r)
  <2>1. [Edited(r) EXCEPT !.dirty = {}] \in View
    BY EditedType DEF View
  <2>2. view' \in [Req -> View]
    BY <1>5, <2>1, EditedType DEF Abort, TypeOK
  <2>3. aborts' \in Nat
    BY <1>5 DEF Abort, TypeOK
  <2> QED BY <1>5, <2>2, <2>3 DEF Abort, TypeOK
<1>6. CASE Lose(r)
  <2>1. pc' \in [Req -> PC] /\ answer' \in [Req -> Answers]
    BY <1>0, <1>6, MoveType DEF Lose
  <2>2. lost' \in Nat
    BY <1>6 DEF Lose, TypeOK
  <2> QED BY <1>6, <2>1, <2>2 DEF Lose, TypeOK
<1> QED BY <1>1, <1>2, <1>3, <1>4, <1>5, <1>6

-----------------------------------------------------------------------------
(* The rest of the invariant.                                               *)

\* A processed payment stays: only the request that owns an event settles it.
LEMMA EventsStep ==
  ASSUME Inv, NEW r \in Req,
         \/ UNCHANGED event
         \/ InsertEvent(r)
         \/ At(r, "apply") /\ \E s \in Settled : SettleEvent(r, s)
  PROVE  \A e \in Event : event[e] \in Settled => event'[e] = event[e]
<1>1. CASE InsertEvent(r)
  BY <1>1 DEF InsertEvent, Settled, Inv, TypeOK
<1>2. CASE At(r, "apply") /\ \E s \in Settled : SettleEvent(r, s)
  BY <1>2 DEF SettleEvent, Settled, Inv, TypeOK, EventInv
<1> QED BY <1>1, <1>2

\* Which steps change the events, and how.
LEMMA EventChange ==
  ASSUME NEW r \in Req, Arrive(r) \/ Proceed(r) \/ Abort(r) \/ Lose(r)
  PROVE  \/ UNCHANGED event
         \/ InsertEvent(r)
         \/ At(r, "apply") /\ \E s \in Settled : SettleEvent(r, s)
BY DEF Arrive, Proceed, Webhook, Abort, Lose, CreateCheckout, Receive, AssignLoad, CancelLoad,
   GateLoad, LookUp, IgnoreEvent, ApplyPaid, ApplyTerminal, Audit, Commit, Gate, GateSuspend,
   docs, Settled

LEMMA PaidStays ==
  ASSUME \A e \in Event : event[e] \in Settled => event'[e] = event[e]
  PROVE  /\ \A c \in Checkout : PaidProcessed(c) => PaidProcessed(c)'
         /\ Paid => Paid'
BY DEF PaidProcessed, Paid, Settled

\* An activated checkout session shows a payment.
LEMMA ActivatedIsPaid ==
  ASSUME PaymentEvidence, NEW c \in Checkout, checkout[c].status = "activated"
  PROVE  Paid
BY DEF PaymentEvidence, Paid

\* Deliveries keep owning what they apply.
LEMMA EventStep ==
  ASSUME Inv, NEW r \in Req, Arrive(r) \/ Proceed(r) \/ Abort(r) \/ Lose(r)
  PROVE  EventInv' /\ InsertInv'
<1> USE DEF Inv, TypeOK, EventInv, InsertInv, EventOf, At, Goto, Answer
<1>1. CASE LookUp(r)
  BY <1>1 DEF LookUp, docs
<1>2. CASE InsertEvent(r)
  <2>1. CASE event[EventOf(r)] = "none" /\ pc' = [pc EXCEPT ![r] = "apply"]
    <3>1. event' = [event EXCEPT ![EventOf(r)] = "received"] /\ UNCHANGED input
      BY <1>2, <2>1 DEF InsertEvent
    <3>2. EventOf(r) \in Event /\ \A q \in Req : At(q, "apply") => EventOf(q) # EventOf(r)
      BY <1>2, <2>1 DEF InsertEvent
    <3> QED BY <2>1, <3>1, <3>2
  <2>2. CASE pc' = [pc EXCEPT ![r] = "done"] /\ UNCHANGED event
    BY <1>2, <2>2 DEF InsertEvent
  <2> QED BY <1>2, <2>1, <2>2 DEF InsertEvent
<1>3. CASE IgnoreEvent(r) \/ ApplyPaid(r) \/ ApplyTerminal(r)
  <2>1. /\ At(r, "apply")
        /\ \E s \in Settled : SettleEvent(r, s)
        /\ \E step \in {"audit", "done"} : pc' = [pc EXCEPT ![r] = step]
        /\ UNCHANGED input
    BY <1>3 DEF IgnoreEvent, ApplyPaid, ApplyTerminal, Settled
  <2>2. \A q \in Req : pc'[q] \in {"apply", "lookup", "insert"} => q # r /\ pc'[q] = pc[q]
    BY <2>1
  <2>3. \A e \in Event : e # EventOf(r) => event'[e] = event[e]
    BY <2>1 DEF SettleEvent
  <2> QED BY <2>1, <2>2, <2>3
<1>4. CASE \E e \in Event : Receive(r, e)
  BY <1>4 DEF Receive, Start, docs, NoInput, Input
<1>5. CASE \/ \E c \in Checkout, p \in Plan : CreateCheckout(r, c, p)
           \/ \E c \in Checkout : AssignLoad(r, c)
           \/ CancelLoad(r) \/ GateLoad(r)
  <2>1. /\ UNCHANGED event
        /\ \E step \in {"audit", "tx", "gate"} : pc' = [pc EXCEPT ![r] = step]
        /\ \A q \in Req \ {r} : input'[q] = input[q]
    BY <1>5 DEF CreateCheckout, AssignLoad, CancelLoad, GateLoad, Start, docs
  <2>2. \A q \in Req : pc'[q] \in {"apply", "lookup", "insert"} =>
          pc'[q] = pc[q] /\ input'[q] = input[q]
    BY <2>1
  <2> QED BY <2>1, <2>2
<1>6. CASE Audit(r) \/ Commit(r) \/ Gate(r) \/ GateSuspend(r) \/ Abort(r) \/ Lose(r)
  <2>1. /\ UNCHANGED <<event, input>>
        /\ \E step \in Over : pc' = [pc EXCEPT ![r] = step] \/ UNCHANGED pc
    BY <1>6 DEF Audit, Commit, Gate, GateSuspend, Abort, Lose, docs, Over
  <2> QED BY <2>1 DEF Over
<1> QED BY <1>1, <1>2, <1>3, <1>4, <1>5, <1>6 DEF Arrive, Proceed, Webhook

\* assign enters its transaction with evidence; nobody else's input changes.
LEMMA OwnerStep ==
  ASSUME Inv, Paid => Paid', NEW r \in Req, Arrive(r) \/ Proceed(r) \/ Abort(r) \/ Lose(r)
  PROVE  OwnerInv'
<1> USE DEF Inv, TypeOK, OwnerInv, At, Goto, Answer
<1>1. ASSUME NEW c \in Checkout, AssignLoad(r, c) PROVE OwnerInv'
  <2>1. Paid
    BY <1>1, ActivatedIsPaid DEF AssignLoad
  <2>2. input'[r].kind = "assign" /\ \A q \in Req \ {r} : input'[q] = input[q] /\ pc'[q] = pc[q]
    BY <1>1 DEF AssignLoad, Start, NoInput
  <2> QED BY <2>1, <2>2
<1>2. CASE CancelLoad(r)
  BY <1>2 DEF CancelLoad, Start, NoInput
<1>3. CASE \/ \E c \in Checkout, p \in Plan : CreateCheckout(r, c, p)
           \/ \E e \in Event : Receive(r, e)
           \/ GateLoad(r) \/ Proceed(r) \/ Lose(r)
  <2>1. \A q \in Req : pc'[q] = "tx" => pc[q] = "tx" /\ input'[q] = input[q]
    BY <1>3 DEF CreateCheckout, Receive, GateLoad, Start, Proceed, Webhook, LookUp, InsertEvent,
       IgnoreEvent, ApplyPaid, ApplyTerminal, Audit, Commit, Gate, GateSuspend, Lose
  <2> QED BY <2>1
<1>4. CASE Abort(r)
  BY <1>4 DEF Abort
<1> QED BY <1>1, <1>2, <1>3, <1>4 DEF Arrive

\* What PaymentEvidence asks of the tenant.
NeedsPayment(t) == t.status \in {"active", "reactivated"} \/ t.plan # NoPlan

LEMMA EvidenceStep ==
  ASSUME Inv, NEW r \in Req, Arrive(r) \/ Proceed(r) \/ Abort(r) \/ Lose(r)
  PROVE  PaymentEvidence' /\ (Paid => Paid')
<1>0. /\ \A c \in Checkout : PaidProcessed(c) => PaidProcessed(c)'
      /\ Paid => Paid'
  BY EventChange, EventsStep, PaidStays
<1> SUFFICES /\ \A c \in Checkout : checkout'[c].status = "activated" =>
                  checkout[c].status = "activated" \/ PaidProcessed(c)'
             /\ NeedsPayment(tenant') => NeedsPayment(tenant) \/ Paid \/ Paid'
  BY <1>0 DEF Inv, PaymentEvidence, NeedsPayment, Paid
<1> USE DEF NeedsPayment
<1>1. CASE ApplyPaid(r)
  <2>1. PICK e \in Event, c \in Checkout :
          e = EventOf(r) /\ c = Payload[e].checkout /\ Payload[e].type = "paid"
    BY <1>1, PayloadType DEF ApplyPaid, Inv, EventInv, Found, MaybeCheckout
  <2>2. CASE /\ SettleEvent(r, "processed")
             /\ \E p : checkout' = [checkout EXCEPT ![c] = [status |-> "activated", plan |-> p]]
    <3>1. event'[e] = "processed"
      BY <2>1, <2>2 DEF SettleEvent, Inv, TypeOK
    <3>2. PaidProcessed(c)'
      BY <2>1, <3>1 DEF PaidProcessed
    <3>3. \A d \in Checkout : d # c => checkout'[d] = checkout[d]
      BY <2>2
    <3>4. Paid'
      BY <3>2 DEF Paid
    <3> QED BY <3>2, <3>3, <3>4
  <2>3. CASE UNCHANGED tenant /\ checkout' = [checkout EXCEPT ![c].status = "failed"]
    BY <2>3, <2>1 DEF Inv, TypeOK
  <2> QED BY <1>1, <2>1, <2>2, <2>3 DEF ApplyPaid
<1>2. CASE ApplyTerminal(r)
  <2> DEFINE c == Payload[EventOf(r)].checkout
             t == Payload[EventOf(r)].type
  <2>1. /\ tenant'.status \in {"grace", "suspended"} /\ tenant'.plan = tenant.plan
        /\ c \in Checkout /\ t \in {"failed", "canceled"}
        /\ checkout' = [checkout EXCEPT ![c].status = t]
    BY <1>2, PayloadType DEF ApplyTerminal, SetTenant, Inv, EventInv, Found, MaybeCheckout
  <2> HIDE DEF c, t
  <2>2. \A d \in Checkout : checkout'[d].status = "activated" => checkout[d].status = "activated"
    BY <2>1 DEF Inv, TypeOK, CheckoutDoc
  <2> QED BY <2>1, <2>2
<1>3. CASE Commit(r)
  <2>1. CASE input[r].kind = "assign" /\ Paid
    BY <1>3, <2>1 DEF Commit
  <2>2. CASE input[r].kind = "cancel" /\ input[r].plan = NoPlan
    <3>1. tenant'.status \in {"canceled", tenant.status} /\ tenant'.plan \in {NoPlan, tenant.plan}
      BY <1>3, <2>2 DEF Commit, SetTenant, Edited
    <3> QED BY <1>3, <3>1 DEF Commit
  <2> QED BY <1>3, <2>1, <2>2 DEF Inv, OwnerInv, Commit
<1>4. CASE GateSuspend(r)
  BY <1>4 DEF GateSuspend, SetTenant
<1>5. ASSUME NEW c \in Checkout, NEW p \in Plan, CreateCheckout(r, c, p)
      PROVE  /\ UNCHANGED tenant
             /\ \A d \in Checkout : checkout'[d].status = "activated" =>
                  checkout[d].status = "activated"
  BY <1>5 DEF CreateCheckout, Inv, TypeOK, CheckoutDoc
<1>6. CASE \/ \E e \in Event : Receive(r, e)
           \/ \E c \in Checkout : AssignLoad(r, c)
           \/ CancelLoad(r) \/ GateLoad(r) \/ Abort(r) \/ Lose(r)
           \/ LookUp(r) \/ InsertEvent(r) \/ IgnoreEvent(r) \/ Audit(r) \/ Gate(r)
  <2>1. UNCHANGED <<tenant, checkout>>
    BY <1>6 DEF Receive, AssignLoad, CancelLoad, GateLoad, Abort, Lose, LookUp, InsertEvent,
       IgnoreEvent, Audit, Gate, docs
  <2> QED BY <2>1
<1> QED BY <1>1, <1>2, <1>3, <1>4, <1>5, <1>6 DEF Arrive, Proceed, Webhook

-----------------------------------------------------------------------------
LEMMA InvInit == Init => Inv
BY TypeInit DEF Init, Inv, EventInv, InsertInv, OwnerInv, PaymentEvidence, At

LEMMA InvStep == Inv /\ [Next]_vars => Inv'
<1> SUFFICES ASSUME Inv, [Next]_vars PROVE Inv'
  OBVIOUS
<1>1. CASE UNCHANGED vars
  BY <1>1 DEF vars, Inv, TypeOK, EventInv, InsertInv, OwnerInv, PaymentEvidence, PaidProcessed,
     Paid, At, EventOf
<1>2. ASSUME NEW r \in Req, Arrive(r) \/ Proceed(r) \/ Abort(r) \/ Lose(r) PROVE Inv'
  <2>1. TypeOK'
    BY <1>2, ArriveType, WebhookType, OtherType DEF Proceed, Inv
  <2>2. EventInv' /\ InsertInv'
    BY <1>2, EventStep
  <2>3. PaymentEvidence' /\ (Paid => Paid')
    BY <1>2, EvidenceStep
  <2>4. OwnerInv'
    BY <1>2, <2>3, OwnerStep
  <2> QED BY <2>1, <2>2, <2>3, <2>4 DEF Inv
<1> QED BY <1>1, <1>2 DEF Next

LEMMA InvAlways == Spec => []Inv
BY InvInit, InvStep, PTL DEF Spec

\* Every variable keeps its type.
THEOREM SubscriptionTypeCorrect == Spec => []TypeOK
BY InvAlways, PTL DEF Inv

\* ADR-015: no interleaving of webhooks, assign, cancel and the gate makes a
\* tenant active, gives it a plan or activates a checkout session without a
\* processed payment.
THEOREM ActivationIsPaid == Spec => []PaymentEvidence
BY InvAlways, PTL DEF Inv

\* ADR-016: an event has one outcome, whatever deliveries race for it
\* (processProviderWebhook and its unique index).
THEOREM OneOutcomePerEvent == Spec => SettledEventsStay
<1> DEFINE Stays == /\ \A e \in Event : event[e] \in Settled => event'[e] = event[e]
                    /\ \A r \in Req : At(r, "apply") /\ pc'[r] \in {"audit", "done"} =>
                         event[EventOf(r)] = "received" /\ event'[EventOf(r)] \in Settled
<1>1. ASSUME Inv, [Next]_vars PROVE [Stays]_vars
  <2>1. ASSUME NEW r \in Req, Arrive(r) \/ Proceed(r) \/ Abort(r) \/ Lose(r) PROVE Stays
    <3>1. \A e \in Event : event[e] \in Settled => event'[e] = event[e]
      BY <1>1, <2>1, EventChange, EventsStep
    <3>2. ASSUME NEW q \in Req, At(q, "apply"), pc'[q] \in {"audit", "done"}
          PROVE  event[EventOf(q)] = "received" /\ event'[EventOf(q)] \in Settled
      <4>1. EventOf(q) \in Event /\ event[EventOf(q)] = "received"
        BY <1>1, <3>2 DEF Inv, EventInv
      <4>2. q = r /\ \E s \in Settled : SettleEvent(r, s)
        BY <1>1, <2>1, <3>2 DEF Inv, TypeOK, PC, Over, At, Goto, Answer, Start, Arrive, Proceed, Webhook,
           Abort, Lose, CreateCheckout, Receive, AssignLoad, CancelLoad, GateLoad, LookUp,
           InsertEvent, IgnoreEvent, ApplyPaid, ApplyTerminal, Audit, Commit, Gate,
           GateSuspend, Settled
      <4> QED BY <1>1, <4>1, <4>2 DEF SettleEvent, Inv, TypeOK
    <3> QED BY <3>1, <3>2
  <2> QED BY <1>1, <2>1 DEF Next
<1> QED BY <1>1, InvAlways, PTL DEF Spec, SettledEventsStay

-----------------------------------------------------------------------------
(* Auditing.                                                                *)

\* A request that has changed the tenant is about to be audited, has been, or is over
\* without an answer; the gate alone is not audited.
MovedInv ==
  /\ \A r \in moved :
       /\ pc[r] \in {"audit", "done", "lost"}
       /\ At(r, "done") /\ input[r].kind # "use" => r \in audited
  /\ \A r \in Req : At(r, "gate") => input[r].kind = "use"

LEMMA MovedStep ==
  ASSUME TypeOK, MovedInv, NEW r \in Req, Arrive(r) \/ Proceed(r) \/ Abort(r) \/ Lose(r)
  PROVE  MovedInv'
<1>1. /\ pc \in [Req -> PC] /\ input \in [Req -> Input]
      /\ moved \subseteq Req /\ audited \subseteq Req
  BY DEF TypeOK
<1> USE DEF MovedInv, At, Goto, Answer, docs, bounds
<1>2. CASE Arrive(r)
  <2>1. /\ pc[r] = "idle" /\ pc'[r] \in {"audit", "lookup", "tx", "gate"}
        /\ \A q \in Req \ {r} : pc'[q] = pc[q] /\ input'[q] = input[q]
        /\ pc'[r] = "gate" => input'[r].kind = "use"
        /\ UNCHANGED <<moved, audited>>
    BY <1>1, <1>2
    DEF Arrive, Start, CreateCheckout, Receive, AssignLoad, CancelLoad, GateLoad, NoInput
  <2> QED BY <1>1, <2>1
<1>3. CASE LookUp(r) \/ InsertEvent(r) \/ IgnoreEvent(r)
  <2>1. /\ pc[r] \in {"lookup", "insert", "apply"}
        /\ pc'[r] \in {"insert", "apply", "done"}
        /\ \A q \in Req \ {r} : pc'[q] = pc[q]
        /\ UNCHANGED <<input, moved, audited>>
    BY <1>1, <1>3 DEF LookUp, InsertEvent, IgnoreEvent
  <2> QED BY <1>1, <2>1
<1>4. CASE ApplyPaid(r) \/ ApplyTerminal(r)
  <2>1. /\ pc[r] = "apply"
        /\ \A q \in Req \ {r} : pc'[q] = pc[q]
        /\ \/ pc'[r] = "audit" /\ moved' \subseteq moved \cup {r}
           \/ pc'[r] = "done" /\ moved' = moved
        /\ UNCHANGED <<input, audited>>
    BY <1>1, <1>4 DEF ApplyPaid, ApplyTerminal, SetTenant
  <2> QED BY <1>1, <2>1
<1>5. CASE Audit(r)
  BY <1>1, <1>5 DEF Audit
<1>6. CASE Commit(r)
  <2>1. /\ pc[r] = "tx" /\ pc'[r] = "done"
        /\ \A q \in Req \ {r} : pc'[q] = pc[q]
        /\ \/ UNCHANGED <<moved, audited>>
           \/ moved' \subseteq moved \cup {r} /\ audited' = audited \cup {r}
        /\ UNCHANGED input
    BY <1>1, <1>6 DEF Commit, SetTenant
  <2> QED BY <1>1, <2>1
<1>7. CASE Gate(r) \/ GateSuspend(r)
  <2>1. /\ pc[r] = "gate" /\ pc'[r] = "done"
        /\ \A q \in Req \ {r} : pc'[q] = pc[q]
        /\ moved' \subseteq moved \cup {r}
        /\ UNCHANGED <<input, audited>>
    BY <1>1, <1>7 DEF Gate, GateSuspend, SetTenant
  <2> QED BY <1>1, <2>1
<1>8. CASE Abort(r)
  BY <1>1, <1>8 DEF Abort
<1>9. CASE Lose(r)
  BY <1>1, <1>9 DEF Lose
<1> QED BY <1>2, <1>3, <1>4, <1>5, <1>6, <1>7, <1>8, <1>9 DEF Proceed, Webhook

LEMMA MovedAlways == Spec => []MovedInv
<1>1. Init => MovedInv
  BY DEF Init, MovedInv, At
<1>2. TypeOK /\ MovedInv /\ UNCHANGED vars => MovedInv'
  BY DEF vars, MovedInv, At
<1>3. TypeOK /\ MovedInv /\ [Next]_vars => MovedInv'
  BY <1>2, MovedStep DEF Next
<1> QED BY <1>1, <1>3, SubscriptionTypeCorrect, PTL DEF Spec

\* A request that changes the tenant and answers has left its audit record: the
\* recorder comes between the change and the answer, in or after the transaction.
THEOREM ChangesAreAudited == Spec => []AnsweredIsAudited
<1>1. MovedInv => AnsweredIsAudited
  BY DEF MovedInv, AnsweredIsAudited
<1> QED BY <1>1, MovedAlways, PTL
=============================================================================
