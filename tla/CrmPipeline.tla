---------------------------- MODULE CrmPipeline ----------------------------
(***************************************************************************)
(* The contacts, organizations and opportunities of one tenant, the stage  *)
(* of each opportunity, and the counters of the tenant (CrmService).       *)
(*                                                                         *)
(* Every query of a handler is a step.  Creations and deletions write and  *)
(* then synchronize the counters: five counts at the same time, and the    *)
(* upsert of what they found.  Only a change of stage runs in a snapshot   *)
(* transaction, with its own synchronization in it: it reads one state of  *)
(* the database, and is tried again if another request has since written a *)
(* document it writes.                                                     *)
(*                                                                         *)
(* Names, amounts and the keys duplicates are found by are left out: a     *)
(* unique index that refuses a write is a request that fails (Fail).       *)
(***************************************************************************)
EXTENDS Naturals, FiniteSets

CONSTANTS
  Contact, Organization, Opportunity,   \* ids of documents
  Req,              \* requests served at the same time
  None, Keep,       \* no reference; a reference the patch leaves out
  NoCounters,       \* no counters are stored
  MaxRequests       \* bound: requests ever started

Doc == Contact \cup Organization \cup Opportunity

ASSUME CrmAssumption ==
  /\ Contact \cap Organization = {} /\ Contact \cap Opportunity = {}
  /\ Organization \cap Opportunity = {}
  /\ IsFiniteSet(Doc)
  /\ {None, Keep} \cap Doc = {} /\ None # Keep
  /\ MaxRequests \in Nat

Stage == {"lead", "qualified", "proposal", "negotiation", "won", "lost"}

\* The stages an opportunity may go to from a stage.
OPPORTUNITY_STAGE_TRANSITIONS(from) ==
  CASE from = "lead" -> {"qualified", "lost"}
    [] from = "qualified" -> {"proposal", "lost"}
    [] from = "proposal" -> {"negotiation", "won", "lost"}
    [] from = "negotiation" -> {"won", "lost"}
    [] from \in {"won", "lost"} -> {}

Field == {"contactsActive", "organizationsActive", "opportunitiesOpen",
          "opportunitiesWon", "opportunitiesLost"}
Counters == [Field -> Nat]
ZeroCounters == [f \in Field |-> 0]

NoCountersAssumption == NoCounters \notin Counters
ASSUME NoCountersAssumption

Kinds == {"create", "update", "delete", "stage", "activity"}

VARIABLES
  status,        \* of each document: absent, active or deleted (isActive false)
  stage,         \* of each opportunity
  contact,       \* contactId of each opportunity
  organization,  \* organizationId of each contact and opportunity
  mentioned,     \* the documents activities are about
  counters,      \* the stored counters
  pc, input,     \* where each request is and what it asks for
  seen,          \* the stage a transaction has read
  counts,        \* what a synchronization has counted so far
  todo,          \* what is left to count
  lost,          \* has another request written a document the transaction writes
  alone,         \* the requests during which no other was under way
  asked          \* requests started

\* What the documents hold: a deleted one stays, with isActive false; a
\* reference is an id or nothing; an activity names any documents.
DocStatus == {"absent", "active", "deleted"}
MaybeOrganization == Organization \cup {None}
MaybeContact == Contact \cup {None}
Mentionable == Contact \cup Organization \cup Opportunity

docs == <<status, stage, contact, organization, mentioned>>
requests == <<pc, input, seen, counts, todo>>
crmVars == <<docs, counters, requests, lost, alone, asked>>

Ref == Doc \cup {None, Keep}
Input == [kind : Kinds \cup {"none"}, doc : Doc \cup {None}, contact : Ref, organization : Ref, stage : Stage]
NoInput == [kind |-> "none", doc |-> None, contact |-> Keep, organization |-> Keep, stage |-> "lead"]

CrmTypeOK ==
  /\ status \in [Doc -> DocStatus]
  /\ stage \in [Opportunity -> Stage]
  /\ contact \in [Opportunity -> MaybeContact]
  /\ organization \in [Contact \cup Opportunity -> MaybeOrganization]
  /\ counters \in Counters \cup {NoCounters}
  /\ pc \in [Req -> {"idle", "load", "contact", "organization", "write", "uses",
                     "count", "sync", "commit", "record"}]
  /\ input \in [Req -> Input]
  /\ seen \in [Req -> Stage]
  /\ counts \in [Req -> Counters]
  /\ todo \in [Req -> SUBSET (Field \cup {"contacts", "opportunities"})]
  /\ lost \in [Req -> BOOLEAN]
  /\ alone \subseteq Req
  /\ asked \in Nat
  /\ mentioned \subseteq Mentionable
  /\ \A d \in mentioned : status[d] # "absent"

Active == {d \in Doc : status[d] = "active"}

\* What a field counts, when the stages are those of s.
Counted(f, s) ==
  CASE f = "contactsActive" -> Contact \cap Active
    [] f = "organizationsActive" -> Organization \cap Active
    [] f = "opportunitiesOpen" -> {o \in Opportunity \cap Active : s[o] \notin {"won", "lost"}}
    [] f = "opportunitiesWon" -> {o \in Opportunity \cap Active : s[o] = "won"}
    [] f = "opportunitiesLost" -> {o \in Opportunity \cap Active : s[o] = "lost"}
Snapshot(s) == [f \in Field |-> Cardinality(Counted(f, s))]

\* getCounters: the stored counters, or a count when there are none.
GetCounters == IF counters = NoCounters THEN Snapshot(stage) ELSE counters

CrmInit ==
  /\ status \in [Doc -> {"absent", "active"}]
  /\ stage \in [Opportunity -> Stage]
  /\ \A o \in Opportunity : status[o] = "absent" => stage[o] = "lead"
  /\ contact = [o \in Opportunity |-> None]
  /\ organization = [d \in Contact \cup Opportunity |-> None]
  /\ mentioned = {}
  /\ counters = IF Active = {} THEN NoCounters ELSE Snapshot(stage)
  /\ pc = [r \in Req |-> "idle"]
  /\ input = [r \in Req |-> NoInput]
  /\ seen = [r \in Req |-> "lead"]
  /\ counts = [r \in Req |-> ZeroCounters]
  /\ todo = [r \in Req |-> {}]
  /\ lost = [r \in Req |-> FALSE]
  /\ alone = {}
  /\ asked = 0

Does(r, step, kind) == pc[r] = step /\ input[r].kind = kind
Subject(r) == input[r].doc
GoOn(r, step) == pc' = [pc EXCEPT ![r] = step] /\ UNCHANGED <<input, seen, counts, todo>>
CountNext(r, step, what) ==
  /\ pc' = [pc EXCEPT ![r] = step]
  /\ todo' = [todo EXCEPT ![r] = what]
  /\ UNCHANGED <<input, seen, counts>>
End(r) ==
  /\ pc' = [pc EXCEPT ![r] = "idle"]
  /\ input' = [input EXCEPT ![r] = NoInput]
  /\ seen' = [seen EXCEPT ![r] = "lead"]
  /\ counts' = [counts EXCEPT ![r] = ZeroCounters]
  /\ todo' = [todo EXCEPT ![r] = {}]

\* A transaction under way that is going to write d, or the counters.
Conflicts(q, d) ==
  pc[q] = "commit" /\ (d = "counters" \/ (d = Subject(q) /\ seen[q] # input[q].stage))
Touch(r, d) == lost' = [q \in Req |-> lost[q] \/ (q # r /\ Conflicts(q, d))]

-----------------------------------------------------------------------------
(* Requests.                                                                *)

\* The first query of each request.
FirstStep(request) ==
  CASE request.kind = "create" ->
         IF request.doc \in Organization THEN "write"
         ELSE IF request.doc \in Contact THEN "organization" ELSE "contact"
    [] request.kind = "update" -> IF request.doc \in Opportunity THEN "contact" ELSE "load"
    [] request.kind = "delete" -> IF request.doc \in Organization THEN "uses" ELSE "write"
    [] request.kind \in {"stage", "activity"} -> "load"

Ask(r, request) ==
  /\ pc[r] = "idle"
  /\ asked < MaxRequests
  /\ asked' = asked + 1
  /\ input' = [input EXCEPT ![r] = request]
  /\ pc' = [pc EXCEPT ![r] = FirstStep(request)]
  /\ todo' = [todo EXCEPT ![r] =
       IF FirstStep(request) = "uses" THEN {"contacts", "opportunities"} ELSE {}]
  /\ alone' = IF \A q \in Req : pc[q] = "idle" THEN {r} ELSE {}
  /\ lost' = [lost EXCEPT ![r] = FALSE]
  /\ UNCHANGED <<docs, counters, seen, counts>>

\* A duplicate key, a query that rejects, or the death of the process.
Fail(r) ==
  /\ pc[r] # "idle"
  /\ End(r)
  /\ UNCHANGED <<docs, counters, lost, alone, asked>>

-----------------------------------------------------------------------------
(* References: assertContactExists, then assertOrganizationExists.          *)

CheckContact(r) ==
  /\ pc[r] = "contact"
  /\ IF input[r].contact \in {None, Keep} \cup Active THEN GoOn(r, "organization") ELSE End(r)
  /\ UNCHANGED <<docs, counters, lost, alone, asked>>

\* Mutated form of CheckOrganization: any organization there ever was will do.
CheckOrganizationEver(r) ==
  /\ pc[r] = "organization"
  /\ IF input[r].organization \in {None, Keep} \/ status[input[r].organization] # "absent"
     THEN GoOn(r, "write") ELSE End(r)
  /\ UNCHANGED <<docs, counters, lost, alone, asked>>

CheckOrganization(r) ==
  /\ pc[r] = "organization"
  /\ IF input[r].organization \in {None, Keep} \cup Active THEN GoOn(r, "write") ELSE End(r)
  /\ UNCHANGED <<docs, counters, lost, alone, asked>>

\* updateContact and updateOrganization load what they update; an organization has no
\* reference to check.
LoadForUpdate(r) ==
  /\ Does(r, "load", "update")
  /\ IF Subject(r) \notin Active THEN End(r)
     ELSE GoOn(r, IF Subject(r) \in Contact THEN "organization" ELSE "write")
  /\ UNCHANGED <<docs, counters, lost, alone, asked>>

-----------------------------------------------------------------------------
(* Creations, updates and deletions.                                        *)

Given(ref) == IF ref = Keep THEN None ELSE ref

\* A new document is active, with the references it was given.
Insert(r) ==
  /\ Does(r, "write", "create")
  /\ status[Subject(r)] = "absent"
  /\ status' = [status EXCEPT ![Subject(r)] = "active"]
  /\ CountNext(r, "count", Field)
  /\ UNCHANGED <<stage, mentioned, counters, lost, alone, asked>>

CreateContact(r) ==
  /\ Subject(r) \in Contact
  /\ Insert(r)
  /\ organization' = [organization EXCEPT ![Subject(r)] = Given(input[r].organization)]
  /\ UNCHANGED contact

CreateOrganization(r) ==
  /\ Subject(r) \in Organization
  /\ Insert(r)
  /\ UNCHANGED <<contact, organization>>

\* The stage of a new opportunity is "lead", which it has had since Init.
CreateOpportunity(r) ==
  /\ Subject(r) \in Opportunity
  /\ Insert(r)
  /\ contact' = [contact EXCEPT ![Subject(r)] = Given(input[r].contact)]
  /\ organization' = [organization EXCEPT ![Subject(r)] = Given(input[r].organization)]

\* An update finds its document by isActive; it does not synchronize the counters.
Patch(r) ==
  /\ Does(r, "write", "update")
  /\ IF Subject(r) \in Active THEN Touch(r, Subject(r)) /\ GoOn(r, "record")
     ELSE UNCHANGED lost /\ End(r)
  /\ UNCHANGED <<status, stage, mentioned, counters, alone, asked>>
Patched(field, r, ref) ==
  IF Subject(r) \in Active /\ ref # Keep THEN [field EXCEPT ![Subject(r)] = ref] ELSE field

UpdateContact(r) ==
  /\ Subject(r) \in Contact
  /\ Patch(r)
  /\ organization' = Patched(organization, r, input[r].organization)
  /\ UNCHANGED contact

UpdateOrganization(r) ==
  /\ Subject(r) \in Organization
  /\ Patch(r)
  /\ UNCHANGED <<contact, organization>>

UpdateOpportunity(r) ==
  /\ Subject(r) \in Opportunity
  /\ Patch(r)
  /\ contact' = Patched(contact, r, input[r].contact)
  /\ organization' = Patched(organization, r, input[r].organization)

Remove(r) ==
  /\ Does(r, "write", "delete")
  /\ IF Subject(r) \in Active
     THEN /\ status' = [status EXCEPT ![Subject(r)] = "deleted"]
          /\ Touch(r, Subject(r))
          /\ CountNext(r, "count", Field)
     ELSE UNCHANGED <<status, lost>> /\ End(r)
  /\ UNCHANGED <<stage, contact, organization, mentioned, counters, alone, asked>>

DeleteContact(r) == Subject(r) \in Contact /\ Remove(r)

\* The active documents of a sort that refer to an organization.
Users(o, what) ==
  {d \in (IF what = "contacts" THEN Contact ELSE Opportunity) \cap Active : organization[d] = o}

\* deleteOrganization counts the contacts and the opportunities at the same time.
CountUses(r) ==
  /\ pc[r] = "uses"
  /\ \E what \in todo[r] :
       IF Users(Subject(r), what) # {} THEN End(r)
       ELSE CountNext(r, IF todo[r] = {what} THEN "write" ELSE "uses", todo[r] \ {what})
  /\ UNCHANGED <<docs, counters, lost, alone, asked>>

DeleteOrganization(r) == Subject(r) \in Organization /\ Remove(r)

\* Mutated form of DeleteOpportunity: the counters are left as they are.
DeleteOpportunityQuietly(r) ==
  /\ Subject(r) \in Opportunity /\ Does(r, "write", "delete")
  /\ status' = [status EXCEPT ![Subject(r)] = "deleted"]
  /\ Touch(r, Subject(r))
  /\ GoOn(r, "record")
  /\ UNCHANGED <<stage, contact, organization, mentioned, counters, alone, asked>>

DeleteOpportunity(r) == Subject(r) \in Opportunity /\ Remove(r)

-----------------------------------------------------------------------------
(* The counters.                                                            *)

\* buildCountersSnapshot: one of the five counts is answered.
Count(r) ==
  /\ pc[r] = "count"
  /\ \E f \in todo[r] :
       /\ counts' = [counts EXCEPT ![r][f] = Cardinality(Counted(f, stage))]
       /\ todo' = [todo EXCEPT ![r] = @ \ {f}]
       /\ pc' = [pc EXCEPT ![r] = IF todo[r] = {f} THEN "sync" ELSE "count"]
  /\ UNCHANGED <<input, seen>>
  /\ UNCHANGED <<docs, counters, lost, alone, asked>>

SyncCounters(r) ==
  /\ pc[r] = "sync"
  /\ counters' = counts[r]
  /\ Touch(r, "counters")
  /\ GoOn(r, "record")
  /\ UNCHANGED <<docs, alone, asked>>

\* recordAuditLog, and the answer.
RecordAuditLog(r) ==
  /\ pc[r] = "record"
  /\ End(r)
  /\ UNCHANGED <<docs, counters, lost, alone, asked>>

-----------------------------------------------------------------------------
(* changeOpportunityStage.                                                  *)

\* The transaction finds the opportunity, and counts with the stage it is going to write.
TxLoad(r) ==
  /\ Does(r, "load", "stage")
  /\ LET from == stage[Subject(r)] to == input[r].stage IN
       IF Subject(r) \notin Active
          \/ (from # to /\ to \notin OPPORTUNITY_STAGE_TRANSITIONS(from))
       THEN End(r)
       ELSE /\ seen' = [seen EXCEPT ![r] = from]
            /\ counts' = [counts EXCEPT ![r] = Snapshot([stage EXCEPT ![Subject(r)] = to])]
            /\ pc' = [pc EXCEPT ![r] = "commit"]
            /\ UNCHANGED <<input, todo>>
  /\ lost' = [lost EXCEPT ![r] = FALSE]
  /\ UNCHANGED <<docs, counters, alone, asked>>

\* The save and the upsert of the counters are committed, or the transaction tries again.
TxCommit(r) ==
  /\ pc[r] = "commit"
  /\ ~lost[r]
  /\ stage' = [stage EXCEPT ![Subject(r)] = input[r].stage]
  /\ counters' = counts[r]
  /\ Touch(r, "counters")
  /\ GoOn(r, "record")
  /\ UNCHANGED <<status, contact, organization, mentioned, alone, asked>>

TxRetry(r) ==
  /\ pc[r] = "commit"
  /\ lost[r]
  /\ GoOn(r, "load")
  /\ UNCHANGED <<docs, counters, lost, alone, asked>>

-----------------------------------------------------------------------------
(* createActivity, of an activity about one document.                       *)

\* Mutated form of AssertActivityReferences: the document is not looked for.
AssertNothing(r) ==
  /\ Does(r, "load", "activity")
  /\ GoOn(r, "write")
  /\ UNCHANGED <<docs, counters, lost, alone, asked>>

AssertActivityReferences(r) ==
  /\ Does(r, "load", "activity")
  /\ IF Subject(r) \in Active THEN GoOn(r, "write") ELSE End(r)
  /\ UNCHANGED <<docs, counters, lost, alone, asked>>

CreateActivity(r) ==
  /\ Does(r, "write", "activity")
  /\ mentioned' = mentioned \cup {Subject(r)}
  /\ GoOn(r, "record")
  /\ UNCHANGED <<status, stage, contact, organization, counters, lost, alone, asked>>

-----------------------------------------------------------------------------
\* A creation gets an id that no other request has.
Fresh(d) == status[d] = "absent" /\ \A q \in Req : Subject(q) # d

Arrive(r) ==
  \/ \E d \in Organization : Fresh(d) /\ Ask(r, [NoInput EXCEPT !.kind = "create", !.doc = d])
  \/ \E d \in Contact, o \in Organization \cup {None} :
       Fresh(d) /\ Ask(r, [NoInput EXCEPT !.kind = "create", !.doc = d, !.organization = o])
  \/ \E d \in Opportunity, c \in Contact \cup {None}, o \in Organization \cup {None} :
       Fresh(d) /\ Ask(r, [NoInput EXCEPT !.kind = "create", !.doc = d, !.contact = c, !.organization = o])
  \/ \E d \in Organization : Ask(r, [NoInput EXCEPT !.kind = "update", !.doc = d])
  \/ \E d \in Contact, o \in Organization \cup {None, Keep} :
       Ask(r, [NoInput EXCEPT !.kind = "update", !.doc = d, !.organization = o])
  \/ \E d \in Opportunity, c \in Contact \cup {None, Keep}, o \in Organization \cup {None, Keep} :
       Ask(r, [NoInput EXCEPT !.kind = "update", !.doc = d, !.contact = c, !.organization = o])
  \/ \E d \in Doc, kind \in {"delete", "activity"} : Ask(r, [NoInput EXCEPT !.kind = kind, !.doc = d])
  \/ \E d \in Opportunity, s \in Stage : Ask(r, [NoInput EXCEPT !.kind = "stage", !.doc = d, !.stage = s])

Serve(r) ==
  \/ CheckContact(r) \/ CheckOrganization(r) \/ LoadForUpdate(r)
  \/ CreateContact(r) \/ CreateOrganization(r) \/ CreateOpportunity(r)
  \/ UpdateContact(r) \/ UpdateOrganization(r) \/ UpdateOpportunity(r)
  \/ DeleteContact(r) \/ CountUses(r) \/ DeleteOrganization(r) \/ DeleteOpportunity(r)
  \/ Count(r) \/ SyncCounters(r) \/ RecordAuditLog(r)
  \/ TxLoad(r) \/ TxCommit(r) \/ TxRetry(r)
  \/ AssertActivityReferences(r) \/ CreateActivity(r)

CrmNext == \E r \in Req : Arrive(r) \/ Serve(r) \/ Fail(r)

CrmSpec == CrmInit /\ [][CrmNext]_crmVars

-----------------------------------------------------------------------------
(* Properties.                                                              *)

\* A request during which no other is under way leaves the counters exact, also over the
\* drift that a race or a crash has left (crm.service.ts:1184; docs/cierres/
\* ETAPA_09_CIERRE.md:16 speaks of counters reconciled on reading, which getCounters
\* does not do).
LoneSyncHeals ==
  \A r \in alone : pc[r] = "record" /\ input[r].kind \notin {"update", "activity"} =>
    GetCounters = Snapshot(stage)

\* An active contact or opportunity with an organization that is not.
Dangling(d) == d \in Active /\ organization[d] # None /\ organization[d] \notin Active

\* A reference to a deleted organization needs two requests: one of them checks or counts
\* before the other writes (crm.service.ts:711, 289, 888).
DanglingNeedsARace ==
  [][\A d \in Contact \cup Opportunity : ~Dangling(d) /\ Dangling(d)' =>
       \E r \in Req \ alone : pc[r] = "write"]_crmVars
=============================================================================
