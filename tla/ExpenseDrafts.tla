--------------------------- MODULE ExpenseDrafts ---------------------------
(***************************************************************************)
(* What an expense request says while its owner may edit it                *)
(* (ExpensesService): its category and subcategory, its attachments, and   *)
(* the catalog and settings they are checked against.                      *)
(*                                                                         *)
(* Every query is a step, nothing runs in a transaction.  A subcategory is *)
(* named in the metadata of the request (metadata.taxonomy); each update   *)
(* looks it up again under the category it goes with and writes what it    *)
(* found.  The workflow (ExpenseRequests) opens and closes a request at    *)
(* any time: here it is Move, and reviewRequest, which also writes back    *)
(* the metadata it had loaded.                                             *)
(*                                                                         *)
(* Titles, amounts and dates are left out; a category is its key.          *)
(***************************************************************************)
EXTENDS Naturals

CONSTANTS
  Draft,        \* ids of expense requests
  Category,     \* keys of categories
  Sub,          \* ids of subcategories
  Upload,       \* object keys of uploaded files
  Call,         \* calls served at the same time
  None, Keep,   \* no subcategory; a field the patch leaves out
  MaxCalls      \* bound: calls ever started

ASSUME DraftsAssumption ==
  /\ None \notin Sub /\ Keep \notin Sub \cup {None} /\ Keep \notin Category
  /\ None \notin Category
  /\ MaxCalls \in Nat

Kinds == {"create", "update", "review", "presign", "attach", "detach", "subcategory"}

VARIABLES
  catalog,    \* of each category: absent, active or inactive
  under,      \* the category each subcategory was created under
  settings,   \* is there a settings document
  phase,      \* of each expense: absent, open (draft, returned) or closed
  category, sub, wish,  \* its categoryId, subcategoryId and metadata.taxonomy
  files,      \* of each expense and upload: absent, live or deleted
  place, input,  \* where each call is and what it asks for
  copy,       \* the expense as a call has loaded it
  plan,       \* what a call is going to write
  started     \* calls started

\* What a document of each collection is to the calls below.  Only the
\* category of a subcategory is read, never whether it is active; of the
\* settings, only that they exist.
CategoryDoc == {"absent", "active", "inactive"}
SubcategoryDoc == Category \cup {None}
AttachmentDoc == {"absent", "live", "deleted"}
SettingsDoc == BOOLEAN

draftsDocs == <<catalog, under, settings, phase, category, sub, wish, files>>
draftsVars == <<draftsDocs, place, input, copy, plan, started>>

Input == [kind : Kinds \cup {"none"}, expense : Draft \cup {None},
          category : Category \cup {Keep}, wish : Sub \cup {None, Keep}, upload : Upload \cup {None}]
NoInput == [kind |-> "none", expense |-> None, category |-> Keep, wish |-> Keep, upload |-> None]
Copy == [status : {"absent", "open", "closed"}, category : Category \cup {None}, wish : Sub \cup {None}]
NoCopy == [status |-> "absent", category |-> None, wish |-> None]
Plan == [category : Category \cup {None}, wish : Sub \cup {None}, sub : Sub \cup {None}]
NoPlan == [category |-> None, wish |-> None, sub |-> None]

DraftsTypeOK ==
  /\ catalog \in [Category -> CategoryDoc]
  /\ under \in [Sub -> SubcategoryDoc]
  /\ settings \in SettingsDoc
  /\ phase \in [Draft -> {"absent", "open", "closed"}]
  /\ category \in [Draft -> Category \cup {None}]
  /\ sub \in [Draft -> Sub \cup {None}]
  /\ wish \in [Draft -> Sub \cup {None}]
  /\ files \in [Draft \X Upload -> AttachmentDoc]
  /\ place \in [Call -> {"idle", "load", "category", "taxonomy", "write"}]
  /\ input \in [Call -> Input]
  /\ copy \in [Call -> Copy]
  /\ plan \in [Call -> Plan]
  /\ started \in Nat
  /\ \A e \in Draft : phase[e] # "absent" => category[e] \in Category

DraftsInit ==
  /\ catalog = [c \in Category |-> "absent"]
  /\ under = [s \in Sub |-> None]
  /\ settings = FALSE
  /\ phase = [e \in Draft |-> "absent"]
  /\ category = [e \in Draft |-> None]
  /\ sub = [e \in Draft |-> None]
  /\ wish = [e \in Draft |-> None]
  /\ files = [f \in Draft \X Upload |-> "absent"]
  /\ place = [r \in Call |-> "idle"]
  /\ input = [r \in Call |-> NoInput]
  /\ copy = [r \in Call |-> NoCopy]
  /\ plan = [r \in Call |-> NoPlan]
  /\ started = 0

At(r, step, kind) == place[r] = step /\ input[r].kind = kind
Subject(r) == input[r].expense
Finish(r) ==
  /\ place' = [place EXCEPT ![r] = "idle"]
  /\ input' = [input EXCEPT ![r] = NoInput]
  /\ copy' = [copy EXCEPT ![r] = NoCopy]
  /\ plan' = [plan EXCEPT ![r] = NoPlan]
  /\ UNCHANGED started

-----------------------------------------------------------------------------
(* Calls of one query: the catalog and the settings.                        *)

\* The normalized key is unique.
CreateCategory(c) ==
  /\ catalog[c] = "absent"
  /\ catalog' = [catalog EXCEPT ![c] = "active"]
  /\ UNCHANGED <<under, settings, phase, category, sub, wish, files, place, input, copy, plan, started>>

UpdateCategory(c, active) ==
  /\ catalog[c] # "absent"
  /\ catalog' = [catalog EXCEPT ![c] = IF active THEN "active" ELSE "inactive"]
  /\ UNCHANGED <<under, settings, phase, category, sub, wish, files, place, input, copy, plan, started>>

\* Reading the settings, also for a bulk limit or the dashboard, stores the defaults.
GetSettings ==
  /\ settings' = TRUE
  /\ UNCHANGED <<catalog, under, phase, category, sub, wish, files, place, input, copy, plan, started>>

-----------------------------------------------------------------------------
(* Calls of several queries.                                                *)

Ask(r, request) ==
  /\ place[r] = "idle"
  /\ started < MaxCalls
  /\ started' = started + 1
  /\ place' = [place EXCEPT ![r] = IF request.kind \in {"create", "subcategory"} THEN "category" ELSE "load"]
  /\ input' = [input EXCEPT ![r] = request]
  /\ UNCHANGED <<draftsDocs, copy, plan>>

\* ensureMutableRequestStatus, of an expense that exists.
Editable(e) == phase[e] = "open"

CopyOf(e) == [status |-> phase[e], category |-> category[e], wish |-> wish[e]]

\* A review starts from "submitted", one of the closed statuses; the others want an
\* expense that may be edited.  What a patch leaves out is taken from the copy.
LoadDraft(r) ==
  /\ place[r] = "load"
  /\ IF IF input[r].kind = "review" THEN phase[Subject(r)] # "closed" ELSE ~Editable(Subject(r))
     THEN Finish(r)
     ELSE /\ copy' = [copy EXCEPT ![r] = CopyOf(Subject(r))]
          /\ plan' = [plan EXCEPT ![r].category = category[Subject(r)],
                                  ![r].wish = IF input[r].wish = Keep THEN wish[Subject(r)]
                                              ELSE input[r].wish]
          /\ place' = [place EXCEPT ![r] = IF input[r].kind # "update" THEN "write"
                                     ELSE IF input[r].category = Keep THEN "taxonomy"
                                     ELSE "category"]
          /\ UNCHANGED <<input, started>>
  /\ UNCHANGED draftsDocs

\* The category is looked up among the active ones, by key or by id.
FindCategory(r) ==
  /\ place[r] = "category"
  /\ IF catalog[input[r].category] # "active" THEN Finish(r)
     ELSE /\ plan' = [plan EXCEPT ![r].category = input[r].category,
                                  ![r].wish = IF input[r].wish = Keep THEN @ ELSE input[r].wish]
          /\ place' = [place EXCEPT ![r] = IF input[r].kind = "subcategory" THEN "write" ELSE "taxonomy"]
          /\ UNCHANGED <<input, copy, started>>
  /\ UNCHANGED draftsDocs

\* Mutated form of Resolved: the subcategory is looked up by id alone.
ResolvedById(c, s) == IF s \in Sub /\ under[s] # None THEN s ELSE None

\* The subcategory the metadata name, if it was created under the category.
Resolved(c, s) == IF s \in Sub /\ under[s] = c THEN s ELSE None

\* resolveRequestTaxonomyFromMetadata.
FindSubcategory(r) ==
  /\ place[r] = "taxonomy"
  /\ plan' = [plan EXCEPT ![r].sub = Resolved(plan[r].category, plan[r].wish)]
  /\ place' = [place EXCEPT ![r] = "write"]
  /\ UNCHANGED <<draftsDocs, input, copy, started>>

\* Mutated form of CreateRequest: the category found is not written.
CreateRequestBare(r) ==
  /\ At(r, "write", "create")
  /\ \E e \in Draft :
       /\ phase[e] = "absent"
       /\ phase' = [phase EXCEPT ![e] = "open"]
       /\ sub' = [sub EXCEPT ![e] = plan[r].sub]
       /\ wish' = [wish EXCEPT ![e] = plan[r].wish]
  /\ Finish(r)
  /\ UNCHANGED <<catalog, under, settings, category, files>>

\* createRequest: a draft with the taxonomy that was found.
CreateRequest(r) ==
  /\ At(r, "write", "create")
  /\ \E e \in Draft :
       /\ phase[e] = "absent"
       /\ phase' = [phase EXCEPT ![e] = "open"]
       /\ category' = [category EXCEPT ![e] = plan[r].category]
       /\ sub' = [sub EXCEPT ![e] = plan[r].sub]
       /\ wish' = [wish EXCEPT ![e] = plan[r].wish]
  /\ Finish(r)
  /\ UNCHANGED <<catalog, under, settings, files>>

\* updateRequest writes the fields of the patch, and always the subcategory.
UpdateRequest(r) ==
  /\ At(r, "write", "update")
  /\ category' = [category EXCEPT ![Subject(r)] =
       IF input[r].category = Keep THEN @ ELSE plan[r].category]
  /\ wish' = [wish EXCEPT ![Subject(r)] = IF input[r].wish = Keep THEN @ ELSE plan[r].wish]
  /\ sub' = [sub EXCEPT ![Subject(r)] = plan[r].sub]
  /\ Finish(r)
  /\ UNCHANGED <<catalog, under, settings, phase, files>>

\* reviewRequest returns the expense with the metadata it had loaded.
Review(r) ==
  /\ At(r, "write", "review")
  /\ phase' = [phase EXCEPT ![Subject(r)] = "open"]
  /\ wish' = [wish EXCEPT ![Subject(r)] = plan[r].wish]
  /\ Finish(r)
  /\ UNCHANGED <<catalog, under, settings, category, sub, files>>

\* The upload address is made up; nothing is written.
Presign(r) ==
  /\ At(r, "write", "presign")
  /\ Finish(r)
  /\ UNCHANGED draftsDocs

\* An object key is registered once per expense, also after its deletion.
Attach(r) ==
  /\ At(r, "write", "attach")
  /\ files' = [files EXCEPT ![<<Subject(r), input[r].upload>>] = IF @ = "absent" THEN "live" ELSE @]
  /\ Finish(r)
  /\ UNCHANGED <<catalog, under, settings, phase, category, sub, wish>>

Detach(r) ==
  /\ At(r, "write", "detach")
  /\ files' = [files EXCEPT ![<<Subject(r), input[r].upload>>] = IF @ = "live" THEN "deleted" ELSE @]
  /\ Finish(r)
  /\ UNCHANGED <<catalog, under, settings, phase, category, sub, wish>>

\* createSubcategory: the category may have been deactivated since it was found.
CreateSubcategory(r) ==
  /\ At(r, "write", "subcategory")
  /\ \E s \in Sub :
       /\ under[s] = None
       /\ under' = [under EXCEPT ![s] = plan[r].category]
  /\ Finish(r)
  /\ UNCHANGED <<catalog, settings, phase, category, sub, wish, files>>

\* The process dies, a query rejects, or the caller is not the requester.
Abandon(r) ==
  /\ place[r] # "idle"
  /\ Finish(r)
  /\ UNCHANGED draftsDocs

\* The other actions of the workflow.
Move(e) ==
  /\ phase[e] # "absent"
  /\ phase' = [phase EXCEPT ![e] = IF @ = "open" THEN "closed" ELSE "open"]
  /\ UNCHANGED <<catalog, under, settings, category, sub, wish, files, place, input, copy, plan, started>>

-----------------------------------------------------------------------------
Begin(r) ==
  \/ \E c \in Category, s \in Sub \cup {None} :
       Ask(r, [NoInput EXCEPT !.kind = "create", !.category = c, !.wish = s])
  \/ \E e \in Draft, c \in Category \cup {Keep}, s \in Sub \cup {None, Keep} :
       Ask(r, [NoInput EXCEPT !.kind = "update", !.expense = e, !.category = c, !.wish = s])
  \/ \E e \in Draft, kind \in {"review", "presign"} :
       Ask(r, [NoInput EXCEPT !.kind = kind, !.expense = e])
  \/ \E e \in Draft, kind \in {"attach", "detach"}, f \in Upload :
       Ask(r, [NoInput EXCEPT !.kind = kind, !.expense = e, !.upload = f])
  \/ \E c \in Category : Ask(r, [NoInput EXCEPT !.kind = "subcategory", !.category = c])

Handle(r) ==
  \/ LoadDraft(r) \/ FindCategory(r) \/ FindSubcategory(r)
  \/ CreateRequest(r) \/ UpdateRequest(r) \/ Review(r)
  \/ Presign(r) \/ Attach(r) \/ Detach(r) \/ CreateSubcategory(r)

DraftsNext ==
  \/ \E r \in Call : Begin(r) \/ Handle(r) \/ Abandon(r)
  \/ \E c \in Category : CreateCategory(c) \/ \E active \in BOOLEAN : UpdateCategory(c, active)
  \/ GetSettings
  \/ \E e \in Draft : Move(e)

DraftsSpec == DraftsInit /\ [][DraftsNext]_draftsVars

-----------------------------------------------------------------------------
(* Properties.                                                              *)

\* The subcategory of an expense is the one its metadata name and belongs to its category.
Coherent(e) == sub[e] # None => under[sub[e]] = category[e] /\ sub[e] = wish[e]

\* A call whose copy of its expense is out of date.
Stale(r) ==
  \/ copy[r].category # category[Subject(r)]
  \/ copy[r].wish # wish[Subject(r)]

\* Only a write whose copy is out of date makes the subcategory of an expense disagree
\* with its category or its metadata: updateRequest and reviewRequest write what they
\* derived from the expense they loaded (expenses.service.ts:812, 1611).
IncoherenceNeedsARace ==
  [][\A e \in Draft : Coherent(e) /\ ~Coherent(e)' =>
       \E r \in Call : place[r] = "write" /\ Subject(r) = e /\ Stale(r)]_draftsVars
=============================================================================
