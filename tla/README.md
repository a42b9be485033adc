# Verification of the SaaS core API

TLA+ models, TLC runs and TLAPS proofs for the stateful core of this repository: a multi-tenant API (Express, Mongoose,
MongoDB transactions) under `src/src`. Line numbers refer to the commit in `src/`.

## 1. Inventory

The server is one or more Node processes over one MongoDB replica set. A request is a chain of `await`s: between two of
them any other request, of the same or of another process, may run. What survives a process is in MongoDB; what a process
keeps for itself is two maps of `AuthService` and the rate limiter. Multi-document changes run in
`session.withTransaction`, which has snapshot isolation (write conflicts abort, write skew does not) and **calls its
callback again** after a transient error, on the same Mongoose documents if they were loaded outside.

| Component | State it keeps | Operations | What is hard | What makes it correct |
|---|---|---|---|---|
| Auth, sessions (`core/platform/auth`) | `auth_sessions`, in-flight map and replay cache per process | login, refresh, logout, logoutAll, the sessions of a password change | refresh callers racing; retried transactions; crash between commit and cache; several processes | one successor of a session per process, revocation final, tokens only for committed sessions, nobody waits for ever |
| Auth, account (`core/platform/auth`, `core/platform/users`) | `users`, `user_security`: status, password, tokens, failed logins, two-factor | register, verify, resend, forgot, reset, change, failed login, two-factor set-up, confirmation, disabling, recovery codes | documents loaded early and saved late, saves that send a part of them, deliveries that fail | a recovery code admits once, a reset token is used once |
| Audit (`core/platform/audit`) | `audit_outbox`, `audit_logs` | record, deliver, flush before a read | many deliveries of one entry, failing calls, crash between insert and delivery | captured first, at most one log, delivered implies logged, eventually logged |
| Billing and the subscription (`core/platform/billing`, `TenantService`, `resolveTenantContext`) | `billing_checkout_sessions`, `billing_events`, the tenant's status, plan and modules | checkout, webhook, assign, cancel, gate | redelivered and reordered webhooks, stale tenant documents, lost requests | activation only when paid, one outcome per event, explicit state machine, audited transitions |
| Tenancy (`core/tenant`) | `tenants`, `memberships`, `invitations` | create tenant, invite, accept, revoke, transfer ownership, switch tenant, update and delete membership | write skew of limits and ownership, stale invitations, retries | the owner is an active member, limits hold, a revoked invitation admits nobody |
| Inventory (`modules/inventory`) | items, lots, balances, movements, stocktakes | movement, transfer, lot, stocktake, reconciliation | optimistic updates, idempotency keys, three records of one quantity, stocktakes saved from stale copies, a report that reads at several moments | no negative stock, a ledger that explains it, a reported drift that is explained, one movement per key |
| Expenses (`modules/expenses`) | requests with status, dates, category, metadata; categories, subcategories, attachments, settings | create, update, submit, review, approve, reject, cancel, pay, in bulk; attach, detach; catalog | every check is on a document loaded before the update, and the update asks for the id alone | a status changes along the machine, its dates account for it, a subcategory fits its category |
| HR (`modules/hr`) | employees and their managers, compensations | create, update, delete, compensation | a chain checked query by query before the write | no cycle of managers, walks end |
| CRM (`modules/crm`) | contacts, organizations, opportunities, activities, counters | create, update, delete, change of stage, activity | counts against the documents they count, references against deletions, a snapshot transaction beside plain updates | counters exact when quiet, references alive |
| Start-up, connection, monitor (`app/runtime.ts`, `infrastructure/database`, `infrastructure/operations`) | phase of the process, state of the connection, sweep, snapshot and alerts | start, retry, listen, shut down, reconnect, sweep, health | outages at any moment, signals during a shutdown, connections kept busy, ticks during a sweep | drain before disconnecting, health that is true, starts and shutdowns end |
| Settings (`core/platform/settings`, `core/tenant/settings`), RBAC (`core/platform/rbac`) | one platform document, one per tenant; roles, plans, modules | get, update; resolution | nothing concurrent beyond one update | defaults inherited; a role grants what its definition and the plan allow |
| Middleware, rate limiter, redis, e-mail, OpenAPI, tests | none of the business state | routing, delivery | - | - |

Components call each other directly: every operation records an audit event, inside its transaction when it has one;
billing and tenancy write the same tenant document; the gate reads, and at the end of a grace period writes, it on every
business request; switching tenants writes the session document that auth rotates.

## 2. Modules

| Module | Models |
|---|---|
| `SessionChain` | Abstract: the sessions of a user form chains; a refresh retires a session and appends a successor in one step, which a process does once per session |
| `AuthSessions` | The sessions and credentials of one user, served by several processes |
| `AuthSessionsProofs` | Theorems about it, the refinement of `SessionChain` among them |
| `AuditTrail` | Abstract: an event is durable first and is logged at most once |
| `AuditOutbox` | `AuditService.record` and the flush of its outbox |
| `TenantSubscription` | Checkout, webhooks, assign, cancel and the gate on one tenant |
| `TenantSubscriptionProofs` | Theorems about it |
| `Tenancy` | Owner, memberships and invitations of one tenant |
| `TenancyProofs` | Theorems about it |
| `Inventory` | Stock, balances, ledger and stocktakes of one tenant |
| `InventoryReconciliation` | The reconciliation report of the tenant, beside the commands of `Inventory` |
| `InventoryProofs` | Theorems about both |
| `AuthAccount`, `AuthAccountProofs` | The account of one user: verification, tokens, failed logins, two-factor, and theorems |
| `HrEmployees`, `HrEmployeesProofs` | Employees, managers and compensations of one tenant, and theorems |
| `ExpenseRequests` | The workflow of expense requests, single and in bulk |
| `ExpenseDrafts` | What an expense says while it may be edited, its attachments and the catalog |
| `ExpensesProofs` | Theorems about both |
| `CrmPipeline` | Contacts, organizations, opportunities, activities and counters of one tenant |
| `AppProcess` | One process: start-up, connection, monitor, shutdown |
| `PlatformProofs` | Theorems about `AuditOutbox`, the refinement of `AuditTrail` among them, `CrmPipeline` and `AppProcess` |
| `MC...` | The constants TLC needs |

All state modules share one form. A request `r` is a process with a program counter `pc[r]` (in `ExpenseDrafts` a call
with its `place[r]`); each stretch of a handler between two `await`s that touch the database is an action whose guard is
the code's condition; `input[r]` is what it was asked, `view[r]` (`seen[r]`, `copy[r]` in the later modules) what it has
loaded and may be stale, `clean[r]` and `tx[r]` its transaction. `idle` is a request that has not arrived,
`done`/`failed`/`lost` one that is over, so behaviours end and the runs say `CHECK_DEADLOCK FALSE` (except
`audit_outbox`, whose readers can always come back).

### Database and Mongoose (external)

These rules of the libraries are assumed, each where the code relies on it:

- `withTransaction` has snapshot isolation: a write of a document that another transaction has written, or committed since
  the snapshot, is a WriteConflict, a transient error; reads conflict with nothing. After a transient error the callback
  runs again; an error of the application aborts and is rethrown.
- `save()` sends the modified paths and nothing else; assigning an equal value modifies nothing; a save that succeeded
  clears the list **also if its transaction is aborted afterwards** (`clean`). A save without modified paths only asks that
  the document exists. Replacing an array adds a condition on `__v` (VersionError, not transient).
- Unique indexes refuse the second insert, inside transactions as well.

### `AuthSessions` (`auth.service.ts`, `authenticate.middleware.ts`, `switchActiveTenant`)

`session` and `security` are the documents of one user; `refreshInFlightByTokenHash` and `refreshReplayCacheByTokenHash`
are the two maps, one pair per process; `Crash(p)` empties them and loses the requests of `p`. A refresh token is named
by the session whose document holds its hash. `Receive` is the middleware (a live session, or none needed);
`RefreshReceive` is the top of `refresh`: join the in-flight promise, answer from the replay cache, or lead. The `Load*`
and `Find*` actions are the reads before the transaction; `TxBegin`, `TxSave` (one per document, in any order),
`TxConflict`, `TxAbort`, `TxFail`, `TxCommit` are the transaction; `RefreshAnswer` fills the cache and settles the
waiters; `ForgotSave`, `ForgotDelivered`, `ForgotRestore` are the three writes of forgotPassword, which has no
transaction. `parent`, `by` and `retires` of a session are history: the session it was refreshed from, the process that
did it, and whether the same commit revoked the parent.

`SessionChain` is the promise of each process: `Rotate(p, s, t)` retires `s` and appends `t` in one step, and `p` never
does it again for `s`. `Slip(p, s, t)` is what the code adds: a refresh that is run again after a transient abort commits
the successor and does not write the status. `RefreshesRetire` bounds it: no slip without such an abort.

### `AuditOutbox` (`audit.service.ts`)

`delivery` is the delivery field of each outbox entry, `logs` the number of logs per `sourceOutboxId`. A worker records an
entry (`Record`, insert before anything else) or reads a scope (`Flush`, the oldest `Batch` pending entries); either runs
`deliverOutboxEntry` per entry: `Load`, `Create`, `Find` (after any error of the insert), `SaveDelivered`/`SavePending`,
which write the whole field from what was loaded. Each call may fail before or after its effect. `Finish` is the answer
after `Promise.all`. `AuditTrail` is the promise: captured, then logged at most once.

### `TenantSubscription` (`billing.service.ts`, assign/cancel of `tenant.service.ts`, `resolveTenantContext`)

`tenant` (status, plan, `__v`), `checkout`, `event`. A webhook is `Receive`, `LookUp` (both duplicates queries),
`InsertEvent` (unique index), then `IgnoreEvent`, `ApplyPaid` or `ApplyTerminal` (each one transaction that loads what it
writes), then `Audit`. Assign and cancel load the tenant, then `Commit` its dirty paths or `Abort` and run again. The gate
loads, awaits, then `Gate` or `GateSuspend`. The active modules follow the plan, so `plan` stands for both.

### `Tenancy` (`tenant.service.ts`, `tenant-memberships.service.ts`)

`ownerUserId`, `membership` (by user, the unique index), `invitation`. An invitation is sent by `Invite`, `InviteFind`
and either `Resend` (a save of the loaded document, no transaction) or `InviteInsert`. `Accept` makes the checks
outside, `Expire` the mark outside, `AcceptBegin` the checks inside. `Revoke`/`RevokeBegin` and
`Transfer`/`TransferBegin` decide on documents loaded before the transaction; `Change`/`ChangeBegin` (update and delete)
load everything inside. `Commit`, `Retry` and `Fail` end every attempt: `tx[r].missed` collects what others commit after
the snapshot, and a commit needs its `writes` to be disjoint from it. The owner's own role is not special in the data;
`tenant.ownerUserId` is.

### `Inventory` (`inventory.service.ts`)

`stock` (items), `balance` (item and warehouse), `ledger` (the movements of an item in commit order, with the stock they
found and left), `stocktake`, `active` (items and warehouses). `Ask` looks up the idempotency key, outside the
transaction; `MoveBegin` (createStockMovement: the item alone), `ExitBegin` and `TransferBegin` (createMovementCommand),
`ApplyBegin` (applyStocktake) take the snapshot and decide on it; `Commit` writes all, if nothing it writes was
committed since (`stale`), `Retry` is the callback run again, `Fail` the end without effect. `Load` then `CountSave` or
`CancelSave` are the stocktake operations without a transaction. Four facts of the code shape the model:

- **Nothing can be received.** Every upsert of a lot names `currentQuantity` in both `$setOnInsert` and `$inc`, and
  createLot does the same with the balance; MongoDB refuses an update that names a path twice, so entries, returns,
  adjustments in and createLot end in an error (`Receive`) and `consumeLots` finds no lot. `updateSettings` (`$set` and
  `$setOnInsert`) is refused too, so no settings exist and the reconciliation monitor finds no tenant to look at.
  Balances come from stocktakes.
- The compare-and-set filters (`INVENTORY_STOCK_CONFLICT`) never fail: in the snapshot they were read from they match, and
  a concurrent change is a WriteConflict, which retries.
- `deleteItem` leaves the balances of its item active, and `createStockMovement` leaves all balances alone; what
  getReconciliation makes of both is in `InventoryReconciliation`.
- A transfer reads the item and does not write it, so its row may record a stock that a movement before it in the ledger
  has changed; `LedgerExplainsStock` is about the other rows.

A stocktake has one line per item in the model; in the code the last of several lines of one item wins, lots are ignored.

### `InventoryReconciliation` (`getReconciliation`)

The report sums the stock of the **active** items (`ReadItems`) and the stock of **all** balances (`ReadBalances`), in
aggregates that run at once and without a session, so in either order and with any commits between them; `Drift` is the
difference and `Answer` ends the report. Each aggregate is assumed to read its collection at one moment. The third one,
of the movements of the last days, has no part in the drift and is left out. A report takes one of the `MaxRequests`
requests. `DriftIsExplained` accounts for the drift to the unit, from the ledger: an item that was counted contributes its
initial stock, its direct movements and what was located between the two reads; an item that was not counted (deleted
before) contributes less what it left in the warehouses. `counted`, `itemsAt` and `balancesAt` are history.

### `AuthAccount` (`auth.service.ts`, `user.model.ts`, `user-security.model.ts`)

`account` is the user and its security document in one record. A request loads the user (`LoadUser`), then the security
document and decides on it in the same step (`LoadSecurity` inside `VerifyEmail`, `ResetPassword`, `Login`, ...). What
it has changed of its copy is `patch[r]`; `Save`, `SaveChallenge`, `Restore` and `Commit` send exactly that.
`outdated[r]` is the version condition that Mongoose adds when the list of recovery codes is among the modified paths
(`VersionMatches`, `VersionFails`). `Abort` is a transaction that runs again after some of its saves, which are then not
sent again. `Deliver`/`DeliveryFails` end forgotPassword and resendVerification: the second puts the former token back.
`Lapse` ends a lockout. The sessions that the same handlers create or revoke are those of `AuthSessions`; a TOTP code
that is right is the input without a recovery code. `uses`, `used`, `back` and `usedBefore` are history.

### `HrEmployees` (`hr.service.ts`)

`status`, `manager`, `pay` are the documents. `updateEmployee` is `LoadEmployee`, `CheckManager`, then `Walk` once per
employee of the chain above the new manager (`trail[r]` is `visited`, `cursor[r]` the next id), then `UpdateEmployee`;
`deleteEmployee` is `CountReports`, `Remove`, `Unpay`; `updateCompensation` is `CheckEmployee`, `LoadPay`, `WritePay`.
`Fail` ends a request anywhere: a refused validation, a query that rejects, a process that dies.

### `ExpenseRequests` and `ExpenseDrafts` (`expenses.service.ts`, `expense-workflow.machine.ts`)

`ExpenseRequests` has the status and the dates. A call is `Load` (findRequestOrThrow and the machine, on the loaded
status), one of six writes by id (`SubmitRequest` ... `MarkRequestAsPaid`), then `Audit`. A bulk call passes `Limit`,
goes through its list in order (`Advance`), keeps the failures of its items (`ItemFails`) and ends in `Summary`.
Initially the expenses have any status with its dates. `ExpenseDrafts` has category, subcategory, metadata (reduced to
the subcategory it names, `wish`), attachments, catalog and settings; `Move` stands for the workflow, which opens and
closes an expense at any moment, except `reviewRequest`, which is there in full (`LoadDraft`, `Review`) because it
writes the metadata back. An update is `LoadDraft`, `FindCategory`, `FindSubcategory`, `UpdateRequest`. Two facts of the
code shape the model: `updateSettings` names the same paths in `$set` and `$setOnInsert`, which MongoDB refuses, so
settings are what `getSettings` stores; and nothing that is modelled reads `approvalMode`, `maxAmountWithoutReview`,
`allowedCurrencies`, `requiresAttachment` or whether a subcategory is active.

### `CrmPipeline` (`crm.service.ts`)

`status`, `stage`, `contact`, `organization`, `mentioned` are the documents, `counters` what is stored of the counts. A
creation or deletion is its checks (`CheckContact`, `CheckOrganization`, `CountUses`), its write, then the
synchronization: `Count` once per field in any order (`Promise.all`), `SyncCounters`, `RecordAuditLog`.
`changeOpportunityStage` is `TxLoad`, `TxCommit`: it reads one state and is tried again (`TxRetry`) when a document it
writes was written meanwhile (`lost[r]`, by `Touch`). `alone` holds the requests during which no other was under way.
The state at first is any set of existing documents in any stage, with exact counters.

### `AppProcess` (`runtime.ts`, `connection.ts`, `inventory-reconciliation-*.ts`, `go-live-readiness.ts`)

One process: `phase` of startApplication or shutdown, `ready` (readyState of Mongoose) with `reported` (what `/health`
says) and `client` (is a client open behind it), `server`, `inflight`, `idle`, `timer`, `sweep`, `snapshot` and
`announced` (the alerts last logged). `Attempt`, `ConnectSucceeds`, `ConnectFails`, `RetryConnect` are `connect` with
its bounded retries; `Lose` and `Return` are the connection going away and coming back, which the listeners see at once
(`Becomes`); `Tick`, `FindTenants`, `CheckTenant`, `SweepCompletes`, `SweepFails` are the monitor, `SweepEnds` its
`finally`; `Shutdown`, `Signal`, `ServerClosed`, `DisconnectSucceeds`, `DisconnectFails` the way out. `server.close`
ends the connections that are idle and takes no new one; one that was busy may be kept alive after its answer (`idle`),
carry the next request (`AcceptOnIdle`) or end (`CloseIdle`), and `close` calls back when none is left. A second SIGTERM
meets no handler (`once`) and kills the process.

## 3. Runs

| Run | Bounds | Shows |
|---|---|---|
| `auth_rotation` | 2 processes, 3 requests, 4 sessions, 1 abort, 1 crash; refresh and logoutAll | A process gives a token one successor and its callers that one, cached results are the committed ones, only a retry after an abort leaves the session active, nobody waits for a promise nobody settles (`RefreshIsCoherent`); refines `SessionChain` |
| `auth_operations` | 2 processes, 2 requests of all kinds, 4 sessions, 1 abort | Tokens are only handed out for committed sessions, replacements exist (`CommitsAreWhole`), a revoked session stays revoked, every request is answered |
| `auth_account` | 2 requests at a time, 4 in all, of 12 kinds; 2 tokens, 2 recovery codes, 2 failures lock | A recovery code admits one request; a reset token works twice only for requests that loaded it together, or after a failed delivery |
| `audit_outbox` | 2 workers, 3 entries in 2 scopes, batch 1, 1 error, 1 crash | Refines `AuditTrail` (delivered means logged, logged at most once), every durable event is logged in the end |
| `billing_subscription` | 3 requests of all kinds, 2 checkouts, 4 events, 2 plans (one retired), 1 abort, 1 lost request | No activation without payment, one outcome per event, what is answered is audited, a stored event settles unless its request was lost |
| `tenancy` | 3 users, 3 requests of all kinds, 2 invitations, limit 2, 1 abort | Acceptances are of pending invitations, the owner's membership is protected |
| `inventory` | 2 items, 2 warehouses, 1 stocktake, 1 key, 2 requests at a time and 3 in all, of all kinds, reports among them | No negative stock or balance, the ledger explains every stock, a reported drift is explained to the unit, a key moves once, adjustments are of open stocktakes and leave what was counted |
| `hr_employees` | 4 employees (3 at first), 1 salary, 2 requests at a time and 3 in all, of all kinds | Only a walk out of date closes a cycle of managers; every walk ends, on a cycle too |
| `expense_requests` | 3 ids, 2 expenses in any status, lists of 2 and 3, bulk limit 2, 2 calls | Only a stale write leaves the edges of the machine, and even then the dates account for the status |
| `expense_drafts` | 1 expense, 2 categories, 1 subcategory, 1 upload, 2 calls at a time and 4 in all | Only a stale write makes a subcategory disagree with its category or metadata |
| `crm_pipeline` | 1 contact, 1 organization, 1 opportunity in any status and stage, 2 requests | A request that runs alone leaves exact counters; a reference to a deleted organization takes two requests |
| `app_process` | 1 retry, batches of 2 tenants, 2 requests at once, 3 ticks, alerts at low thresholds | Health, snapshot and alerts agree with the state; a shutdown drains before it disconnects and releases the client unless the connection is down; starts end, and shutdowns when the clients stop |

**Why the bounds are enough.** The hazards are races of two handlers plus one that prepares or observes: two at a time
and three or four in all reach each of them. Two processes are what tells a per-process map from a shared one. Four
sessions let a session be refreshed twice and another be created; two entries of a scope and a batch of one make a flush
leave something behind; two invitations let one be open while another is closed. In `inventory` a stocktake fills a
balance, which the two other requests then race for; requests run again without a bound. A cycle of managers needs two
changes over two or three employees, a third change walks on it. In `auth_account` four requests register, verify, send
a token and use it, and the two codes are a batch each. `expense_requests` and `crm_pipeline` start anywhere (any
status, any stage), so that two calls meet everything; `expense_drafts` needs its four calls for a subcategory, an
expense, and two edits that race. Aborts, errors, lost requests and crashes are counted where they can be repeated for
ever (`MaxAborts`, `MaxErrors`, `MaxLost`, `MaxCrashes`); the theorems hold for any number. A crash is in
`auth_rotation` and not in `auth_operations`, which would outgrow a run with it: it loses the two maps, which only
refreshes use; `CommitsLeaveWholes` and `RevocationIsFinal` are proved with any number of crashes. Symmetry is used in
runs without liveness only.

**Time** is never modelled: whatever expires may be found expired whenever it is looked at, and a replay entry, a
lockout or the interval of a timer may lapse at any moment.

**Fairness.** `AuthSessions`: weak fairness of each accepted request (`Serve(r)`): Node runs every continuation and the
driver settles every call; crashes, aborts and lapses are not fair. `EveryRequestAnswered` is checked without a crash,
in `auth_operations`: a crash ends the requests of its process and keeps nobody of another waiting, since a promise is
of one process. `AuditOutbox`: weak fairness of each delivery and of the answer; `EventsReachTheLog` is conditional on
readers of the scope coming back, since only a later read flushes what a crash left. `TenantSubscription`: weak fairness
of the next await of each request; a request may be lost (`MaxLost`) and `StoredEventsSettle` names that case.
`HrEmployees`: weak fairness of `Serve(r)`. `AppProcess`: weak fairness of the next step of the start or the shutdown
(`StartOrStop`), of `Respond`: a handler answers its request; and of `CloseIdle`: a connection that stays idle meets
Node's keepAliveTimeout. The connection to the database, the ticks and the signals owe nothing, and a client may keep
its connection busy for ever: the second half of `StartsAndStopsEnd` is conditional on `ClientsStop`. No fairness is
assumed of clients, except as the property says.

## 4. Divergences met while modelling

What the code does where a document says otherwise, or more. They are behaviours of the modules, found by TLC; the
properties of the runs are stated so as to name them (a race, a stale write), not to hide them.

- **Two processes fork a session.** The in-flight map is in one process, the status is checked before the transaction only,
  and the retry after the write conflict repeats the stale callback: `RefreshIsCoherent` and `SessionChain` promise one
  successor per process.
- **A refresh may leave its session active** when a transient abort follows the save of it: the retry saves the
  replacement again but not the status, which is no modified path any more (`Slip`). The token can then be refreshed
  again, by the same process.
- **changePassword may succeed without writing the password**: `withTransaction` repeats its callback on documents loaded
  outside; what an aborted attempt saved is not sent again (the same in confirm, disable and verifyEmail: `Abort`).
- **A reset token may be used twice**, by two requests that loaded it, and a failed delivery writes a former token back over
  the one that replaced it or over a reset; docs/arquitectura/ANEXO_01_IDENTIDAD_AUTH.md speaks of the latest token.
- **Failed logins may count once** when they run together (the counter is computed in the copy); recovery codes are
  generated and stored by confirm and regenerate, which do not return them.
- **A redelivered webhook is answered duplicate** whatever the status of its event, also `RECEIVED` after a crash; two
  events with one operation key are both applied; a late terminal event of an abandoned checkout suspends a tenant that
  has paid through another; grace lets a tenant through that never paid.
- **cancelSubscription may leave the plan**: it is not a modified path when the loaded copy had none. The gate saves
  `suspended` over a payment it did not see.
- **An ex-owner may transfer the ownership again**: owner and target are checked before the transaction. A resend gives an
  accepted or revoked invitation a live token; the member limit has a write skew, and reactivation does not look at it.
- **A count or a cancelation saves over an applied stocktake.** Entries of the inventory, its settings and the settings of
  the expenses cannot be written (an update names a path twice).
- **Cycles of managers** exist after two concurrent changes (ADR_HR_PRIVACIDAD_Y_ACCESO.md:27 excludes them); `visited`
  keeps later walks finite and refuses changes above the cycle. A hire between the count and the deletion keeps a
  deleted manager; a crash before the compensation is written leaves it active.
- **Statuses of expenses** may leave the machine by a stale write: approved after canceled, paid twice with two references.
  An item of a bulk call may be reported as failed after its status was written.
- **CRM counters drift** when two synchronizations cross or one is lost, until the next one that runs alone; nothing
  reconciles them on reading (docs/cierres/ETAPA_09_CIERRE.md:16).
- **The reconciliation report counts deleted items on one side only**: their balances stay active and their stock is not
  summed, so after a deletion the drift is lower by what they left. It also counts whatever commits between its reads.
- **A shutdown that meets an outage** ends cleanly and leaves a client that reconnects (connection.ts:361); so does a start
  that gives up. Skipped ticks never recover their alert; a check that fails resets the drift run; a shutdown asked by the
  caller and then by SIGTERM leaves the exit code unset. Nothing ends the connections that clients keep busy, so a shutdown
  may wait for them for ever (runtime.ts:114).
- **The outbox** starves a scope if its oldest fifty entries can never be delivered; `MaxErrors` bounds errors here.

## 5. Theorems

All are theorems of the specification (no fairness) for every value of the constants under the assumption of the module:
kinds of ids are disjoint, the `No...` values are outside their sets, bounds are naturals, and what is counted or summed
is finite (`Warehouse` in `InventoryAssumption`, the documents in `CrmAssumption`). Modules that share a proof module
name theirs apart (`ProcessSpec`, `CrmSpec`, `DraftsSpec`). Every invariant and action property of a run is a theorem. A
theorem whose property no run checks (it was checked while the invariant was built) is about a conjunct of one that is,
or stands alone. TLC has checked each inductive invariant on the instance of its run before it was proved.

- **`AuthSessionsProofs`**: `TypeCorrect`, `NoOrphanWaiters`, `AnswersCommitted`, `ReplacementsCommitted`,
  `RevocationIsFinal`, `CommitsLeaveWholes`. The inductive invariant adds to the type what each place of a handler knows:
  who is in the in-flight map is a request of that process at one of four places (`InFlightInv`); a session an attempt
  creates is unused until the commit, and what is answered was published by one (`AnswerInv`). On it rest
  `SessionsHaveOneSuccessor`, `SessionsImplementChain` and `RefreshesAreCoherent`, for any number of processes and
  aborts. What makes a process coherent is its in-flight map: of its requests only the
  leader of `s` gets past the load, so between the load and the commit the process has not retired `s` (`RotationInv`), and
  nothing is cached for `s` meanwhile (`UncachedInv`). What it has cached or answered for `s` is then a successor it gave
  `s`, and what it has cached is what `s` names, unless another process has refreshed `s` too (`SuccessorInv`). That a
  refresh leaves `s` active only after an abort (`RefreshesRetire`) follows from `clean`: a document that no aborted attempt
  has saved is saved with its status, and a conflict on it is a failed save, which leaves it modified.
- **`AuthAccountProofs`**: `AccountTypeCorrect`, `CodesAdmitOnce`, `TokensAreReusedInARace`. A save that puts a list of
  recovery codes back will succeed only if its version is the one that was loaded, so a list in `patch[r]` that is not
  `outdated[r]` holds given, unused codes, as the account does (`CodesInv`). Of the tokens, the one the account holds is
  unused unless a failed delivery has put it back, and one whose first save is to come is known to nobody else
  (`TokenInv`).
- **`PlatformProofs`**, the outbox: `OutboxTypeCorrect` (at most one log per entry), `DeliveredIsLogged`,
  `OutboxImplementsTrail`, `AnswersComplete`. The invariant ties the step of a delivery to the log: past `Create` or `Find`
  there is one.
- **`PlatformProofs`**, the process: `ProcessTypeCorrect`, `HealthIsTrue`, `ShutdownsRelease`. The alerts last announced are
  those of the snapshot: the count of skipped ticks never goes down, so its alert, which nothing recovers, stays true. What
  a shutdown has stopped stays so while it goes on (`StopInv`), and the server is closed only when no connection is left
  (`ConnectionsOK`).
- **`PlatformProofs`**, the CRM: `CrmTypeCorrect`, `LoneSyncsHeal`, `DanglingTakesARace`. While a request is alone, what it
  has found is still there and what it has counted is still the count (`AloneInv`), so the synchronization
  that ends it leaves exact counters whatever they were before, and its write leaves no reference dangling.
- **`TenantSubscriptionProofs`**: `SubscriptionTypeCorrect`, `ActivationIsPaid`, `OneOutcomePerEvent`, `ChangesAreAudited`.
  The invariant carries the payment in what requests hold: a view with a plan, an input with a checkout to assign, was
  backed by a processed payment when loaded, and processed events stay; at most one request is applying an event.
- **`TenancyProofs`**: `TenancyTypeCorrect`, `OneInvitationPerAddress`, `ClosedIsFinal`, `AcceptanceIsOfPending`,
  `OwnerIsProtected`. `RequestInv` bounds what an attempt writes by its kind; `AttemptInv` says that what an attempt checked
  in its snapshot still holds unless it misses the commit that changed it (`OpenAttempt`: others change nothing it reads
  without adding to `missed`).
- **`InventoryProofs`**: `ReportTypeCorrect` (no negative stock or balance), `LedgersExplainStocks`, `KeysMoveOnce`,
  `DeletedItemsKeepTheirStock`, `AdjustmentsCloseStocktakes`, `DriftsAreExplained`; the first and the last are of
  `ReportSpec`, the others of `Spec`, to which a report adds nothing but `asked`. The invariant `IInv` says of an open
  attempt that it passed the checks of its kind (`Checked`) and, while no commit has made it stale, that what it read of
  the documents it writes is what they hold (`Fresh`): the items are active with the stock found, its key has no movement,
  its stocktake is open. Each theorem then reads off `Commit` that new states are made of found ones; `MoveExplains` and
  `TransferExplains` extend a ledger by one row. The drift needs the same of the balances (`Exact`), that the ledger of an
  item adds up to its stock and its located rows to its balances (`Adds`), and that a read of the report agrees with the
  ledger as it was then (`ReadOK`): ledgers only grow, so later commits do not disturb it. It also needs sums: the module
  unfolds the library's `SumFunction` and shows that a sum exists, is one, is an integer and may take any element first,
  each by a least set of arguments that would disagree (`Smallest`, from the well-foundedness of the strict subsets of a
  finite set); `SumExcept`, `SumAppend`, `SumMore` and `SumMinus` are what the balances, the ledger and the two totals use.
- **`HrEmployeesProofs`**: `HrTypeCorrect`, `CyclesAreRaces` and, for finitely many employees, `WalksAreBounded` (the
  employees a walk has not visited get fewer with each query, so under fairness it ends). `TrailInv` says that the trail
  of a walk starts at the new manager and never passes the employee; a write whose trail still holds then leaves every
  cycle-free set of employees cycle-free: a cycle through the new edge would have to run along the trail, which ends at
  the top. `Acyclic` is stated with sets (no nonempty set of employees is closed under having its manager in it), so
  that no recursion is needed.
- **`ExpensesProofs`**, requests: `ExpensesTypeCorrect`, `EvidenceOfStatus`, `MovesAreEdgesOrStale`. The invariant says that
  a call holds a status it has really loaded, whose evidence stays: dates are added and never removed, so a stale write
  that leaves the machine still finds the dates of what it checked.
- **`ExpensesProofs`**, drafts: `DraftsTypeCorrect`, `IncoherenceTakesARace`. A subcategory stays under its category, so the
  one a call has found goes with what it is going to write (`SubInv`), and what its patch leaves out is what it loaded
  (`CopyInv`): an expense that becomes incoherent had changed since.

Only model-checked: the liveness properties (`EveryRequestAnswered`, `EventsReachTheLog`, `StoredEventsSettle`,
`WalksEnd`, `StartsAndStopsEnd`), since the prover has no fairness or ENABLED; of `WalksEnd` the variant is proved
(`WalksAreBounded`).

## 6. Not modelled

- Tenant and platform settings: one document written by one update; the bootstrap is two steps of `AppProcess`.
- RBAC: pure resolution from constants and documents.
- Categories, names and prices of the inventory; `updateSettings` (refused by MongoDB) and `updateSubcategory` (nobody reads
  what it writes) of the expenses.
- Middleware, rate limiter, redis, logging, e-mail transports: libraries and I/O. Authentication, the gate and a failed
  delivery are modelled where they touch state.
- Reads that change nothing, validation, views, metrics, exports and wording, everywhere. A refused validation is a request
  that fails.
- Several tenants or several users do not interact in the modelled operations, except through `switchActiveTenant`.

## 7. Plan

1. The member limit of `Tenancy` with the plan changes of `TenantSubscription`.
2. Inventory categories (createItem against deleteCategory) and an abstract stock that `Inventory` implements, with the
   refinement proved: `LedgerExplainsStock` and `DriftIsExplained` as one mapping.
3. RBAC as a pure operator against a reference definition; the settings with their bootstrap by two processes.
