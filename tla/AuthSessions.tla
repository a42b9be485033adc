---------------------------- MODULE AuthSessions ----------------------------
(***************************************************************************)
(* The sessions of one user as AuthService keeps them: login, refresh,    *)
(* logout, logoutAll, changePassword, forgotPassword and resetPassword,   *)
(* and TenantService.switchActiveTenant, which saves the same documents.  *)
(*                                                                         *)
(* An operation loads Mongoose documents, changes them in memory and saves *)
(* them in a transaction run by session.withTransaction, which calls its  *)
(* callback again after a transient error.  The documents live outside    *)
(* the callback: a save that succeeded in an attempt that was then        *)
(* aborted has cleared the document's list of modified paths, so the next *)
(* attempt does not write those paths again (the variable clean).         *)
(*                                                                         *)
(* Time is not modelled: a load may find the token expired whenever it    *)
(* happens, and a replay cache entry may lapse at any moment.             *)
(***************************************************************************)
EXTENDS Naturals, FiniteSets

CONSTANTS
  Proc,             \* server processes (each has its own AuthService)
  Req,              \* requests the clients send
  Sid,              \* ids of auth_sessions documents, in insertion order
  Tenants,          \* tenants the user is an active member of
  Kinds,            \* the operations requests may ask for
  InitialSessions,  \* sessions that exist when the behaviour starts
  Sec,              \* the id of the user's user_security document
  NoProc, NoSid, NoReq, NoTenant, NoToken,
  FirstPassword,    \* the password at the start
  MaxAborts,        \* bound: transient aborts other than write conflicts
  MaxCrashes        \* bound: process crashes

\* The operations authenticate.middleware lets through only with a live session.
Authenticated == {"logout", "logoutAll", "changePassword", "switchTenant"}

AllKinds == Authenticated \cup {"login", "refresh", "forgotPassword", "resetPassword"}

ASSUME ConstantsAssumption ==
  /\ Kinds \subseteq AllKinds
  /\ Sid \subseteq Nat
  /\ InitialSessions \subseteq Sid
  /\ Sec \notin Sid /\ NoSid \notin Sid /\ NoReq \notin Req /\ NoProc \notin Proc
  /\ MaxAborts \in Nat /\ MaxCrashes \in Nat

Doc == Sid \cup {Sec}
MaybeSid == Sid \cup {NoSid}
Password == Req \cup {FirstPassword}  \* a password is named by the request that sets it
Token == Req \cup {NoToken}           \* a reset token by the request that issues it
MaybeTenant == Tenants \cup {NoTenant}

VARIABLES
  session,      \* the auth_sessions collection
  security,     \* the user's user_security document
  refreshInFlightByTokenHash,    \* per process: the request that runs performRefresh
  refreshReplayCacheByTokenHash, \* per process: the result a replay is answered with
  pc,           \* where each request is
  input,        \* what each request asks for, and the process that serves it
  view,         \* what the handler loaded before its transaction
  clean,        \* the documents whose save succeeded in some attempt
  tx,           \* the running attempt of the transaction
  answer,       \* the session a login or a refresh answered with
  aborts, crashes

db == <<session, security>>
memory == <<refreshInFlightByTokenHash, refreshReplayCacheByTokenHash>>
bounds == <<aborts, crashes>>
vars == <<session, security, refreshInFlightByTokenHash,
          refreshReplayCacheByTokenHash, pc, input, view, clean, tx, answer,
          aborts, crashes>>

\* A session's refresh token is named by the session, whose document holds its
\* hash.  History: parent is the session that was refreshed into this one, by the
\* process that did it, and retires says whether it revoked the parent with it.
SessionDoc == [status : {"none", "active", "revoked"},
               replacedBySessionId : MaybeSid,
               activeTenantId : MaybeTenant,
               parent : MaybeSid, by : Proc \cup {NoProc}, retires : BOOLEAN]

SecurityDoc == [passwordHash : Password, passwordResetTokenHash : Token]

Input == [kind : AllKinds \cup {"none"}, proc : Proc \cup {NoProc},
          sid : MaybeSid, tenant : MaybeTenant]

View == [active : SUBSET Sid, tenant : MaybeTenant, token : Token]

\* todo: documents still to save; wrote: documents written (hence locked);
\* flips: those whose save carried the assigned status, tenant or password;
\* missed: documents committed by others since this attempt's snapshot;
\* fresh: the session the attempt creates.
Attempt == [todo : SUBSET Doc, wrote : SUBSET Doc, flips : SUBSET Doc,
            missed : SUBSET Doc, fresh : MaybeSid]

NoAttempt == [todo |-> {}, wrote |-> {}, flips |-> {}, missed |-> {}, fresh |-> NoSid]
NoInput == [kind |-> "none", proc |-> NoProc, sid |-> NoSid, tenant |-> NoTenant]
NoView == [active |-> {}, tenant |-> NoTenant, token |-> NoToken]

Answered == {"done", "failed", "lost"}
PC == Answered \cup {"idle", "load", "find", "waiting", "begin", "tx", "committed",
                     "deliver"}

TypeOK ==
  /\ session \in [Sid -> SessionDoc]
  /\ security \in SecurityDoc
  /\ refreshInFlightByTokenHash \in [Proc -> [Sid -> Req \cup {NoReq}]]
  /\ refreshReplayCacheByTokenHash \in [Proc -> [Sid -> MaybeSid]]
  /\ pc \in [Req -> PC]
  /\ input \in [Req -> Input]
  /\ view \in [Req -> View]
  /\ clean \in [Req -> SUBSET Doc]
  /\ tx \in [Req -> Attempt]
  /\ answer \in [Req -> MaybeSid]
  /\ aborts \in Nat
  /\ crashes \in Nat

Active(s) == session[s].status = "active"
Issued(s) == session[s].status # "none"
ActiveSessions == {s \in Sid : Active(s)}

Init ==
  /\ session = [s \in Sid |->
       [status |-> IF s \in InitialSessions THEN "active" ELSE "none",
        replacedBySessionId |-> NoSid, activeTenantId |-> NoTenant,
        parent |-> NoSid, by |-> NoProc, retires |-> FALSE]]
  /\ security = [passwordHash |-> FirstPassword, passwordResetTokenHash |-> NoToken]
  /\ refreshInFlightByTokenHash = [p \in Proc |-> [s \in Sid |-> NoReq]]
  /\ refreshReplayCacheByTokenHash = [p \in Proc |-> [s \in Sid |-> NoSid]]
  /\ pc = [r \in Req |-> "idle"]
  /\ input = [r \in Req |-> NoInput]
  /\ view = [r \in Req |-> NoView]
  /\ clean = [r \in Req |-> {}]
  /\ tx = [r \in Req |-> NoAttempt]
  /\ answer = [r \in Req |-> NoSid]
  /\ aborts = 0
  /\ crashes = 0

Kind(r) == input[r].kind
ProcOf(r) == input[r].proc
SidOf(r) == input[r].sid

-----------------------------------------------------------------------------
(* Answering.  A refresh settles the shared promise: the in-flight entry    *)
(* goes and every caller that joined it gets the same outcome.              *)

Settled(r) ==
  {q \in Req : \/ q = r
               \/ /\ Kind(r) = "refresh"
                  /\ pc[q] = "waiting"
                  /\ ProcOf(q) = ProcOf(r)
                  /\ SidOf(q) = SidOf(r)}

Settle(r, outcome, result) ==
  /\ pc' = [q \in Req |-> IF q \in Settled(r) THEN outcome ELSE pc[q]]
  /\ answer' = [q \in Req |-> IF q \in Settled(r) THEN result ELSE answer[q]]
  /\ refreshInFlightByTokenHash' =
       IF Kind(r) = "refresh"
       THEN [refreshInFlightByTokenHash EXCEPT ![ProcOf(r)][SidOf(r)] = NoReq]
       ELSE refreshInFlightByTokenHash

-----------------------------------------------------------------------------
(* A request arrives.                                                       *)

Receive(r, k, p, s, t) ==
  /\ pc[r] = "idle"
  /\ k \in Kinds \ {"refresh"}
  /\ IF k \in Authenticated THEN s \in ActiveSessions ELSE s = NoSid
  /\ IF k = "switchTenant" THEN t \in Tenants ELSE t = NoTenant
  /\ input' = [input EXCEPT ![r] = [kind |-> k, proc |-> p, sid |-> s, tenant |-> t]]
  /\ pc' = [pc EXCEPT ![r] = "load"]
  /\ UNCHANGED <<db, memory, view, clean, tx, answer, bounds>>

\* Mutated form of RefreshReceive: the promise in flight is not looked up.
RefreshReceiveNoDedupe(r, p, s) ==
  /\ pc[r] = "idle"
  /\ "refresh" \in Kinds
  /\ Issued(s)
  /\ input' = [input EXCEPT ![r] =
                 [kind |-> "refresh", proc |-> p, sid |-> s, tenant |-> NoTenant]]
  /\ refreshReplayCacheByTokenHash[p][s] = NoSid
  /\ pc' = [pc EXCEPT ![r] = "load"]
  /\ refreshInFlightByTokenHash' = [refreshInFlightByTokenHash EXCEPT ![p][s] = r]
  /\ UNCHANGED <<db, refreshReplayCacheByTokenHash, view, clean, tx, answer, bounds>>

\* refresh(): replay cache, then the promise in flight, then performRefresh,
\* without an await in between.
RefreshReceive(r, p, s) ==
  /\ pc[r] = "idle"
  /\ "refresh" \in Kinds
  /\ Issued(s)
  /\ input' = [input EXCEPT ![r] =
                 [kind |-> "refresh", proc |-> p, sid |-> s, tenant |-> NoTenant]]
  /\ \/ /\ refreshReplayCacheByTokenHash[p][s] # NoSid
        /\ pc' = [pc EXCEPT ![r] = "done"]
        /\ answer' = [answer EXCEPT ![r] = refreshReplayCacheByTokenHash[p][s]]
        /\ UNCHANGED memory
     \/ /\ refreshReplayCacheByTokenHash[p][s] = NoSid
        /\ refreshInFlightByTokenHash[p][s] # NoReq
        /\ pc' = [pc EXCEPT ![r] = "waiting"]
        /\ UNCHANGED <<answer, memory>>
     \/ /\ refreshReplayCacheByTokenHash[p][s] = NoSid
        /\ refreshInFlightByTokenHash[p][s] = NoReq
        /\ pc' = [pc EXCEPT ![r] = "load"]
        /\ refreshInFlightByTokenHash' = [refreshInFlightByTokenHash EXCEPT ![p][s] = r]
        /\ UNCHANGED <<answer, refreshReplayCacheByTokenHash>>
  /\ UNCHANGED <<db, view, clean, tx, bounds>>

-----------------------------------------------------------------------------
(* Loading, before the transaction starts.                                  *)

\* Mutated form of ViewOwnSession: the status is not checked.
ViewAnySession(r) ==
  /\ view' = [view EXCEPT ![r] =
       [active |-> {SidOf(r)}, tenant |-> session[SidOf(r)].activeTenantId,
        token |-> NoToken]]
  /\ pc' = [pc EXCEPT ![r] = "begin"]
  /\ UNCHANGED <<db, memory, input, clean, tx, answer, bounds>>

\* findById, and an error unless the session is still active.
ViewOwnSession(r) ==
  /\ Active(SidOf(r))
  /\ view' = [view EXCEPT ![r] =
       [active |-> {SidOf(r)}, tenant |-> session[SidOf(r)].activeTenantId,
        token |-> NoToken]]
  /\ pc' = [pc EXCEPT ![r] = "begin"]
  /\ UNCHANGED <<db, memory, input, clean, tx, answer, bounds>>

RefreshLoad(r) == pc[r] = "load" /\ Kind(r) = "refresh" /\ ViewOwnSession(r)

SwitchTenantLoad(r) == pc[r] = "load" /\ Kind(r) = "switchTenant" /\ ViewOwnSession(r)

LoadActiveSession(r) == RefreshLoad(r) \/ SwitchTenantLoad(r)

\* logout: findById alone, whatever the status has become since authentication.
LoadOwnSession(r) ==
  /\ pc[r] = "load"
  /\ Kind(r) = "logout"
  /\ view' = [view EXCEPT ![r].active = ActiveSessions \cap {SidOf(r)}]
  /\ pc' = [pc EXCEPT ![r] = "begin"]
  /\ UNCHANGED <<db, memory, input, clean, tx, answer, bounds>>

\* logoutAll: nothing to do when no session is active.
LoadAllSessions(r) ==
  /\ pc[r] = "load"
  /\ Kind(r) = "logoutAll"
  /\ view' = [view EXCEPT ![r].active = ActiveSessions]
  /\ pc' = [pc EXCEPT ![r] = IF ActiveSessions = {} THEN "done" ELSE "begin"]
  /\ UNCHANGED <<db, memory, input, clean, tx, answer, bounds>>

\* The security document, in which the handler finds the credential that was
\* presented: the password, or the reset token.
ViewSecurity(r, next) ==
  /\ view' = [view EXCEPT ![r].token = security.passwordResetTokenHash]
  /\ pc' = [pc EXCEPT ![r] = next]
  /\ UNCHANGED <<db, memory, input, clean, tx, answer, bounds>>

LoginLoad(r) == pc[r] = "load" /\ Kind(r) = "login" /\ ViewSecurity(r, "begin")

ForgotLoad(r) == pc[r] = "load" /\ Kind(r) = "forgotPassword" /\ ViewSecurity(r, "begin")

ChangePasswordLoad(r) ==
  pc[r] = "load" /\ Kind(r) = "changePassword" /\ ViewSecurity(r, "find")

ResetLoad(r) ==
  /\ pc[r] = "load"
  /\ Kind(r) = "resetPassword"
  /\ security.passwordResetTokenHash # NoToken
  /\ ViewSecurity(r, "find")

LoadSecurityRecord(r) ==
  LoginLoad(r) \/ ForgotLoad(r) \/ ChangePasswordLoad(r) \/ ResetLoad(r)

\* The sessions to revoke: all active ones, and for changePassword not its own.
ViewSessions(r, sids) ==
  /\ view' = [view EXCEPT ![r].active = sids]
  /\ pc' = [pc EXCEPT ![r] = "begin"]
  /\ UNCHANGED <<db, memory, input, clean, tx, answer, bounds>>

ChangePasswordFind(r) ==
  /\ pc[r] = "find"
  /\ Kind(r) = "changePassword"
  /\ ViewSessions(r, ActiveSessions \ {SidOf(r)})

ResetFind(r) ==
  pc[r] = "find" /\ Kind(r) = "resetPassword" /\ ViewSessions(r, ActiveSessions)

FindSessions(r) == ChangePasswordFind(r) \/ ResetFind(r)

\* Mutated form of Reject: without the finally that settles the refresh.
RejectWithoutFinally(r) ==
  /\ pc[r] \in {"load", "find", "begin", "deliver"}
  /\ pc' = [pc EXCEPT ![r] = "failed"]
  /\ UNCHANGED <<db, memory, input, view, clean, tx, answer, bounds>>

\* A session that is not active or has expired, a wrong password or token, or an
\* error of the driver: a query, the start of the transaction, a save outside it.
Reject(r) ==
  /\ pc[r] \in {"load", "find", "begin", "deliver"}
  /\ Settle(r, "failed", NoSid)
  /\ UNCHANGED <<db, refreshReplayCacheByTokenHash, input, view, clean, tx, bounds>>

-----------------------------------------------------------------------------
(* The transaction.                                                         *)

\* The documents the callback saves.
Docs(r) ==
  CASE Kind(r) \in {"refresh", "logout", "switchTenant"} -> {SidOf(r)}
    [] Kind(r) = "logoutAll" -> view[r].active
    [] Kind(r) \in {"changePassword", "resetPassword"} -> {Sec} \cup view[r].active
    [] OTHER -> {}

\* The save of d carries the path that matters: the assigned value differs from
\* the loaded one and no earlier attempt has saved it.
Dirty(r, d) ==
  /\ d \notin clean[r]
  /\ CASE d = Sec -> TRUE
       [] Kind(r) = "switchTenant" -> input[r].tenant # view[r].tenant
       [] OTHER -> d \in view[r].active

\* A revoked document also gets a new revokedAt, in every attempt, so it is
\* always written; the other saves are no-ops when nothing is modified.
Writes(r, d) == Dirty(r, d) \/ (d # Sec /\ Kind(r) # "switchTenant")

\* MongoDB refuses a write on a document that an open transaction has written or
\* that was committed after the snapshot.
Conflict(r, d) ==
  /\ Writes(r, d)
  /\ d \in tx[r].missed \/ \E q \in Req \ {r} : d \in tx[q].wrote

\* The security document first, then the sessions in the order find returns them.
IsNext(r, d) ==
  /\ d \in tx[r].todo
  /\ IF Sec \in tx[r].todo THEN d = Sec ELSE \A e \in tx[r].todo : d <= e

FreeSids == {s \in Sid : ~Issued(s) /\ \A q \in Req : tx[q].fresh # s}

Creates(r) == Kind(r) \in {"login", "refresh"}

TxBegin(r) ==
  /\ pc[r] = "begin"
  /\ Kind(r) # "forgotPassword"
  /\ \E f \in MaybeSid :
       /\ IF Creates(r) THEN f \in FreeSids /\ \A s \in FreeSids : f <= s ELSE f = NoSid
       /\ tx' = [tx EXCEPT ![r] = [NoAttempt EXCEPT !.todo = Docs(r), !.fresh = f]]
  /\ pc' = [pc EXCEPT ![r] = "tx"]
  /\ UNCHANGED <<db, memory, input, view, clean, answer, bounds>>

TxSave(r, d) ==
  /\ pc[r] = "tx"
  /\ IsNext(r, d)
  /\ ~Conflict(r, d)
  /\ tx' = [tx EXCEPT ![r].todo = @ \ {d},
                      ![r].wrote = IF Writes(r, d) THEN @ \cup {d} ELSE @,
                      ![r].flips = IF Dirty(r, d) THEN @ \cup {d} ELSE @]
  /\ clean' = [clean EXCEPT ![r] = @ \cup {d}]
  /\ UNCHANGED <<db, memory, pc, input, view, answer, bounds>>

\* The failed save leaves its document modified; withTransaction starts again.
TxConflict(r, d) ==
  /\ pc[r] = "tx"
  /\ IsNext(r, d)
  /\ Conflict(r, d)
  /\ tx' = [tx EXCEPT ![r] = NoAttempt]
  /\ pc' = [pc EXCEPT ![r] = "begin"]
  /\ UNCHANGED <<db, memory, input, view, clean, answer, bounds>>

\* Any other transient error, of the audit insert or of the commit.
TxAbort(r) ==
  /\ pc[r] = "tx"
  /\ aborts < MaxAborts
  /\ aborts' = aborts + 1
  /\ tx' = [tx EXCEPT ![r] = NoAttempt]
  /\ pc' = [pc EXCEPT ![r] = "begin"]
  /\ UNCHANGED <<db, memory, input, view, clean, answer, crashes>>

\* Mutated form of TxFail: the error is swallowed and the result returned.
TxFailSwallowed(r) ==
  /\ pc[r] = "tx"
  /\ Settle(r, "done", tx[r].fresh)
  /\ tx' = [tx EXCEPT ![r] = NoAttempt]
  /\ UNCHANGED <<db, refreshReplayCacheByTokenHash, input, view, clean, bounds>>

\* An error that is not transient, or the retry time of withTransaction is over.
TxFail(r) ==
  /\ pc[r] = "tx"
  /\ Settle(r, "failed", NoSid)
  /\ tx' = [tx EXCEPT ![r] = NoAttempt]
  /\ UNCHANGED <<db, refreshReplayCacheByTokenHash, input, view, clean, bounds>>

\* Mutated forms of SavedSession: the whole document is written back, whatever
\* others have committed; a refresh names its request as the replacement.
SavedWholeDocument(r, s) ==
  [session[s] EXCEPT !.status = IF Kind(r) = "switchTenant" THEN "active" ELSE "revoked",
                     !.activeTenantId = view[r].tenant]

SavedNamingRequest(r, s) ==
  [session[s] EXCEPT !.status = "revoked", !.replacedBySessionId = r]

\* What a save has set in the session document s.
SavedSession(r, s) ==
  CASE Kind(r) = "switchTenant" -> [session[s] EXCEPT !.activeTenantId = input[r].tenant]
    [] Kind(r) = "refresh" ->
         [session[s] EXCEPT !.status = IF s \in tx[r].flips THEN "revoked" ELSE @,
                            !.replacedBySessionId = tx[r].fresh]
    [] OTHER -> [session[s] EXCEPT !.status = IF s \in tx[r].flips THEN "revoked" ELSE @]

CreatedSession(r) ==
  [status |-> "active", replacedBySessionId |-> NoSid,
   activeTenantId |-> IF Kind(r) = "refresh" THEN view[r].tenant ELSE NoTenant,
   parent |-> IF Kind(r) = "refresh" THEN SidOf(r) ELSE NoSid,
   by |-> IF Kind(r) = "refresh" THEN ProcOf(r) ELSE NoProc,
   retires |-> Kind(r) = "refresh" /\ SidOf(r) \in tx[r].flips]

\* The reset token is cleared only where the loaded document had one.
SavedSecurity(r) ==
  [passwordHash |-> r,
   passwordResetTokenHash |-> IF view[r].token = NoToken
                              THEN security.passwordResetTokenHash ELSE NoToken]

\* Transactions that are open have a snapshot without these documents.
Publish(r, docs) ==
  [q \in Req |->
     IF q = r THEN NoAttempt
     ELSE IF pc[q] = "tx" THEN [tx[q] EXCEPT !.missed = @ \cup docs] ELSE tx[q]]

TxCommit(r) ==
  /\ pc[r] = "tx"
  /\ tx[r].todo = {}
  /\ session' = [s \in Sid |->
       IF s = tx[r].fresh THEN CreatedSession(r)
       ELSE IF s \in tx[r].wrote THEN SavedSession(r, s)
       ELSE session[s]]
  /\ security' = IF Sec \in tx[r].flips THEN SavedSecurity(r) ELSE security
  /\ tx' = Publish(r, tx[r].wrote)
  /\ answer' = [answer EXCEPT ![r] = tx[r].fresh]
  /\ pc' = [pc EXCEPT ![r] = IF Kind(r) = "refresh" THEN "committed" ELSE "done"]
  /\ UNCHANGED <<memory, input, view, clean, bounds>>

\* Back in performRefresh: cache the result, then settle the promise.
RefreshAnswer(r) ==
  /\ pc[r] = "committed"
  /\ refreshReplayCacheByTokenHash' =
       [refreshReplayCacheByTokenHash EXCEPT ![ProcOf(r)][SidOf(r)] = answer[r]]
  /\ Settle(r, "done", answer[r])
  /\ UNCHANGED <<db, input, view, clean, tx, bounds>>

ReplayLapse(p, s) ==
  /\ refreshReplayCacheByTokenHash[p][s] # NoSid
  /\ refreshReplayCacheByTokenHash' =
       [refreshReplayCacheByTokenHash EXCEPT ![p][s] = NoSid]
  /\ UNCHANGED <<db, refreshInFlightByTokenHash, pc, input, view, clean, tx, answer,
                 bounds>>

-----------------------------------------------------------------------------
(* forgotPassword saves outside a transaction: the write waits for the      *)
(* document's lock and is visible at once.                                  *)

SaveResetToken(r, token) ==
  /\ \A q \in Req : Sec \notin tx[q].wrote
  /\ security' = [security EXCEPT !.passwordResetTokenHash = token]
  /\ tx' = Publish(r, {Sec})

ForgotSave(r) ==
  /\ pc[r] = "begin"
  /\ Kind(r) = "forgotPassword"
  /\ SaveResetToken(r, r)
  /\ pc' = [pc EXCEPT ![r] = "deliver"]
  /\ UNCHANGED <<session, memory, input, view, clean, answer, bounds>>

ForgotDelivered(r) ==
  /\ pc[r] = "deliver"
  /\ pc' = [pc EXCEPT ![r] = "done"]
  /\ UNCHANGED <<db, memory, input, view, clean, tx, answer, bounds>>

\* The delivery failed: put back what the handler had loaded.
ForgotRestore(r) ==
  /\ pc[r] = "deliver"
  /\ SaveResetToken(r, view[r].token)
  /\ pc' = [pc EXCEPT ![r] = "done"]
  /\ UNCHANGED <<session, memory, input, view, clean, answer, bounds>>

-----------------------------------------------------------------------------
\* A process dies: its maps and its requests are gone, its transactions abort.
Crash(p) ==
  LET victims == {r \in Req : ProcOf(r) = p /\ pc[r] \notin Answered}
  IN /\ crashes < MaxCrashes
     /\ crashes' = crashes + 1
     /\ refreshInFlightByTokenHash' =
          [refreshInFlightByTokenHash EXCEPT ![p] = [s \in Sid |-> NoReq]]
     /\ refreshReplayCacheByTokenHash' =
          [refreshReplayCacheByTokenHash EXCEPT ![p] = [s \in Sid |-> NoSid]]
     /\ pc' = [r \in Req |-> IF r \in victims THEN "lost" ELSE pc[r]]
     /\ answer' = [r \in Req |-> IF r \in victims THEN NoSid ELSE answer[r]]
     /\ tx' = [r \in Req |-> IF r \in victims THEN NoAttempt ELSE tx[r]]
     /\ UNCHANGED <<db, input, view, clean, aborts>>

\* The steps of the server for a request it has accepted.
Serve(r) ==
  \/ LoadActiveSession(r) \/ LoadOwnSession(r) \/ LoadAllSessions(r)
  \/ LoadSecurityRecord(r) \/ FindSessions(r) \/ Reject(r)
  \/ TxBegin(r)
  \/ \E d \in Doc : TxSave(r, d) \/ TxConflict(r, d)
  \/ TxCommit(r) \/ RefreshAnswer(r)
  \/ ForgotSave(r) \/ ForgotDelivered(r) \/ ForgotRestore(r)

Next ==
  \/ \E r \in Req, p \in Proc, s \in MaybeSid, t \in MaybeTenant, k \in Kinds :
       Receive(r, k, p, s, t)
  \/ \E r \in Req, p \in Proc, s \in Sid : RefreshReceive(r, p, s)
  \/ \E r \in Req : Serve(r) \/ TxAbort(r) \/ TxFail(r)
  \/ \E p \in Proc, s \in Sid : ReplayLapse(p, s)
  \/ \E p \in Proc : Crash(p)

Spec == Init /\ [][Next]_vars

\* A process keeps running the requests it has accepted.
Fairness == \A r \in Req : WF_vars(Serve(r))

FairSpec == Spec /\ Fairness
-----------------------------------------------------------------------------
(* Properties.                                                              *)

\* A process that has refreshed a session and revoked it with that gives it no second
\* such successor, however many callers present its token (refresh: in-flight map,
\* replay cache and status check).
SingleSuccessor ==
  \A t, u \in Sid :
    /\ session[t].parent # NoSid /\ session[t].parent = session[u].parent
    /\ session[t].by = session[u].by /\ session[t].retires /\ session[u].retires
    => t = u

\* Only a callback that is run again after a transient abort refreshes a session and
\* leaves it active: a write conflict does not make it do so.
RefreshesRetire ==
  \A t \in Sid : session[t].parent # NoSid =>
    IF session[t].retires THEN session[session[t].parent].status = "revoked"
    ELSE aborts > 0

\* What a process answers a replay with is what it refreshed the session into, and the
\* session names it as its replacement unless another process has refreshed it too
\* (cacheRefreshReplay against the committed transaction).
ReplayMatchesDatabase ==
  \A p \in Proc, s \in Sid :
    LET t == refreshReplayCacheByTokenHash[p][s]
    IN t # NoSid =>
         /\ session[t].parent = s /\ session[t].by = p
         /\ \/ session[s].replacedBySessionId = t
            \/ \E u \in Sid : session[u].parent = s /\ session[u].by # p

\* All callers of refresh that a process answered for one token got the same session,
\* if the sessions they got were revoked from.
RefreshCallersAgree ==
  \A q, r \in Req :
    /\ pc[q] = "done" /\ Kind(q) = "refresh" /\ session[answer[q]].retires
    /\ pc[r] = "done" /\ Kind(r) = "refresh" /\ session[answer[r]].retires
    /\ SidOf(q) = SidOf(r) /\ ProcOf(q) = ProcOf(r)
    => answer[q] = answer[r]

\* Nobody waits for a promise that nobody will settle: an entry of the in-flight
\* map belongs to a request that is running performRefresh for that token, and
\* whoever waits finds such an entry.
WaitersHaveLeader ==
  /\ \A p \in Proc, s \in Sid :
       LET r == refreshInFlightByTokenHash[p][s]
       IN r # NoReq => /\ pc[r] \in {"load", "begin", "tx", "committed"}
                       /\ Kind(r) = "refresh" /\ ProcOf(r) = p /\ SidOf(r) = s
  /\ \A q \in Req :
       pc[q] = "waiting" => refreshInFlightByTokenHash[ProcOf(q)][SidOf(q)] # NoReq

\* What each process promises for a token however many callers present it, whatever of
\* them is cut short and whatever the other processes do: one successor, one answer, in
\* memory as in the database, and nobody left waiting; what breaks the promise is a retry
\* after a transient abort and nothing else (auth.service.ts:799 to 957).
RefreshIsCoherent ==
  /\ SingleSuccessor /\ RefreshesRetire
  /\ ReplayMatchesDatabase /\ RefreshCallersAgree /\ WaitersHaveLeader

\* No answer hands out tokens of a session that an aborted attempt created: what
\* login and refresh return is in the collection.
AnswersAreIssued ==
  \A r \in Req : pc[r] = "done" /\ Creates(r) => answer[r] \in Sid /\ Issued(answer[r])

\* A session that names a replacement names one that exists and descends from it:
\* the two documents are saved in one transaction.
ReplacementExists ==
  \A s \in Sid :
    session[s].replacedBySessionId # NoSid =>
      /\ Issued(session[s].replacedBySessionId)
      /\ session[session[s].replacedBySessionId].parent = s

\* Whatever attempts are aborted, run again or fail, what an answer and a replaced
\* session name is there (auth.service.ts:866 to 947, 1295).
CommitsAreWhole == AnswersAreIssued /\ ReplacementExists

\* No operation brings a revoked session back, whatever it had loaded before.
RevokedIsFinal ==
  [][\A s \in Sid : session[s].status = "revoked" => session'[s].status = "revoked"]_vars

\* Without requests, transactions and maps the sessions are chains, of each process.
Chain == INSTANCE SessionChain WITH
  status <- [s \in Sid |-> session[s].status],
  parent <- [s \in Sid |-> session[s].parent],
  retired <- [p \in Proc |-> {s \in Sid : \E t \in Sid :
    session[t].parent = s /\ session[t].by = p /\ session[t].retires}]

ImplementsChain == Chain!ChainSpec

\* Every request the server accepts is answered, the ones that joined a refresh
\* included, or dies with its process.
EveryRequestAnswered ==
  \A r \in Req : pc[r] # "idle" ~> pc[r] \in Answered
=============================================================================
