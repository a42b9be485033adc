------------------------- MODULE AuthSessionsProofs -------------------------
(* Theorems about AuthSessions, for all values of its constants. *)
EXTENDS AuthSessions, TLAPS

\* A request that was accepted names its process, and its session if the
\* operation works on one.
InputOK ==
  \A r \in Req :
    /\ pc[r] # "idle" => ProcOf(r) \in Proc
    /\ Kind(r) \in Authenticated \cup {"refresh"} => SidOf(r) \in Sid

TypeInv == TypeOK /\ InputOK

LEMMA InitTypeInv == Init => TypeInv
  BY ConstantsAssumption
  DEF Init, TypeInv, TypeOK, InputOK, SessionDoc, SecurityDoc, Input, View, Attempt,
      NoAttempt, NoInput, NoView, PC, Answered, MaybeSid, MaybeTenant, Password, Token,
      Kind, ProcOf, SidOf, Authenticated, AllKinds, Doc

\* The steps that load, written out.
LoadActiveSessionEffect(r) ==
  /\ pc[r] = "load" /\ Kind(r) \in {"refresh", "switchTenant"}
  /\ Active(SidOf(r))
  /\ view' = [view EXCEPT ![r] =
       [active |-> {SidOf(r)}, tenant |-> session[SidOf(r)].activeTenantId,
        token |-> NoToken]]
  /\ pc' = [pc EXCEPT ![r] = "begin"]
  /\ UNCHANGED <<db, memory, input, clean, tx, answer, bounds>>

LEMMA LoadActiveSessionStep ==
  ASSUME NEW r \in Req, LoadActiveSession(r)
  PROVE  LoadActiveSessionEffect(r)
  BY DEF LoadActiveSessionEffect, LoadActiveSession, RefreshLoad, SwitchTenantLoad, ViewOwnSession

LoadSecurityRecordEffect(r) ==
  /\ pc[r] = "load"
  /\ Kind(r) \in {"login", "changePassword", "forgotPassword", "resetPassword"}
  /\ view' = [view EXCEPT ![r].token = security.passwordResetTokenHash]
  /\ pc' = [pc EXCEPT ![r] =
       IF Kind(r) \in {"changePassword", "resetPassword"} THEN "find" ELSE "begin"]
  /\ UNCHANGED <<db, memory, input, clean, tx, answer, bounds>>

LEMMA LoadSecurityRecordStep ==
  ASSUME NEW r \in Req, LoadSecurityRecord(r)
  PROVE  LoadSecurityRecordEffect(r)
  BY DEF LoadSecurityRecordEffect, LoadSecurityRecord, LoginLoad, ForgotLoad, ChangePasswordLoad, ResetLoad,
         ViewSecurity

FindSessionsEffect(r) ==
  /\ pc[r] = "find"
  /\ view' = [view EXCEPT ![r].active =
       IF Kind(r) = "changePassword" THEN ActiveSessions \ {SidOf(r)}
       ELSE ActiveSessions]
  /\ pc' = [pc EXCEPT ![r] = "begin"]
  /\ UNCHANGED <<db, memory, input, clean, tx, answer, bounds>>

LEMMA FindSessionsStep ==
  ASSUME NEW r \in Req, FindSessions(r)
  PROVE  FindSessionsEffect(r)
  BY DEF FindSessionsEffect, FindSessions, ChangePasswordFind, ResetFind, ViewSessions

LEMMA NoAttemptType == NoAttempt \in Attempt
  BY DEF NoAttempt, Attempt, MaybeSid

LEMMA DocsType ==
  ASSUME TypeInv, NEW r \in Req
  PROVE  Docs(r) \in SUBSET Doc
  BY DEF Docs, Doc, TypeInv, TypeOK, InputOK, View, Authenticated, Kind, SidOf

LEMMA PublishType ==
  ASSUME TypeOK, NEW r \in Req, NEW docs \in SUBSET Doc
  PROVE  Publish(r, docs) \in [Req -> Attempt]
  <1> SUFFICES ASSUME NEW q \in Req PROVE Publish(r, docs)[q] \in Attempt
    BY DEF Publish
  <1>1. [tx[q] EXCEPT !.missed = @ \cup docs] \in Attempt
    BY DEF TypeOK, Attempt
  <1>2. QED
    BY <1>1, NoAttemptType DEF TypeOK, Publish

\* What a commit leaves in the collections.
LEMMA SavedType ==
  ASSUME TypeInv, NEW r \in Req
  PROVE  /\ CreatedSession(r) \in SessionDoc
         /\ \A s \in Sid : SavedSession(r, s) \in SessionDoc
         /\ SavedSecurity(r) \in SecurityDoc
  <1>1. CreatedSession(r) \in SessionDoc
    BY DEF CreatedSession, SessionDoc, TypeInv, TypeOK, View, Input, MaybeSid, MaybeTenant,
       SidOf, ProcOf
  <1>2. ASSUME NEW s \in Sid PROVE SavedSession(r, s) \in SessionDoc
    <2>1. /\ session[s] \in SessionDoc
          /\ input[r].tenant \in MaybeTenant
          /\ tx[r].fresh \in MaybeSid
      BY DEF TypeInv, TypeOK, Input, Attempt
    <2>2. CASE Kind(r) = "switchTenant"
      BY <2>1, <2>2 DEF SavedSession, SessionDoc
    <2>3. CASE Kind(r) = "refresh"
      BY <2>1, <2>3 DEF SavedSession, SessionDoc
    <2>4. CASE Kind(r) \notin {"switchTenant", "refresh"}
      BY <2>1, <2>4 DEF SavedSession, SessionDoc
    <2>5. QED
      BY <2>2, <2>3, <2>4
  <1>3. SavedSecurity(r) \in SecurityDoc
    BY DEF SavedSecurity, SecurityDoc, TypeInv, TypeOK, Password, Token
  <1>4. QED
    BY <1>1, <1>2, <1>3

LEMMA StepTypeInv == TypeInv /\ [Next]_vars => TypeInv'
  <1> SUFFICES ASSUME TypeInv, [Next]_vars PROVE TypeInv'
    OBVIOUS
  <1> USE DEF TypeInv, TypeOK, InputOK, Kind, ProcOf, SidOf
  <1>1. ASSUME NEW r \in Req, NEW k \in Kinds, NEW p \in Proc, NEW s \in MaybeSid,
               NEW t \in MaybeTenant, Receive(r, k, p, s, t)
        PROVE  TypeInv'
    BY <1>1, ConstantsAssumption
    DEF Receive, Input, PC, Authenticated, AllKinds, ActiveSessions, db, memory, bounds
  <1>2. ASSUME NEW r \in Req, NEW p \in Proc, NEW s \in Sid, RefreshReceive(r, p, s)
        PROVE  TypeInv'
    <2>1. input' \in [Req -> Input]
      BY <1>2 DEF RefreshReceive, Input, MaybeSid, MaybeTenant, AllKinds
    <2>2. pc' \in [Req -> PC]
      BY <1>2 DEF RefreshReceive, PC, Answered
    <2>3. /\ answer' \in [Req -> MaybeSid]
          /\ refreshInFlightByTokenHash' \in [Proc -> [Sid -> Req \cup {NoReq}]]
          /\ refreshReplayCacheByTokenHash' \in [Proc -> [Sid -> MaybeSid]]
      <3>1. CASE refreshReplayCacheByTokenHash[p][s] # NoSid
        BY <1>2, <3>1 DEF RefreshReceive, memory
      <3>2. CASE refreshReplayCacheByTokenHash[p][s] = NoSid /\ pc' = [pc EXCEPT ![r] = "waiting"]
        BY <1>2, <3>2 DEF RefreshReceive, memory
      <3>3. CASE refreshInFlightByTokenHash' = [refreshInFlightByTokenHash EXCEPT ![p][s] = r]
                 /\ UNCHANGED <<answer, refreshReplayCacheByTokenHash>>
        BY <3>3
      <3>4. QED
        BY <1>2, <3>1, <3>2, <3>3 DEF RefreshReceive
    <2>4. InputOK'
      BY <1>2 DEF RefreshReceive, memory
    <2>5. QED
      BY <1>2, <2>1, <2>2, <2>3, <2>4 DEF RefreshReceive, db, bounds
  <1>3. ASSUME NEW r \in Req, LoadActiveSession(r) PROVE TypeInv'
    <2>1. LoadActiveSessionEffect(r)
      BY <1>3, LoadActiveSessionStep
    <2>2. QED
      BY <2>1 DEF LoadActiveSessionEffect, View, SessionDoc, Token, PC, db, memory, bounds, Authenticated
  <1>4. ASSUME NEW r \in Req, LoadOwnSession(r) PROVE TypeInv'
    BY <1>4 DEF LoadOwnSession, View, PC, db, memory, bounds, ActiveSessions
  <1>5. ASSUME NEW r \in Req, LoadAllSessions(r) PROVE TypeInv'
    BY <1>5 DEF LoadAllSessions, View, PC, Answered, db, memory, bounds, ActiveSessions
  <1>6. ASSUME NEW r \in Req, LoadSecurityRecord(r) PROVE TypeInv'
    <2>1. LoadSecurityRecordEffect(r)
      BY <1>6, LoadSecurityRecordStep
    <2>2. QED
      BY <2>1 DEF LoadSecurityRecordEffect, View, SecurityDoc, PC, db, memory, bounds
  <1>7. ASSUME NEW r \in Req, FindSessions(r) PROVE TypeInv'
    <2>1. FindSessionsEffect(r)
      BY <1>7, FindSessionsStep
    <2>2. QED
      BY <2>1 DEF FindSessionsEffect, View, PC, db, memory, bounds, ActiveSessions
  <1>8. ASSUME NEW r \in Req, Reject(r) PROVE TypeInv'
    BY <1>8 DEF Reject, Settle, Settled, PC, Answered, MaybeSid, db, bounds
  <1>9. ASSUME NEW r \in Req, TxBegin(r) PROVE TypeInv'
    <2>1. PICK f \in MaybeSid :
            tx' = [tx EXCEPT ![r] = [NoAttempt EXCEPT !.todo = Docs(r), !.fresh = f]]
      BY <1>9 DEF TxBegin
    <2>2. [NoAttempt EXCEPT !.todo = Docs(r), !.fresh = f] \in Attempt
      BY DocsType DEF NoAttempt, Attempt
    <2>3. tx' \in [Req -> Attempt]
      BY <2>1, <2>2
    <2>4. QED
      BY <1>9, <2>3 DEF TxBegin, PC, db, memory, bounds
  <1>10. ASSUME NEW r \in Req, NEW d \in Doc, TxSave(r, d) PROVE TypeInv'
    <2> DEFINE next == [tx[r] EXCEPT !.todo = @ \ {d},
                                     !.wrote = IF Writes(r, d) THEN @ \cup {d} ELSE @,
                                     !.flips = IF Dirty(r, d) THEN @ \cup {d} ELSE @]
    <2>1. next \in Attempt
      BY DEF Attempt
    <2>2. tx' = [tx EXCEPT ![r] = next]
      BY <1>10 DEF TxSave, Attempt
    <2>3. tx' \in [Req -> Attempt]
      BY <2>1, <2>2
    <2>4. clean' \in [Req -> SUBSET Doc]
      BY <1>10 DEF TxSave
    <2>5. QED
      BY <1>10, <2>3, <2>4 DEF TxSave, db, memory, bounds
  <1>11. ASSUME NEW r \in Req, NEW d \in Doc, TxConflict(r, d) PROVE TypeInv'
    BY <1>11 DEF TxConflict, NoAttempt, Attempt, MaybeSid, PC, db, memory, bounds
  <1>12. ASSUME NEW r \in Req, TxAbort(r) PROVE TypeInv'
    BY <1>12 DEF TxAbort, NoAttempt, Attempt, MaybeSid, PC, db, memory
  <1>13. ASSUME NEW r \in Req, TxFail(r) PROVE TypeInv'
    BY <1>13 DEF TxFail, Settle, Settled, NoAttempt, Attempt, MaybeSid, PC, Answered, db, bounds
  <1>14. ASSUME NEW r \in Req, TxCommit(r) PROVE TypeInv'
    <2>1. /\ tx[r].wrote \in SUBSET Doc
          /\ tx[r].fresh \in MaybeSid
      BY DEF Attempt
    <2>2. tx' \in [Req -> Attempt]
      BY <1>14, <2>1, PublishType DEF TxCommit
    <2>3. session' \in [Sid -> SessionDoc]
      BY <1>14, SavedType DEF TxCommit
    <2>4. security' \in SecurityDoc
      BY <1>14, SavedType DEF TxCommit
    <2>5. answer' \in [Req -> MaybeSid]
      BY <1>14, <2>1 DEF TxCommit
    <2>6. QED
      BY <1>14, <2>2, <2>3, <2>4, <2>5 DEF TxCommit, PC, Answered, memory, bounds
  <1>15. ASSUME NEW r \in Req, RefreshAnswer(r) PROVE TypeInv'
    BY <1>15 DEF RefreshAnswer, Settle, Settled, PC, Answered, MaybeSid, db, bounds
  <1>16. ASSUME NEW r \in Req, ForgotSave(r) PROVE TypeInv'
    <2>1. security' \in SecurityDoc /\ tx' \in [Req -> Attempt]
      BY <1>16, PublishType DEF ForgotSave, SaveResetToken, SecurityDoc, Token, View, Doc
    <2>2. QED
      BY <1>16, <2>1 DEF ForgotSave, PC, memory, bounds
  <1>17. ASSUME NEW r \in Req, ForgotDelivered(r) PROVE TypeInv'
    BY <1>17 DEF ForgotDelivered, PC, Answered, db, memory, bounds
  <1>18. ASSUME NEW r \in Req, ForgotRestore(r) PROVE TypeInv'
    <2>1. security' \in SecurityDoc /\ tx' \in [Req -> Attempt]
      BY <1>18, PublishType DEF ForgotRestore, SaveResetToken, SecurityDoc, Token, View, Doc
    <2>2. QED
      BY <1>18, <2>1 DEF ForgotRestore, PC, Answered, memory, bounds
  <1>19. ASSUME NEW p \in Proc, NEW s \in Sid, ReplayLapse(p, s) PROVE TypeInv'
    BY <1>19 DEF ReplayLapse, MaybeSid, db, bounds
  <1>20. ASSUME NEW p \in Proc, Crash(p) PROVE TypeInv'
    BY <1>20 DEF Crash, NoAttempt, Attempt, MaybeSid, PC, Answered, db
  <1>21. CASE UNCHANGED vars
    BY <1>21 DEF vars
  <1>22. QED
    BY <1>1, <1>2, <1>3, <1>4, <1>5, <1>6, <1>7, <1>8, <1>9, <1>10, <1>11, <1>12, <1>13,
       <1>14, <1>15, <1>16, <1>17, <1>18, <1>19, <1>20, <1>21
    DEF Next, Serve

\* Type correctness: the collections, the maps of the processes and the requests
\* keep their shapes, and an accepted request names its process and its session.
THEOREM TypeCorrect == Spec => []TypeOK
  <1>1. TypeInv => TypeOK
    BY DEF TypeInv
  <1>2. QED
    BY <1>1, InitTypeInv, StepTypeInv, PTL DEF Spec
-----------------------------------------------------------------------------
(* The inductive invariant.                                                 *)

\* Which operations reach which point.
PhaseInv ==
  \A r \in Req :
    /\ pc[r] = "idle" => Kind(r) = "none"
    /\ pc[r] = "find" => Kind(r) \in {"changePassword", "resetPassword"}
    /\ pc[r] \in {"waiting", "committed"} => Kind(r) = "refresh"
    /\ pc[r] = "deliver" => Kind(r) = "forgotPassword"
    /\ pc[r] = "tx" => Kind(r) # "forgotPassword"

Performing(r) ==
  Kind(r) = "refresh" /\ pc[r] \in {"load", "begin", "tx", "committed"}

\* The in-flight maps name exactly the requests that run performRefresh.
InFlightInv ==
  /\ \A p \in Proc, s \in Sid :
       LET r == refreshInFlightByTokenHash[p][s]
       IN r # NoReq => Performing(r) /\ ProcOf(r) = p /\ SidOf(r) = s
  /\ \A r \in Req :
       Performing(r) => refreshInFlightByTokenHash[ProcOf(r)][SidOf(r)] = r
  /\ \A r \in Req :
       pc[r] = "waiting" => refreshInFlightByTokenHash[ProcOf(r)][SidOf(r)] # NoReq

\* Handlers work on sessions that exist.
IssuedInv ==
  \A r \in Req :
    /\ Kind(r) \in Authenticated \cup {"refresh"} => Issued(SidOf(r))
    /\ \A s \in view[r].active : Issued(s)

\* An open attempt writes what its operation saves and reserves a session that
\* does not exist yet, a different one in each attempt.
AttemptInv ==
  \A r \in Req :
    /\ pc[r] # "tx" => tx[r] = NoAttempt
    /\ tx[r].todo \cup tx[r].wrote \subseteq Docs(r)
    /\ pc[r] = "tx" => (tx[r].fresh # NoSid <=> Creates(r))
    /\ tx[r].fresh # NoSid => ~Issued(tx[r].fresh)
    /\ \A q \in Req \ {r} : tx[r].fresh # NoSid => tx[q].fresh # tx[r].fresh

\* Results that were computed, cached or sent name sessions that exist.
AnswerInv ==
  /\ \A r \in Req :
       pc[r] \in {"committed", "done"} /\ Creates(r) =>
         answer[r] \in Sid /\ Issued(answer[r])
  /\ \A p \in Proc, s \in Sid :
       LET t == refreshReplayCacheByTokenHash[p][s] IN t # NoSid => Issued(t)

Inv == /\ TypeInv /\ PhaseInv /\ InFlightInv /\ IssuedInv /\ AttemptInv
       /\ AnswerInv /\ ReplacementExists
LEMMA StepPhase == Inv /\ [Next]_vars => PhaseInv'
  <1> SUFFICES ASSUME Inv, [Next]_vars PROVE PhaseInv'
    OBVIOUS
  <1> USE DEF Inv, TypeInv, TypeOK, PhaseInv, Kind
  <1>1. ASSUME NEW r \in Req, NEW k \in Kinds, NEW p \in Proc, NEW s \in MaybeSid,
               NEW t \in MaybeTenant, Receive(r, k, p, s, t) PROVE PhaseInv'
    BY <1>1 DEF Receive, AllKinds, Authenticated
  <1>2. ASSUME NEW r \in Req, NEW p \in Proc, NEW s \in Sid, RefreshReceive(r, p, s) PROVE PhaseInv'
    BY <1>2 DEF RefreshReceive
  <1>3. ASSUME NEW r \in Req, LoadActiveSession(r) PROVE PhaseInv'
    <2>1. LoadActiveSessionEffect(r)
      BY <1>3, LoadActiveSessionStep
    <2>2. QED
      BY <2>1 DEF LoadActiveSessionEffect
  <1>4. ASSUME NEW r \in Req, LoadOwnSession(r) PROVE PhaseInv'
    BY <1>4 DEF LoadOwnSession
  <1>5. ASSUME NEW r \in Req, LoadAllSessions(r) PROVE PhaseInv'
    BY <1>5 DEF LoadAllSessions
  <1>6. ASSUME NEW r \in Req, LoadSecurityRecord(r) PROVE PhaseInv'
    <2>1. LoadSecurityRecordEffect(r)
      BY <1>6, LoadSecurityRecordStep
    <2>2. QED
      BY <2>1 DEF LoadSecurityRecordEffect
  <1>7. ASSUME NEW r \in Req, FindSessions(r) PROVE PhaseInv'
    <2>1. FindSessionsEffect(r)
      BY <1>7, FindSessionsStep
    <2>2. QED
      BY <2>1 DEF FindSessionsEffect
  <1>8. ASSUME NEW r \in Req, Reject(r) PROVE PhaseInv'
    BY <1>8 DEF Reject, Settle, Settled
  <1>9. ASSUME NEW r \in Req, TxBegin(r) PROVE PhaseInv'
    BY <1>9 DEF TxBegin
  <1>10. ASSUME NEW r \in Req, NEW d \in Doc, TxSave(r, d) PROVE PhaseInv'
    BY <1>10 DEF TxSave
  <1>11. ASSUME NEW r \in Req, NEW d \in Doc, TxConflict(r, d) PROVE PhaseInv'
    BY <1>11 DEF TxConflict
  <1>12. ASSUME NEW r \in Req, TxAbort(r) PROVE PhaseInv'
    BY <1>12 DEF TxAbort
  <1>13. ASSUME NEW r \in Req, TxFail(r) PROVE PhaseInv'
    BY <1>13 DEF TxFail, Settle, Settled
  <1>14. ASSUME NEW r \in Req, TxCommit(r) PROVE PhaseInv'
    BY <1>14 DEF TxCommit
  <1>15. ASSUME NEW r \in Req, RefreshAnswer(r) PROVE PhaseInv'
    BY <1>15 DEF RefreshAnswer, Settle, Settled
  <1>16. ASSUME NEW r \in Req, ForgotSave(r) PROVE PhaseInv'
    BY <1>16 DEF ForgotSave
  <1>17. ASSUME NEW r \in Req, ForgotDelivered(r) PROVE PhaseInv'
    BY <1>17 DEF ForgotDelivered
  <1>18. ASSUME NEW r \in Req, ForgotRestore(r) PROVE PhaseInv'
    BY <1>18 DEF ForgotRestore
  <1>19. ASSUME NEW p \in Proc, NEW s \in Sid, ReplayLapse(p, s) PROVE PhaseInv'
    BY <1>19 DEF ReplayLapse
  <1>20. ASSUME NEW p \in Proc, Crash(p) PROVE PhaseInv'
    BY <1>20 DEF Crash, Answered
  <1>21. CASE UNCHANGED vars
    BY <1>21 DEF vars
  <1>22. QED
    BY <1>1, <1>2, <1>3, <1>4, <1>5, <1>6, <1>7, <1>8, <1>9, <1>10, <1>11, <1>12, <1>13, <1>14, <1>15, <1>16, <1>17, <1>18, <1>19, <1>20, <1>21
    DEF Next, Serve

\* Settling a refresh takes its entry out of the map together with its waiters.
LEMMA SettleInFlight ==
  ASSUME Inv, NEW r \in Req, pc[r] \in {"load", "find", "begin", "tx", "committed", "deliver"},
         NEW outcome \in Answered, NEW result,
         Settle(r, outcome, result), UNCHANGED input
  PROVE  InFlightInv'
  <1> USE DEF Inv, TypeInv, TypeOK, InputOK, PhaseInv, InFlightInv, Performing, Kind,
              ProcOf, SidOf
  <1>1. pc' = [q \in Req |-> IF q \in Settled(r) THEN outcome ELSE pc[q]]
    BY DEF Settle
  <1>2. CASE Kind(r) = "refresh"
    <2>1. \A q \in Req : q \in Settled(r) <=>
            q = r \/ (pc[q] = "waiting" /\ ProcOf(q) = ProcOf(r) /\ SidOf(q) = SidOf(r))
      BY <1>2 DEF Settled
    <2>2. refreshInFlightByTokenHash' =
            [refreshInFlightByTokenHash EXCEPT ![ProcOf(r)][SidOf(r)] = NoReq]
      BY <1>2 DEF Settle
    <2>3. /\ ProcOf(r) \in Proc /\ SidOf(r) \in Sid
          /\ refreshInFlightByTokenHash[ProcOf(r)][SidOf(r)] = r
      BY <1>2
    <2>4. QED
      BY <1>1, <1>2, <2>1, <2>2, <2>3 DEF Answered
  <1>3. CASE Kind(r) # "refresh"
    <2>1. \A q \in Req : q \in Settled(r) <=> q = r
      BY <1>3 DEF Settled
    <2>2. refreshInFlightByTokenHash' = refreshInFlightByTokenHash
      BY <1>3 DEF Settle
    <2>3. QED
      BY <1>1, <1>3, <2>1, <2>2 DEF Answered
  <1>4. QED
    BY <1>2, <1>3

LEMMA StepInFlight == Inv /\ [Next]_vars => InFlightInv'
  <1> SUFFICES ASSUME Inv, [Next]_vars PROVE InFlightInv'
    OBVIOUS
  <1> USE DEF Inv, TypeInv, TypeOK, InputOK, PhaseInv, InFlightInv, Performing, Kind, ProcOf, SidOf, memory
  <1>1. ASSUME NEW r \in Req, NEW k \in Kinds, NEW p \in Proc, NEW s \in MaybeSid,
               NEW t \in MaybeTenant, Receive(r, k, p, s, t) PROVE InFlightInv'
    BY <1>1 DEF Receive, Authenticated
  <1>2. ASSUME NEW r \in Req, NEW p \in Proc, NEW s \in Sid, RefreshReceive(r, p, s) PROVE InFlightInv'
    <2>1. /\ pc[r] = "idle"
          /\ input' = [input EXCEPT ![r] = [kind |-> "refresh", proc |-> p, sid |-> s,
                                            tenant |-> NoTenant]]
      BY <1>2 DEF RefreshReceive
    <2>6. \A pp \in Proc, ss \in Sid : refreshInFlightByTokenHash[pp][ss] # r
      BY <2>1, ConstantsAssumption
    <2>2. CASE pc' = [pc EXCEPT ![r] = "done"] /\ UNCHANGED memory
      BY <2>1, <2>2, <2>6
    <2>3. CASE /\ refreshInFlightByTokenHash[p][s] # NoReq
               /\ pc' = [pc EXCEPT ![r] = "waiting"]
               /\ UNCHANGED memory
      BY <2>1, <2>3, <2>6
    <2>4. CASE /\ refreshInFlightByTokenHash[p][s] = NoReq
               /\ pc' = [pc EXCEPT ![r] = "load"]
               /\ refreshInFlightByTokenHash' = [refreshInFlightByTokenHash EXCEPT ![p][s] = r]
      BY <2>1, <2>4, <2>6, ConstantsAssumption
    <2>5. QED
      BY <1>2, <2>2, <2>3, <2>4 DEF RefreshReceive
  <1>3. ASSUME NEW r \in Req, LoadActiveSession(r) PROVE InFlightInv'
    <2>1. LoadActiveSessionEffect(r)
      BY <1>3, LoadActiveSessionStep
    <2>2. QED
      BY <2>1 DEF LoadActiveSessionEffect
  <1>4. ASSUME NEW r \in Req, LoadOwnSession(r) PROVE InFlightInv'
    BY <1>4 DEF LoadOwnSession
  <1>5. ASSUME NEW r \in Req, LoadAllSessions(r) PROVE InFlightInv'
    BY <1>5 DEF LoadAllSessions
  <1>6. ASSUME NEW r \in Req, LoadSecurityRecord(r) PROVE InFlightInv'
    <2>1. LoadSecurityRecordEffect(r)
      BY <1>6, LoadSecurityRecordStep
    <2>2. QED
      BY <2>1 DEF LoadSecurityRecordEffect
  <1>7. ASSUME NEW r \in Req, FindSessions(r) PROVE InFlightInv'
    <2>1. FindSessionsEffect(r)
      BY <1>7, FindSessionsStep
    <2>2. QED
      BY <2>1 DEF FindSessionsEffect
  <1>8. ASSUME NEW r \in Req, Reject(r) PROVE InFlightInv'
    BY <1>8, SettleInFlight DEF Reject, Answered
  <1>9. ASSUME NEW r \in Req, TxBegin(r) PROVE InFlightInv'
    BY <1>9 DEF TxBegin
  <1>10. ASSUME NEW r \in Req, NEW d \in Doc, TxSave(r, d) PROVE InFlightInv'
    BY <1>10 DEF TxSave
  <1>11. ASSUME NEW r \in Req, NEW d \in Doc, TxConflict(r, d) PROVE InFlightInv'
    BY <1>11 DEF TxConflict
  <1>12. ASSUME NEW r \in Req, TxAbort(r) PROVE InFlightInv'
    BY <1>12 DEF TxAbort
  <1>13. ASSUME NEW r \in Req, TxFail(r) PROVE InFlightInv'
    BY <1>13, SettleInFlight DEF TxFail, Answered
  <1>14. ASSUME NEW r \in Req, TxCommit(r) PROVE InFlightInv'
    BY <1>14 DEF TxCommit
  <1>15. ASSUME NEW r \in Req, RefreshAnswer(r) PROVE InFlightInv'
    BY <1>15, SettleInFlight DEF RefreshAnswer, Answered
  <1>16. ASSUME NEW r \in Req, ForgotSave(r) PROVE InFlightInv'
    BY <1>16 DEF ForgotSave
  <1>17. ASSUME NEW r \in Req, ForgotDelivered(r) PROVE InFlightInv'
    BY <1>17 DEF ForgotDelivered
  <1>18. ASSUME NEW r \in Req, ForgotRestore(r) PROVE InFlightInv'
    BY <1>18 DEF ForgotRestore
  <1>19. ASSUME NEW p \in Proc, NEW s \in Sid, ReplayLapse(p, s) PROVE InFlightInv'
    BY <1>19 DEF ReplayLapse
  <1>20. ASSUME NEW p \in Proc, Crash(p) PROVE InFlightInv'
    BY <1>20 DEF Crash, Answered
  <1>21. CASE UNCHANGED vars
    BY <1>21 DEF vars
  <1>22. QED
    BY <1>1, <1>2, <1>3, <1>4, <1>5, <1>6, <1>7, <1>8, <1>9, <1>10, <1>11, <1>12, <1>13, <1>14, <1>15, <1>16, <1>17, <1>18, <1>19, <1>20, <1>21
    DEF Next, Serve
\* Sessions only come into being and get revoked: the rest of a step's effect on
\* the collection is in the commit of a transaction.
SessionsKept ==
  \A s \in Sid : Issued(s) =>
    /\ session'[s].status # "none"
    /\ session[s].status = "revoked" => session'[s].status = "revoked"
    /\ session'[s].parent = session[s].parent
    /\ session'[s].by = session[s].by
    /\ session'[s].retires = session[s].retires

LEMMA CommitKeepsSessions ==
  ASSUME Inv, NEW r \in Req, TxCommit(r)
  PROVE  SessionsKept
  <1> SUFFICES ASSUME NEW s \in Sid, Issued(s)
               PROVE  /\ session'[s].status # "none"
                      /\ session[s].status = "revoked" => session'[s].status = "revoked"
                      /\ session'[s].parent = session[s].parent
                      /\ session'[s].by = session[s].by
                      /\ session'[s].retires = session[s].retires
    BY DEF SessionsKept
  <1>1. s # tx[r].fresh
    BY ConstantsAssumption DEF Inv, AttemptInv
  <1>2. session[s] \in SessionDoc
    BY DEF Inv, TypeInv, TypeOK
  <1>3. session'[s] = session[s] \/ session'[s] = SavedSession(r, s)
    BY <1>1 DEF TxCommit
  <1>4. CASE session'[s] = session[s]
    BY <1>4 DEF Issued
  <1>5. CASE session'[s] = SavedSession(r, s)
    BY <1>2, <1>5 DEF SavedSession, SessionDoc, Issued
  <1>6. QED
    BY <1>3, <1>4, <1>5

LEMMA StepChangesSessions ==
  [Next]_vars => (\E r \in Req : TxCommit(r)) \/ UNCHANGED session
  <1>1. ASSUME NEW r \in Req, Serve(r) PROVE TxCommit(r) \/ UNCHANGED session
    BY <1>1
    DEF Serve, LoadActiveSession, RefreshLoad, SwitchTenantLoad, ViewOwnSession,
        LoadOwnSession, LoadAllSessions, LoadSecurityRecord, LoginLoad, ForgotLoad,
        ChangePasswordLoad, ResetLoad, ViewSecurity, FindSessions, ChangePasswordFind,
        ResetFind, ViewSessions, Reject, TxBegin, TxSave, TxConflict, RefreshAnswer, ForgotSave,
        ForgotDelivered, ForgotRestore, db
  <1>2. QED
    BY <1>1 DEF Next, Receive, RefreshReceive, TxAbort, TxFail, ReplayLapse, Crash, vars, db

LEMMA StepKeepsSessions == Inv /\ [Next]_vars => SessionsKept
  <1>1. UNCHANGED session => SessionsKept
    BY DEF SessionsKept, Issued
  <1>2. QED
    BY <1>1, StepChangesSessions, CommitKeepsSessions

LEMMA StepIssued == Inv /\ [Next]_vars => IssuedInv'
  <1> SUFFICES ASSUME Inv, [Next]_vars PROVE IssuedInv'
    OBVIOUS
  <1> USE DEF Inv, TypeInv, TypeOK, InputOK, View, PhaseInv, IssuedInv, Kind, SidOf, SessionsKept, Issued, db
  <1>1. ASSUME NEW r \in Req, NEW k \in Kinds, NEW p \in Proc, NEW s \in MaybeSid,
               NEW t \in MaybeTenant, Receive(r, k, p, s, t) PROVE IssuedInv'
    BY <1>1, StepKeepsSessions DEF Receive, ActiveSessions, Active, Authenticated
  <1>2. ASSUME NEW r \in Req, NEW p \in Proc, NEW s \in Sid, RefreshReceive(r, p, s) PROVE IssuedInv'
    BY <1>2, StepKeepsSessions DEF RefreshReceive
  <1>3. ASSUME NEW r \in Req, LoadActiveSession(r) PROVE IssuedInv'
    <2>1. LoadActiveSessionEffect(r)
      BY <1>3, LoadActiveSessionStep
    <2>2. QED
      BY <2>1, StepKeepsSessions DEF LoadActiveSessionEffect, Active
  <1>4. ASSUME NEW r \in Req, LoadOwnSession(r) PROVE IssuedInv'
    BY <1>4, StepKeepsSessions DEF LoadOwnSession, ActiveSessions, Active
  <1>5. ASSUME NEW r \in Req, LoadAllSessions(r) PROVE IssuedInv'
    BY <1>5, StepKeepsSessions DEF LoadAllSessions, ActiveSessions, Active
  <1>6. ASSUME NEW r \in Req, LoadSecurityRecord(r) PROVE IssuedInv'
    <2>1. LoadSecurityRecordEffect(r)
      BY <1>6, LoadSecurityRecordStep
    <2>2. QED
      BY <2>1, StepKeepsSessions DEF LoadSecurityRecordEffect
  <1>7. ASSUME NEW r \in Req, FindSessions(r) PROVE IssuedInv'
    <2>1. FindSessionsEffect(r)
      BY <1>7, FindSessionsStep
    <2>2. QED
      BY <2>1, StepKeepsSessions DEF FindSessionsEffect, ActiveSessions, Active
  <1>8. ASSUME NEW r \in Req, Reject(r) PROVE IssuedInv'
    BY <1>8, StepKeepsSessions DEF Reject
  <1>9. ASSUME NEW r \in Req, TxBegin(r) PROVE IssuedInv'
    BY <1>9, StepKeepsSessions DEF TxBegin
  <1>10. ASSUME NEW r \in Req, NEW d \in Doc, TxSave(r, d) PROVE IssuedInv'
    BY <1>10, StepKeepsSessions DEF TxSave
  <1>11. ASSUME NEW r \in Req, NEW d \in Doc, TxConflict(r, d) PROVE IssuedInv'
    BY <1>11, StepKeepsSessions DEF TxConflict
  <1>12. ASSUME NEW r \in Req, TxAbort(r) PROVE IssuedInv'
    BY <1>12, StepKeepsSessions DEF TxAbort
  <1>13. ASSUME NEW r \in Req, TxFail(r) PROVE IssuedInv'
    BY <1>13, StepKeepsSessions DEF TxFail
  <1>14. ASSUME NEW r \in Req, TxCommit(r) PROVE IssuedInv'
    BY <1>14, StepKeepsSessions DEF TxCommit
  <1>15. ASSUME NEW r \in Req, RefreshAnswer(r) PROVE IssuedInv'
    BY <1>15, StepKeepsSessions DEF RefreshAnswer
  <1>16. ASSUME NEW r \in Req, ForgotSave(r) PROVE IssuedInv'
    BY <1>16, StepKeepsSessions DEF ForgotSave
  <1>17. ASSUME NEW r \in Req, ForgotDelivered(r) PROVE IssuedInv'
    BY <1>17, StepKeepsSessions DEF ForgotDelivered
  <1>18. ASSUME NEW r \in Req, ForgotRestore(r) PROVE IssuedInv'
    BY <1>18, StepKeepsSessions DEF ForgotRestore
  <1>19. ASSUME NEW p \in Proc, NEW s \in Sid, ReplayLapse(p, s) PROVE IssuedInv'
    BY <1>19, StepKeepsSessions DEF ReplayLapse
  <1>20. ASSUME NEW p \in Proc, Crash(p) PROVE IssuedInv'
    BY <1>20, StepKeepsSessions DEF Crash
  <1>21. CASE UNCHANGED vars
    BY <1>21 DEF vars
  <1>22. QED
    BY <1>1, <1>2, <1>3, <1>4, <1>5, <1>6, <1>7, <1>8, <1>9, <1>10, <1>11, <1>12, <1>13, <1>14, <1>15, <1>16, <1>17, <1>18, <1>19, <1>20, <1>21
    DEF Next, Serve
\* The sessions an operation saves exist.
LEMMA DocsIssued ==
  ASSUME Inv, NEW r \in Req, NEW s \in Docs(r), s # Sec
  PROVE  s \in Sid /\ Issued(s)
  BY ConstantsAssumption
  DEF Docs, Inv, TypeInv, TypeOK, InputOK, IssuedInv, View, Authenticated, Kind, SidOf

\* The attempt of q, if there is one after the step, goes on with what it had.
Undisturbed(q) ==
  \/ pc'[q] # "tx" /\ tx'[q] = NoAttempt
  \/ /\ pc[q] = "tx" /\ pc'[q] = "tx"
     /\ input'[q] = input[q] /\ view'[q] = view[q]
     /\ tx'[q].wrote = tx[q].wrote /\ tx'[q].todo = tx[q].todo /\ tx'[q].fresh = tx[q].fresh
     /\ tx[q].fresh # NoSid => session'[tx[q].fresh] = session[tx[q].fresh]

LEMMA UndisturbedAttempts ==
  ASSUME Inv, \A q \in Req : Undisturbed(q)
  PROVE  AttemptInv'
  <1>1. ASSUME NEW q \in Req, tx'[q] # NoAttempt
        PROVE  /\ pc[q] = "tx" /\ pc'[q] = "tx"
               /\ Docs(q)' = Docs(q) /\ (Creates(q))' = Creates(q)
               /\ tx'[q].wrote = tx[q].wrote /\ tx'[q].todo = tx[q].todo /\ tx'[q].fresh = tx[q].fresh
               /\ tx[q].fresh # NoSid => session'[tx[q].fresh] = session[tx[q].fresh]
    BY <1>1 DEF Undisturbed, Docs, Creates, Kind, SidOf
  <1>2. ASSUME NEW q \in Req, pc'[q] = "tx" PROVE
               /\ Creates(q)' = Creates(q) /\ tx'[q].fresh = tx[q].fresh /\ pc[q] = "tx"
    BY <1>2 DEF Undisturbed, Creates, Kind
  <1>3. NoAttempt.wrote = {} /\ NoAttempt.todo = {} /\ NoAttempt.fresh = NoSid
    BY DEF NoAttempt
  <1>4. QED
    BY <1>1, <1>2, <1>3 DEF Inv, AttemptInv, Undisturbed, Issued

LEMMA StepAttempt == Inv /\ [Next]_vars => AttemptInv'
  <1> SUFFICES ASSUME Inv, [Next]_vars PROVE AttemptInv'
    OBVIOUS
  <1> USE DEF Inv, TypeInv, TypeOK, PhaseInv, AttemptInv
  <1>1. ASSUME NEW r \in Req, NEW k \in Kinds, NEW p \in Proc, NEW s \in MaybeSid,
               NEW t \in MaybeTenant, Receive(r, k, p, s, t) PROVE AttemptInv'
    <2>1. \A q \in Req : Undisturbed(q)
      BY <1>1 DEF Receive, Undisturbed, db
    <2>2. QED
      BY <2>1, UndisturbedAttempts
  <1>2. ASSUME NEW r \in Req, NEW p \in Proc, NEW s \in Sid, RefreshReceive(r, p, s) PROVE AttemptInv'
    <2>1. \A q \in Req : Undisturbed(q)
      BY <1>2 DEF RefreshReceive, Undisturbed, db
    <2>2. QED
      BY <2>1, UndisturbedAttempts
  <1>3. ASSUME NEW r \in Req, LoadActiveSession(r) PROVE AttemptInv'
    <2>1. \A q \in Req : Undisturbed(q)
      <3>1. LoadActiveSessionEffect(r)
        BY <1>3, LoadActiveSessionStep
      <3>2. QED
        BY <3>1 DEF LoadActiveSessionEffect, Undisturbed, db
    <2>2. QED
      BY <2>1, UndisturbedAttempts
  <1>4. ASSUME NEW r \in Req, LoadOwnSession(r) PROVE AttemptInv'
    <2>1. \A q \in Req : Undisturbed(q)
      BY <1>4 DEF LoadOwnSession, Undisturbed, db
    <2>2. QED
      BY <2>1, UndisturbedAttempts
  <1>5. ASSUME NEW r \in Req, LoadAllSessions(r) PROVE AttemptInv'
    <2>1. \A q \in Req : Undisturbed(q)
      BY <1>5 DEF LoadAllSessions, Undisturbed, db
    <2>2. QED
      BY <2>1, UndisturbedAttempts
  <1>6. ASSUME NEW r \in Req, LoadSecurityRecord(r) PROVE AttemptInv'
    <2>1. \A q \in Req : Undisturbed(q)
      <3>1. LoadSecurityRecordEffect(r)
        BY <1>6, LoadSecurityRecordStep
      <3>2. QED
        BY <3>1 DEF LoadSecurityRecordEffect, Undisturbed, db
    <2>2. QED
      BY <2>1, UndisturbedAttempts
  <1>7. ASSUME NEW r \in Req, FindSessions(r) PROVE AttemptInv'
    <2>1. \A q \in Req : Undisturbed(q)
      <3>1. FindSessionsEffect(r)
        BY <1>7, FindSessionsStep
      <3>2. QED
        BY <3>1 DEF FindSessionsEffect, Undisturbed, db
    <2>2. QED
      BY <2>1, UndisturbedAttempts
  <1>8. ASSUME NEW r \in Req, Reject(r) PROVE AttemptInv'
    <2>1. \A q \in Req : Undisturbed(q)
      BY <1>8 DEF Reject, Undisturbed, db, Settle, Settled
    <2>2. QED
      BY <2>1, UndisturbedAttempts
  <1>9. ASSUME NEW r \in Req, TxBegin(r) PROVE AttemptInv'
    <2>1. PICK f \in MaybeSid :
            /\ IF Creates(r) THEN f \in FreeSids ELSE f = NoSid
            /\ tx' = [tx EXCEPT ![r] = [NoAttempt EXCEPT !.todo = Docs(r), !.fresh = f]]
      BY <1>9 DEF TxBegin
    <2>2. /\ tx'[r].wrote = {} /\ tx'[r].todo = Docs(r) /\ tx'[r].fresh = f
          /\ \A q \in Req \ {r} : tx'[q] = tx[q]
      BY <2>1 DEF NoAttempt
    <2>3. /\ pc' = [pc EXCEPT ![r] = "tx"] /\ UNCHANGED <<session, input, view>>
      BY <1>9 DEF TxBegin, db
    <2>4. \A q \in Req : Docs(q)' = Docs(q) /\ Creates(q)' = Creates(q)
      BY <2>3 DEF Docs, Creates, Kind, SidOf
    <2>5. f # NoSid <=> Creates(r)
      BY <2>1, ConstantsAssumption DEF FreeSids
    <2>6. f # NoSid => ~Issued(f) /\ \A q \in Req : tx[q].fresh # f
      BY <2>1 DEF FreeSids
    <2>7. QED
      BY <2>2, <2>3, <2>4, <2>5, <2>6 DEF AttemptInv, Issued
  <1>10. ASSUME NEW r \in Req, NEW d \in Doc, TxSave(r, d) PROVE AttemptInv'
    <2>1. /\ tx'[r].wrote \subseteq tx[r].wrote \cup {d}
          /\ tx'[r].todo \subseteq tx[r].todo
          /\ tx'[r].fresh = tx[r].fresh
          /\ \A q \in Req \ {r} : tx'[q] = tx[q]
      BY <1>10 DEF TxSave, Attempt
    <2>2. UNCHANGED <<pc, session, input, view>> /\ pc[r] = "tx" /\ d \in tx[r].todo
      BY <1>10 DEF TxSave, IsNext, db
    <2>3. \A q \in Req : Docs(q)' = Docs(q) /\ Creates(q)' = Creates(q)
      BY <2>2 DEF Docs, Creates, Kind, SidOf
    <2>4. d \in Docs(r)
      BY <2>2
    <2>5. tx'[r].todo \cup tx'[r].wrote \subseteq Docs(r)
      BY <2>1, <2>4
    <2>6. \A q \in Req :
            /\ tx'[q].fresh = tx[q].fresh
            /\ tx'[q].todo \cup tx'[q].wrote \subseteq Docs(q)
            /\ pc[q] # "tx" => tx'[q] = NoAttempt
      BY <2>1, <2>2, <2>5
    <2>7. QED
      BY <2>2, <2>3, <2>6 DEF Issued
  <1>11. ASSUME NEW r \in Req, NEW d \in Doc, TxConflict(r, d) PROVE AttemptInv'
    <2>1. \A q \in Req : Undisturbed(q)
      BY <1>11 DEF TxConflict, Undisturbed, db
    <2>2. QED
      BY <2>1, UndisturbedAttempts
  <1>12. ASSUME NEW r \in Req, TxAbort(r) PROVE AttemptInv'
    <2>1. \A q \in Req : Undisturbed(q)
      BY <1>12 DEF TxAbort, Undisturbed, db
    <2>2. QED
      BY <2>1, UndisturbedAttempts
  <1>13. ASSUME NEW r \in Req, TxFail(r) PROVE AttemptInv'
    <2>1. \A q \in Req : Undisturbed(q)
      BY <1>13 DEF TxFail, Undisturbed, db, Settle, Settled
    <2>2. QED
      BY <2>1, UndisturbedAttempts
  <1>14. ASSUME NEW r \in Req, TxCommit(r) PROVE AttemptInv'
    <2>1. \A q \in Req \ {r} : tx[q].fresh # NoSid => session'[tx[q].fresh] = session[tx[q].fresh]
      <3> SUFFICES ASSUME NEW q \in Req \ {r}, tx[q].fresh # NoSid
                   PROVE  session'[tx[q].fresh] = session[tx[q].fresh]
        OBVIOUS
      <3>1. tx[q].fresh \in Sid /\ ~Issued(tx[q].fresh) /\ tx[q].fresh # tx[r].fresh
        BY DEF Attempt, MaybeSid
      <3>2. tx[q].fresh \notin tx[r].wrote
        BY <3>1, DocsIssued, ConstantsAssumption
      <3>3. QED
        BY <1>14, <3>1, <3>2 DEF TxCommit
    <2>2. \A q \in Req : Undisturbed(q)
      <3>1. pc'[r] # "tx" /\ tx'[r] = NoAttempt
        BY <1>14 DEF TxCommit, Publish
      <3>2. ASSUME NEW q \in Req \ {r}, pc[q] = "tx"
            PROVE  /\ pc'[q] = "tx" /\ input'[q] = input[q] /\ view'[q] = view[q]
                   /\ tx'[q].wrote = tx[q].wrote /\ tx'[q].todo = tx[q].todo
                   /\ tx'[q].fresh = tx[q].fresh
        <4>1. tx'[q] = [tx[q] EXCEPT !.missed = @ \cup tx[r].wrote]
          BY <1>14, <3>2 DEF TxCommit, Publish
        <4>2. tx[q] \in Attempt
          OBVIOUS
        <4>3. QED
          BY <1>14, <3>2, <4>1, <4>2 DEF TxCommit, Attempt
      <3>3. ASSUME NEW q \in Req \ {r}, pc[q] # "tx"
            PROVE  pc'[q] # "tx" /\ tx'[q] = NoAttempt
        BY <1>14, <3>3 DEF TxCommit, Publish
      <3>4. QED
        BY <2>1, <3>1, <3>2, <3>3 DEF Undisturbed
    <2>3. QED
      BY <2>2, UndisturbedAttempts
  <1>15. ASSUME NEW r \in Req, RefreshAnswer(r) PROVE AttemptInv'
    <2>1. \A q \in Req : Undisturbed(q)
      BY <1>15 DEF RefreshAnswer, Undisturbed, db, Settle, Settled
    <2>2. QED
      BY <2>1, UndisturbedAttempts
  <1>16. ASSUME NEW r \in Req, ForgotSave(r) PROVE AttemptInv'
    <2>1. \A q \in Req : Undisturbed(q)
      BY <1>16 DEF ForgotSave, Undisturbed, db, SaveResetToken, Publish, Attempt
    <2>2. QED
      BY <2>1, UndisturbedAttempts
  <1>17. ASSUME NEW r \in Req, ForgotDelivered(r) PROVE AttemptInv'
    <2>1. \A q \in Req : Undisturbed(q)
      BY <1>17 DEF ForgotDelivered, Undisturbed, db
    <2>2. QED
      BY <2>1, UndisturbedAttempts
  <1>18. ASSUME NEW r \in Req, ForgotRestore(r) PROVE AttemptInv'
    <2>1. \A q \in Req : Undisturbed(q)
      BY <1>18 DEF ForgotRestore, Undisturbed, db, SaveResetToken, Publish, Attempt
    <2>2. QED
      BY <2>1, UndisturbedAttempts
  <1>19. ASSUME NEW p \in Proc, NEW s \in Sid, ReplayLapse(p, s) PROVE AttemptInv'
    <2>1. \A q \in Req : Undisturbed(q)
      BY <1>19 DEF ReplayLapse, Undisturbed, db
    <2>2. QED
      BY <2>1, UndisturbedAttempts
  <1>20. ASSUME NEW p \in Proc, Crash(p) PROVE AttemptInv'
    <2>1. \A q \in Req : Undisturbed(q)
      BY <1>20 DEF Crash, Undisturbed, db, Answered
    <2>2. QED
      BY <2>1, UndisturbedAttempts
  <1>21. CASE UNCHANGED vars
    <2>1. \A q \in Req : Undisturbed(q)
      BY <1>21 DEF Undisturbed, vars
    <2>2. QED
      BY <2>1, UndisturbedAttempts
  <1>22. QED
    BY <1>1, <1>2, <1>3, <1>4, <1>5, <1>6, <1>7, <1>8, <1>9, <1>10, <1>11, <1>12, <1>13, <1>14, <1>15, <1>16, <1>17, <1>18, <1>19, <1>20, <1>21
    DEF Next, Serve

LEMMA StepAnswer == Inv /\ [Next]_vars => AnswerInv'
  <1> SUFFICES ASSUME Inv, [Next]_vars PROVE AnswerInv'
    OBVIOUS
  <1> USE DEF Inv, TypeInv, TypeOK, PhaseInv, AttemptInv, AnswerInv, Creates, Kind, Issued, db, memory
  <1>1. ASSUME NEW r \in Req, NEW k \in Kinds, NEW p \in Proc, NEW s \in MaybeSid,
               NEW t \in MaybeTenant, Receive(r, k, p, s, t) PROVE AnswerInv'
    BY <1>1 DEF Receive
  <1>2. ASSUME NEW r \in Req, NEW p \in Proc, NEW s \in Sid, RefreshReceive(r, p, s) PROVE AnswerInv'
    <2>1. UNCHANGED <<session, refreshReplayCacheByTokenHash>>
      BY <1>2 DEF RefreshReceive, db, memory
    <2>2. \A q \in Req \ {r} : /\ pc'[q] = pc[q] /\ answer'[q] = answer[q]
                                /\ Creates(q)' = Creates(q)
      BY <1>2 DEF RefreshReceive, Creates, Kind
    <2>3. \/ pc'[r] \notin {"committed", "done"}
          \/ answer'[r] = refreshReplayCacheByTokenHash[p][s] /\ answer'[r] # NoSid
      BY <1>2 DEF RefreshReceive
    <2>4. QED
      BY <2>1, <2>2, <2>3 DEF AnswerInv, Issued, MaybeSid
  <1>3. ASSUME NEW r \in Req, LoadActiveSession(r) PROVE AnswerInv'
    <2>1. LoadActiveSessionEffect(r)
      BY <1>3, LoadActiveSessionStep
    <2>2. QED
      BY <2>1 DEF LoadActiveSessionEffect
  <1>4. ASSUME NEW r \in Req, LoadOwnSession(r) PROVE AnswerInv'
    BY <1>4 DEF LoadOwnSession
  <1>5. ASSUME NEW r \in Req, LoadAllSessions(r) PROVE AnswerInv'
    BY <1>5 DEF LoadAllSessions
  <1>6. ASSUME NEW r \in Req, LoadSecurityRecord(r) PROVE AnswerInv'
    <2>1. LoadSecurityRecordEffect(r)
      BY <1>6, LoadSecurityRecordStep
    <2>2. QED
      BY <2>1 DEF LoadSecurityRecordEffect
  <1>7. ASSUME NEW r \in Req, FindSessions(r) PROVE AnswerInv'
    <2>1. FindSessionsEffect(r)
      BY <1>7, FindSessionsStep
    <2>2. QED
      BY <2>1 DEF FindSessionsEffect
  <1>8. ASSUME NEW r \in Req, Reject(r) PROVE AnswerInv'
    BY <1>8 DEF Reject, Settle, Settled
  <1>9. ASSUME NEW r \in Req, TxBegin(r) PROVE AnswerInv'
    BY <1>9 DEF TxBegin
  <1>10. ASSUME NEW r \in Req, NEW d \in Doc, TxSave(r, d) PROVE AnswerInv'
    BY <1>10 DEF TxSave
  <1>11. ASSUME NEW r \in Req, NEW d \in Doc, TxConflict(r, d) PROVE AnswerInv'
    BY <1>11 DEF TxConflict
  <1>12. ASSUME NEW r \in Req, TxAbort(r) PROVE AnswerInv'
    BY <1>12 DEF TxAbort
  <1>13. ASSUME NEW r \in Req, TxFail(r) PROVE AnswerInv'
    BY <1>13 DEF TxFail, Settle, Settled
  <1>14. ASSUME NEW r \in Req, TxCommit(r) PROVE AnswerInv'
    <2>1. tx[r].fresh # NoSid => tx[r].fresh \in Sid /\ session'[tx[r].fresh].status # "none"
      <3>1. tx[r].fresh \in MaybeSid
        BY DEF Attempt
      <3>2. tx[r].fresh # NoSid => session'[tx[r].fresh] = CreatedSession(r)
        BY <1>14, <3>1 DEF TxCommit, MaybeSid
      <3>3. QED
        BY <3>1, <3>2 DEF MaybeSid, CreatedSession
    <2>2. \A q \in Req : Creates(q)' = Creates(q)
      BY <1>14 DEF TxCommit, Creates, Kind
    <2>3. /\ answer'[r] = tx[r].fresh
          /\ \A q \in Req \ {r} : answer'[q] = answer[q] /\ pc'[q] = pc[q]
          /\ Creates(r) => tx[r].fresh # NoSid
          /\ UNCHANGED refreshReplayCacheByTokenHash
      BY <1>14 DEF TxCommit, memory
    <2>4. \A s \in Sid : Issued(s) => Issued(s)'
      BY <1>14, CommitKeepsSessions DEF SessionsKept, Issued
    <2>5. QED
      <3>1. ASSUME NEW q \in Req, pc'[q] \in {"committed", "done"}, Creates(q)'
            PROVE  answer'[q] \in Sid /\ Issued(answer[q])'
        <4>1. CASE q = r
          BY <2>1, <2>2, <2>3, <3>1, <4>1
        <4>2. CASE q # r
          BY <2>2, <2>3, <2>4, <3>1, <4>2
        <4>3. QED
          BY <4>1, <4>2
      <3>2. ASSUME NEW p \in Proc, NEW s \in Sid,
                   refreshReplayCacheByTokenHash'[p][s] # NoSid
            PROVE  Issued(refreshReplayCacheByTokenHash[p][s])'
        BY <2>3, <2>4, <3>2 DEF MaybeSid
      <3>3. QED
        BY <3>1, <3>2
  <1>15. ASSUME NEW r \in Req, RefreshAnswer(r) PROVE AnswerInv'
    BY <1>15 DEF RefreshAnswer, Settle, Settled
  <1>16. ASSUME NEW r \in Req, ForgotSave(r) PROVE AnswerInv'
    BY <1>16 DEF ForgotSave
  <1>17. ASSUME NEW r \in Req, ForgotDelivered(r) PROVE AnswerInv'
    BY <1>17 DEF ForgotDelivered
  <1>18. ASSUME NEW r \in Req, ForgotRestore(r) PROVE AnswerInv'
    BY <1>18 DEF ForgotRestore
  <1>19. ASSUME NEW p \in Proc, NEW s \in Sid, ReplayLapse(p, s) PROVE AnswerInv'
    BY <1>19 DEF ReplayLapse
  <1>20. ASSUME NEW p \in Proc, Crash(p) PROVE AnswerInv'
    BY <1>20 DEF Crash, Answered, NoAttempt
  <1>21. CASE UNCHANGED vars
    BY <1>21 DEF vars
  <1>22. QED
    BY <1>1, <1>2, <1>3, <1>4, <1>5, <1>6, <1>7, <1>8, <1>9, <1>10, <1>11, <1>12, <1>13, <1>14, <1>15, <1>16, <1>17, <1>18, <1>19, <1>20, <1>21
    DEF Next, Serve

LEMMA InitInv == Init => Inv
  <1> SUFFICES ASSUME Init PROVE Inv
    OBVIOUS
  <1>1. TypeInv
    BY InitTypeInv
  <1>2. PhaseInv /\ InFlightInv /\ AnswerInv /\ ReplacementExists
    BY ConstantsAssumption
    DEF Init, PhaseInv, InFlightInv, AnswerInv, ReplacementExists, Performing, Kind, NoInput
  <1>3. IssuedInv /\ AttemptInv
    BY ConstantsAssumption
    DEF Init, IssuedInv, AttemptInv, NoInput, NoView, NoAttempt, Kind, Authenticated
  <1>4. QED
    BY <1>1, <1>2, <1>3 DEF Inv
LEMMA StepReplacement == Inv /\ [Next]_vars => ReplacementExists'
  <1> SUFFICES ASSUME Inv, [Next]_vars PROVE ReplacementExists'
    OBVIOUS
  <1>1. CASE UNCHANGED session
    BY <1>1 DEF Inv, ReplacementExists, Issued
  <1>2. ASSUME NEW r \in Req, TxCommit(r) PROVE ReplacementExists'
    <2> DEFINE f == tx[r].fresh
    <2>1. f \in MaybeSid /\ (f # NoSid => ~Issued(f))
      BY DEF Inv, TypeInv, TypeOK, Attempt, AttemptInv
    <2>2. f # NoSid => session'[f] = CreatedSession(r)
      BY <1>2, <2>1 DEF TxCommit, MaybeSid
    <2> SUFFICES ASSUME NEW s \in Sid, session'[s].replacedBySessionId # NoSid
                 PROVE  /\ session'[session'[s].replacedBySessionId].status # "none"
                        /\ session'[session'[s].replacedBySessionId].parent = s
      BY DEF ReplacementExists, Issued
    <2>3. s # f
      BY <2>2, ConstantsAssumption DEF CreatedSession
    <2>4. CASE /\ session'[s].replacedBySessionId = session[s].replacedBySessionId
      <3>1. session[s].replacedBySessionId \in Sid
        BY <2>4 DEF Inv, TypeInv, TypeOK, SessionDoc, MaybeSid
      <3>2. SessionsKept
        BY <1>2, CommitKeepsSessions
      <3>3. QED
        BY <2>4, <3>1, <3>2 DEF Inv, ReplacementExists, SessionsKept, Issued
    <2>5. CASE /\ Kind(r) = "refresh" /\ s \in tx[r].wrote
               /\ session'[s].replacedBySessionId = f
      <3>1. s = SidOf(r)
        BY <2>5 DEF Inv, AttemptInv, Docs
      <3>2. QED
        BY <2>2, <2>5, <3>1 DEF CreatedSession
    <2>6. QED
      <3>1. session[s] \in SessionDoc
        BY DEF Inv, TypeInv, TypeOK
      <3>2. CASE s \in tx[r].wrote
        <4>1. session'[s] = SavedSession(r, s)
          BY <1>2, <2>3, <3>2 DEF TxCommit
        <4>2. QED
          BY <2>4, <2>5, <3>1, <3>2, <4>1 DEF SavedSession, SessionDoc
      <3>3. CASE s \notin tx[r].wrote
        BY <1>2, <2>3, <2>4, <3>3 DEF TxCommit
      <3>4. QED
        BY <3>2, <3>3
  <1>3. QED
    BY <1>1, <1>2, StepChangesSessions

LEMMA StepInv == Inv /\ [Next]_vars => Inv'
  <1>1. Inv => TypeInv
    BY DEF Inv
  <1>2. QED
    BY <1>1, StepTypeInv, StepPhase, StepInFlight, StepIssued, StepAttempt, StepAnswer,
       StepReplacement
    DEF Inv

LEMMA Invariance == Spec => []Inv
  BY InitInv, StepInv, PTL DEF Spec

\* Whatever crashes, retries and processes there are, nobody waits for a refresh
\* that no request is performing.
THEOREM NoOrphanWaiters == Spec => []WaitersHaveLeader
  <1>1. Inv => WaitersHaveLeader
    BY DEF Inv, InFlightInv, WaitersHaveLeader, Performing
  <1>2. QED
    BY <1>1, Invariance, PTL

\* What login and refresh answer with was committed, in whichever attempt.
THEOREM AnswersCommitted == Spec => []AnswersAreIssued
  <1>1. Inv => AnswersAreIssued
    BY DEF Inv, AnswerInv, AnswersAreIssued
  <1>2. QED
    BY <1>1, Invariance, PTL

\* A session never names a replacement that does not exist or is not its own.
THEOREM ReplacementsCommitted == Spec => []ReplacementExists
  <1>1. Inv => ReplacementExists
    BY DEF Inv
  <1>2. QED
    BY <1>1, Invariance, PTL

\* Both together: whatever attempt a transaction succeeds in, what it leaves in the
\* collection and in the answers is the work of one attempt.
THEOREM CommitsLeaveWholes == Spec => []CommitsAreWhole
  <1>1. Inv => CommitsAreWhole
    BY DEF Inv, AnswerInv, AnswersAreIssued, CommitsAreWhole
  <1>2. QED
    BY <1>1, Invariance, PTL

\* Blind saves of stale documents do not revive a revoked session: what a save
\* writes are the modified paths, and no operation assigns "active".
THEOREM RevocationIsFinal == Spec => RevokedIsFinal
  <1>1. Inv /\ [Next]_vars =>
          [\A s \in Sid : session[s].status = "revoked" => session'[s].status = "revoked"]_vars
    BY StepKeepsSessions DEF SessionsKept, Issued
  <1>2. QED
    BY <1>1, Invariance, PTL DEF Spec, RevokedIsFinal

-----------------------------------------------------------------------------
(* What refresh token rotation promises, for any processes and any aborts.  *)
(* A refresh revokes its session unless an attempt that was aborted has     *)
(* left the document clean, and of a process only the leader of the token   *)
(* gets that far; what another process does is told apart by its name.      *)

\* The session t is one into which process p has refreshed s.
Successor(p, s, t) == session[t].parent = s /\ session[t].by = p

\* Process p has revoked s with a refresh.
Retired(p, s) == \E t \in Sid : Successor(p, s, t) /\ session[t].retires

\* While a refresh is between its load and its commit, its process has not retired
\* its session, and without an abort the transaction is going to.
RotationInv ==
  \A r \in Req :
    /\ pc[r] = "idle" => clean[r] = {}
    /\ Kind(r) = "refresh" /\ pc[r] \in {"load", "begin"} => clean[r] = {} \/ aborts > 0
    /\ Kind(r) = "refresh" /\ pc[r] \in {"begin", "tx"} =>
         SidOf(r) \in view[r].active /\ ~Retired(ProcOf(r), SidOf(r))
    /\ Kind(r) = "refresh" /\ pc[r] = "tx" =>
         \/ tx[r].todo = {SidOf(r)} /\ (clean[r] = {} \/ aborts > 0)
         \/ /\ tx[r].todo = {} /\ SidOf(r) \in tx[r].wrote
            /\ SidOf(r) \in tx[r].flips \/ aborts > 0

ChainInv == RefreshesRetire /\ RotationInv /\ SingleSuccessor

\* What the step that commits a refresh does to the collection.
LEMMA RefreshCommit ==
  ASSUME Inv, ChainInv, NEW r \in Req, Kind(r) = "refresh", TxCommit(r)
  PROVE  /\ SidOf(r) \in Sid /\ tx[r].fresh \in Sid /\ SidOf(r) # tx[r].fresh
         /\ ProcOf(r) \in Proc
         /\ session[SidOf(r)].status # "none"
         /\ session[tx[r].fresh].status = "none"
         /\ ~Retired(ProcOf(r), SidOf(r))
         /\ session'[tx[r].fresh] = CreatedSession(r)
         /\ session'[SidOf(r)].status =
              IF SidOf(r) \in tx[r].flips THEN "revoked" ELSE session[SidOf(r)].status
         /\ session'[SidOf(r)].replacedBySessionId = tx[r].fresh
         /\ SidOf(r) \in tx[r].flips \/ aborts > 0
         /\ \A t \in Sid \ {SidOf(r), tx[r].fresh} : session'[t] = session[t]
  <1> DEFINE s == SidOf(r)
             f == tx[r].fresh
  <1>1. pc[r] = "tx" /\ tx[r].todo = {}
    BY DEF TxCommit
  <1>2. s \in Sid /\ Issued(s) /\ ProcOf(r) \in Proc
    BY <1>1 DEF Inv, TypeInv, InputOK, IssuedInv
  <1>3. f \in Sid /\ ~Issued(f)
    BY <1>1 DEF Inv, TypeInv, TypeOK, AttemptInv, Attempt, MaybeSid, Creates
  <1>4. s \in tx[r].wrote /\ (s \in tx[r].flips \/ aborts > 0) /\ ~Retired(ProcOf(r), s)
    BY <1>1 DEF ChainInv, RotationInv
  <1>5. tx[r].wrote \subseteq {s}
    BY DEF Inv, AttemptInv, Docs
  <1>6. session'[f] = CreatedSession(r)
    BY <1>3 DEF TxCommit
  <1>7. session'[s] = SavedSession(r, s)
    BY <1>2, <1>3, <1>4 DEF TxCommit
  <1>8. \A t \in Sid \ {s, f} : session'[t] = session[t]
    BY <1>5 DEF TxCommit
  <1>9. session[s] \in SessionDoc
    BY <1>2 DEF Inv, TypeInv, TypeOK
  <1>10. /\ session'[s].status = IF s \in tx[r].flips THEN "revoked" ELSE session[s].status
         /\ session'[s].replacedBySessionId = f
    BY <1>7, <1>9 DEF SavedSession, SessionDoc
  <1>11. QED
    BY <1>2, <1>3, <1>4, <1>6, <1>8, <1>10 DEF Issued

\* A step keeps who descends from whom, but for the session that a commit creates.
LEMMA StepAddsOneSuccessor ==
  ASSUME Inv, ChainInv, [Next]_vars
  PROVE  \/ \A t \in Sid : \/ session'[t].parent = NoSid
                           \/ /\ session'[t].parent = session[t].parent
                              /\ session'[t].by = session[t].by
                              /\ session'[t].retires = session[t].retires
         \/ \E r \in Req : TxCommit(r) /\ Kind(r) = "refresh"
  <1>1. CASE UNCHANGED session
    BY <1>1
  <1>2. ASSUME NEW r \in Req, TxCommit(r), Kind(r) # "refresh", NEW t \in Sid
        PROVE  \/ session'[t].parent = NoSid
               \/ /\ session'[t].parent = session[t].parent
                  /\ session'[t].by = session[t].by
                  /\ session'[t].retires = session[t].retires
    <2>1. session[t] \in SessionDoc
      BY DEF Inv, TypeInv, TypeOK
    <2>2. CASE session'[t] = CreatedSession(r)
      BY <1>2, <2>2 DEF CreatedSession
    <2>3. CASE session'[t] = SavedSession(r, t)
      BY <2>1, <2>3 DEF SavedSession, SessionDoc
    <2>4. CASE session'[t] = session[t]
      BY <2>4
    <2>5. QED
      BY <1>2, <2>2, <2>3, <2>4 DEF TxCommit
  <1>3. QED
    BY <1>1, <1>2, StepChangesSessions

\* The commit of a refresh gives its session one successor and nobody else any.
LEMMA RefreshCommitSucceeds ==
  ASSUME Inv, ChainInv, NEW r \in Req, Kind(r) = "refresh", TxCommit(r), NEW t \in Sid
  PROVE  IF t = tx[r].fresh
         THEN /\ session'[t].status = "active"
              /\ session'[t].parent = SidOf(r) /\ session'[t].by = ProcOf(r)
              /\ session'[t].retires <=> SidOf(r) \in tx[r].flips
         ELSE /\ session'[t].parent = session[t].parent /\ session'[t].by = session[t].by
              /\ session'[t].retires = session[t].retires
  <1>1. CASE t = tx[r].fresh
    <2>1. session'[t] = CreatedSession(r)
      BY <1>1, RefreshCommit
    <2>2. CreatedSession(r).retires = (Kind(r) = "refresh" /\ SidOf(r) \in tx[r].flips)
      BY DEF CreatedSession
    <2>3. session'[t].retires = (SidOf(r) \in tx[r].flips)
      BY <2>1, <2>2
    <2>4. /\ session'[t].status = "active"
          /\ session'[t].parent = SidOf(r) /\ session'[t].by = ProcOf(r)
      BY <2>1 DEF CreatedSession
    <2>5. QED
      BY <1>1, <2>3, <2>4
  <1>2. CASE t # tx[r].fresh
    <2>1. session'[t] = session[t] \/ session'[t] = SavedSession(r, t)
      BY <1>2 DEF TxCommit
    <2>2. session[t] \in SessionDoc
      BY DEF Inv, TypeInv, TypeOK
    <2>3. QED
      BY <1>2, <2>1, <2>2 DEF SavedSession, SessionDoc
  <1>3. QED
    BY <1>1, <1>2

LEMMA AbortsGrow == Inv /\ [Next]_vars => aborts' = aborts \/ aborts' = aborts + 1
  <1>1. ASSUME NEW r \in Req, Serve(r) PROVE aborts' = aborts
    BY <1>1
    DEF Serve, LoadActiveSession, RefreshLoad, SwitchTenantLoad, ViewOwnSession,
        LoadOwnSession, LoadAllSessions, LoadSecurityRecord, LoginLoad, ForgotLoad,
        ChangePasswordLoad, ResetLoad, ViewSecurity, FindSessions, ChangePasswordFind,
        ResetFind, ViewSessions, Reject, TxBegin, TxSave, TxConflict, TxCommit, RefreshAnswer,
        ForgotSave, ForgotDelivered, ForgotRestore, bounds
  <1>2. QED
    BY <1>1 DEF Next, Receive, RefreshReceive, TxAbort, TxFail, ReplayLapse, Crash, vars, bounds

LEMMA StepParents == Inv /\ ChainInv /\ [Next]_vars => RefreshesRetire' /\ SingleSuccessor'
  <1> SUFFICES ASSUME Inv, ChainInv, [Next]_vars PROVE RefreshesRetire' /\ SingleSuccessor'
    OBVIOUS
  <1>1. SessionsKept
    BY StepKeepsSessions
  <1>2. \A t \in Sid : session[t].parent \in MaybeSid
    BY DEF Inv, TypeInv, TypeOK, SessionDoc
  <1>3. aborts > 0 => aborts' > 0
    BY AbortsGrow DEF Inv, TypeInv, TypeOK
  <1>4. ASSUME NEW t \in Sid, session[t].parent # NoSid
        PROVE  IF session[t].retires THEN session'[session[t].parent].status = "revoked"
               ELSE aborts' > 0
    <2>1. session[t].parent \in Sid
      BY <1>2, <1>4 DEF MaybeSid
    <2>2. QED
      BY <1>1, <1>3, <1>4, <2>1 DEF ChainInv, RefreshesRetire, SessionsKept, Issued
  <1>5. CASE \A t \in Sid : \/ session'[t].parent = NoSid
                            \/ /\ session'[t].parent = session[t].parent
                               /\ session'[t].by = session[t].by
                               /\ session'[t].retires = session[t].retires
    BY <1>4, <1>5 DEF ChainInv, RefreshesRetire, SingleSuccessor
  <1>6. ASSUME NEW r \in Req, Kind(r) = "refresh", TxCommit(r)
        PROVE  RefreshesRetire' /\ SingleSuccessor'
    <2> DEFINE s == SidOf(r)
               f == tx[r].fresh
    <2>1. /\ s \in Sid /\ f \in Sid /\ s # f /\ ~Retired(ProcOf(r), s)
          /\ s \in tx[r].flips => session'[s].status = "revoked"
          /\ s \in tx[r].flips \/ aborts > 0
      BY <1>6, RefreshCommit
    <2>2. /\ session'[f].parent = s /\ session'[f].by = ProcOf(r)
          /\ session'[f].retires <=> s \in tx[r].flips
      BY <1>6, <2>1, RefreshCommitSucceeds
    <2>3. \A t \in Sid \ {f} :
            /\ session'[t].parent = session[t].parent /\ session'[t].by = session[t].by
            /\ session'[t].retires = session[t].retires
      BY <1>6, RefreshCommitSucceeds
    <2>4. ASSUME NEW t \in Sid, session'[t].parent # NoSid
          PROVE  IF session'[t].retires THEN session'[session'[t].parent].status = "revoked"
                 ELSE aborts' > 0
      <3>1. CASE t = f
        BY <1>3, <2>1, <2>2, <3>1
      <3>2. CASE t # f
        BY <1>4, <2>3, <2>4, <3>2
      <3>3. QED
        BY <3>1, <3>2
    <2>5. ASSUME NEW t \in Sid, NEW u \in Sid, session'[t].parent # NoSid,
                 session'[t].parent = session'[u].parent, session'[t].by = session'[u].by,
                 session'[t].retires, session'[u].retires
          PROVE  t = u
      <3>1. CASE t # f /\ u # f
        BY <2>3, <2>5, <3>1 DEF ChainInv, SingleSuccessor
      <3>2. CASE t = f /\ u # f
        BY <2>1, <2>2, <2>3, <2>5, <3>2 DEF Retired, Successor
      <3>3. CASE t # f /\ u = f
        BY <2>1, <2>2, <2>3, <2>5, <3>3 DEF Retired, Successor
      <3>4. QED
        BY <3>1, <3>2, <3>3
    <2>6. QED
      BY <2>4, <2>5 DEF RefreshesRetire, SingleSuccessor
  <1>7. QED
    BY <1>5, <1>6, StepAddsOneSuccessor

\* Two requests of one process do not perform refresh for one token at a time.
LEMMA OneLeader ==
  ASSUME Inv, NEW q \in Req, NEW r \in Req, Performing(q), Performing(r),
         ProcOf(q) = ProcOf(r), SidOf(q) = SidOf(r)
  PROVE  q = r
  BY DEF Inv, InFlightInv

LEMMA StepRotation == Inv /\ ChainInv /\ [Next]_vars => RotationInv'
  <1> SUFFICES ASSUME Inv, ChainInv, [Next]_vars PROVE RotationInv'
    OBVIOUS
  <1>0. aborts \in Nat /\ (aborts > 0 => aborts' > 0)
    BY AbortsGrow DEF Inv, TypeInv, TypeOK
  <1> USE DEF Inv, ChainInv, TypeInv, TypeOK, InputOK, PhaseInv, AttemptInv, RotationInv, Retired, Successor, Kind, SidOf, ProcOf, db, bounds
  <1>1. ASSUME NEW r \in Req, NEW k \in Kinds, NEW p \in Proc, NEW s \in MaybeSid,
               NEW t \in MaybeTenant, Receive(r, k, p, s, t) PROVE RotationInv'
    BY <1>1 DEF Receive, Authenticated, AllKinds
  <1>2. ASSUME NEW r \in Req, NEW p \in Proc, NEW s \in Sid, RefreshReceive(r, p, s) PROVE RotationInv'
    BY <1>2 DEF RefreshReceive
  <1>3. ASSUME NEW r \in Req, LoadActiveSession(r) PROVE RotationInv'
    <2>1. LoadActiveSessionEffect(r)
      BY <1>3, LoadActiveSessionStep
    <2>2. ASSUME Kind(r) = "refresh", NEW t \in Sid, session[t].parent = SidOf(r), session[t].retires
          PROVE  FALSE
      <3>1. SidOf(r) \in Sid /\ SidOf(r) # NoSid
        BY <2>2, ConstantsAssumption
      <3>2. session[SidOf(r)].status = "revoked"
        BY <2>2, <3>1 DEF RefreshesRetire
      <3>3. QED
        BY <2>1, <3>2 DEF LoadActiveSessionEffect, Active
    <2>3. /\ UNCHANGED <<session, input, clean, tx, aborts>>
          /\ \A q \in Req \ {r} : pc'[q] = pc[q] /\ view'[q] = view[q]
          /\ pc'[r] = "begin" /\ pc[r] = "load" /\ view'[r].active = {SidOf(r)}
      BY <2>1 DEF LoadActiveSessionEffect, db, bounds
    <2>4. QED
      BY <2>2, <2>3
  <1>4. ASSUME NEW r \in Req, LoadOwnSession(r) PROVE RotationInv'
    BY <1>4 DEF LoadOwnSession
  <1>5. ASSUME NEW r \in Req, LoadAllSessions(r) PROVE RotationInv'
    BY <1>5 DEF LoadAllSessions
  <1>6. ASSUME NEW r \in Req, LoadSecurityRecord(r) PROVE RotationInv'
    <2>1. LoadSecurityRecordEffect(r)
      BY <1>6, LoadSecurityRecordStep
    <2>2. QED
      BY <2>1 DEF LoadSecurityRecordEffect
  <1>7. ASSUME NEW r \in Req, FindSessions(r) PROVE RotationInv'
    <2>1. FindSessionsEffect(r)
      BY <1>7, FindSessionsStep
    <2>2. QED
      BY <2>1 DEF FindSessionsEffect
  <1>8. ASSUME NEW r \in Req, Reject(r) PROVE RotationInv'
    BY <1>8 DEF Reject, Settle, Settled
  <1>9. ASSUME NEW r \in Req, TxBegin(r) PROVE RotationInv'
    BY <1>9 DEF TxBegin, Docs, NoAttempt
  <1>10. ASSUME NEW r \in Req, NEW d \in Doc, TxSave(r, d) PROVE RotationInv'
    <2>0. /\ UNCHANGED <<pc, input, view, session, aborts>> /\ pc[r] = "tx"
          /\ \A q \in Req \ {r} : tx'[q] = tx[q] /\ clean'[q] = clean[q]
      BY <1>10 DEF TxSave, db, bounds
    <2>1. CASE Kind(r) = "refresh"
      <3>1. /\ d = SidOf(r) /\ tx[r].todo = {d} /\ (clean[r] = {} \/ aborts > 0)
            /\ d \in view[r].active /\ d # Sec
        BY <1>10, <2>1, ConstantsAssumption DEF TxSave, IsNext
      <3>2. (Dirty(r, d) \/ aborts > 0) /\ Writes(r, d)
        BY <2>1, <3>1 DEF Dirty, Writes
      <3>3. tx'[r].todo = {} /\ d \in tx'[r].wrote /\ (d \in tx'[r].flips \/ aborts > 0)
        BY <1>10, <3>1, <3>2 DEF TxSave, Attempt
      <3>4. QED
        BY <2>0, <3>1, <3>3
    <2>2. CASE Kind(r) # "refresh"
      BY <2>0, <2>2
    <2>3. QED
      BY <2>1, <2>2
  <1>11. ASSUME NEW r \in Req, NEW d \in Doc, TxConflict(r, d) PROVE RotationInv'
    <2>1. /\ UNCHANGED <<session, input, view, clean, aborts>> /\ pc[r] = "tx" /\ pc'[r] = "begin"
          /\ \A q \in Req \ {r} : pc'[q] = pc[q] /\ tx'[q] = tx[q]
          /\ tx[r].todo # {}
      BY <1>11 DEF TxConflict, IsNext, db, bounds
    <2>2. Kind(r) = "refresh" => (clean[r] = {} \/ aborts > 0) /\ SidOf(r) \in view[r].active
      BY <2>1
    <2>3. QED
      BY <2>1, <2>2
  <1>12. ASSUME NEW r \in Req, TxAbort(r) PROVE RotationInv'
    <2>1. /\ UNCHANGED <<session, input, view, clean>> /\ pc[r] = "tx" /\ pc'[r] = "begin"
          /\ \A q \in Req \ {r} : pc'[q] = pc[q] /\ tx'[q] = tx[q]
          /\ aborts' > 0
      BY <1>0, <1>12 DEF TxAbort, db
    <2>2. QED
      BY <2>1
  <1>13. ASSUME NEW r \in Req, TxFail(r) PROVE RotationInv'
    BY <1>13 DEF TxFail, Settle, Settled
  <1>14. ASSUME NEW r \in Req, TxCommit(r) PROVE RotationInv'
    <2>1. /\ UNCHANGED <<input, view, clean, aborts>> /\ pc'[r] \notin {"idle", "load", "begin", "tx"}
          /\ \A q \in Req \ {r} : pc'[q] = pc[q]
      BY <1>14 DEF TxCommit, bounds
    <2>2. ASSUME NEW q \in Req \ {r}, pc[q] = "tx"
          PROVE  /\ tx'[q].todo = tx[q].todo /\ tx'[q].wrote = tx[q].wrote
                 /\ tx'[q].flips = tx[q].flips
      <3>1. tx'[q] = Publish(r, tx[r].wrote)[q] /\ tx[q] \in Attempt
        BY <1>14 DEF TxCommit
      <3>2. tx'[q] = [tx[q] EXCEPT !.missed = tx[q].missed \cup tx[r].wrote]
        BY <2>2, <3>1 DEF Publish
      <3>3. QED
        BY <3>1, <3>2 DEF Attempt
    <2>3. ASSUME NEW q \in Req \ {r}, Kind(q) = "refresh", pc[q] \in {"begin", "tx"}, NEW t \in Sid
          PROVE  ~(/\ session'[t].parent = SidOf(q) /\ session'[t].by = ProcOf(q)
                   /\ session'[t].retires)
      <3>1. /\ Performing(q) /\ SidOf(q) \in Sid /\ SidOf(q) # NoSid
            /\ ~(/\ session[t].parent = SidOf(q) /\ session[t].by = ProcOf(q)
                 /\ session[t].retires)
        BY <2>3, ConstantsAssumption DEF Performing
      <3>2. CASE \A u \in Sid : \/ session'[u].parent = NoSid
                                \/ /\ session'[u].parent = session[u].parent
                                   /\ session'[u].by = session[u].by
                                   /\ session'[u].retires = session[u].retires
        BY <3>1, <3>2
      <3>3. ASSUME NEW p \in Req, TxCommit(p), Kind(p) = "refresh"
            PROVE  ~(/\ session'[t].parent = SidOf(q) /\ session'[t].by = ProcOf(q)
                     /\ session'[t].retires)
        <4>1. Performing(p) /\ p # q
          BY <2>1, <2>3, <3>3 DEF TxCommit, Performing
        <4>2. ~(ProcOf(q) = ProcOf(p) /\ SidOf(q) = SidOf(p))
          BY <3>1, <4>1, OneLeader
        <4>3. QED
          BY <3>1, <3>3, <4>2, RefreshCommitSucceeds
      <3>4. QED
        BY <3>2, <3>3, StepAddsOneSuccessor
    <2>4. ASSUME NEW q \in Req \ {r}, Kind(q) = "refresh", pc[q] = "tx"
          PROVE  \/ tx'[q].todo = {SidOf(q)} /\ (clean'[q] = {} \/ aborts' > 0)
                 \/ /\ tx'[q].todo = {} /\ SidOf(q) \in tx'[q].wrote
                    /\ SidOf(q) \in tx'[q].flips \/ aborts' > 0
      BY <2>1, <2>2, <2>4
    <2>5. QED
      BY <2>1, <2>3, <2>4
  <1>15. ASSUME NEW r \in Req, RefreshAnswer(r) PROVE RotationInv'
    BY <1>15 DEF RefreshAnswer, Settle, Settled
  <1>16. ASSUME NEW r \in Req, ForgotSave(r) PROVE RotationInv'
    BY <1>16 DEF ForgotSave, SaveResetToken, Publish, Attempt
  <1>17. ASSUME NEW r \in Req, ForgotDelivered(r) PROVE RotationInv'
    BY <1>17 DEF ForgotDelivered
  <1>18. ASSUME NEW r \in Req, ForgotRestore(r) PROVE RotationInv'
    BY <1>18 DEF ForgotRestore, SaveResetToken, Publish, Attempt
  <1>19. ASSUME NEW p \in Proc, NEW s \in Sid, ReplayLapse(p, s) PROVE RotationInv'
    BY <1>19 DEF ReplayLapse
  <1>20. ASSUME NEW p \in Proc, Crash(p) PROVE RotationInv'
    BY <1>20 DEF Crash, Answered
  <1>21. CASE UNCHANGED vars
    BY <1>21 DEF vars
  <1>22. QED
    BY <1>1, <1>2, <1>3, <1>4, <1>5, <1>6, <1>7, <1>8, <1>9, <1>10, <1>11, <1>12, <1>13, <1>14, <1>15, <1>16, <1>17, <1>18, <1>19, <1>20, <1>21
    DEF Next, Serve

LEMMA InitChainInv == Init => ChainInv
  <1> SUFFICES ASSUME Init PROVE ChainInv
    OBVIOUS
  <1>1. \A s \in Sid : session[s].parent = NoSid
    BY DEF Init
  <1>2. \A r \in Req : pc[r] = "idle" /\ clean[r] = {}
    BY DEF Init
  <1>3. QED
    BY <1>1, <1>2 DEF ChainInv, RefreshesRetire, RotationInv, SingleSuccessor

LEMMA ChainInvariance == Spec => [](Inv /\ ChainInv)
  <1>1. Init => Inv /\ ChainInv
    BY InitInv, InitChainInv
  <1>2. Inv /\ ChainInv /\ [Next]_vars => Inv' /\ ChainInv'
    BY StepInv, StepParents, StepRotation DEF ChainInv
  <1>3. QED
    BY <1>1, <1>2, PTL DEF Spec

\* In each process the in-flight map, the status check and the conflict detection of
\* the database together keep a token from being refreshed into two sessions that it
\* was revoked for, whatever the other processes and the aborts do.
THEOREM SessionsHaveOneSuccessor == Spec => []SingleSuccessor
  <1>1. Inv /\ ChainInv => SingleSuccessor
    BY DEF ChainInv
  <1>2. QED
    BY <1>1, ChainInvariance, PTL

-----------------------------------------------------------------------------
(* The refinement: a commit is one step of SessionChain, and every other    *)
(* step is a stutter.                                                       *)

\* Ids that were never used descend from nothing and name no replacement.
UnusedHaveNoKin ==
  \A s \in Sid : ~Issued(s) =>
    session[s].parent = NoSid /\ session[s].replacedBySessionId = NoSid

LEMMA StepUnused == Inv /\ UnusedHaveNoKin /\ [Next]_vars => UnusedHaveNoKin'
  <1> SUFFICES ASSUME Inv, UnusedHaveNoKin, [Next]_vars PROVE UnusedHaveNoKin'
    OBVIOUS
  <1>1. CASE UNCHANGED session
    BY <1>1 DEF UnusedHaveNoKin, Issued
  <1>2. ASSUME NEW r \in Req, TxCommit(r), NEW s \in Sid, session'[s].status = "none"
        PROVE  session'[s] = session[s] /\ ~Issued(s)
    <2>1. ~Issued(s)
      BY <1>2, StepKeepsSessions DEF SessionsKept
    <2>2. s \notin tx[r].wrote
      BY <2>1, DocsIssued, ConstantsAssumption DEF Inv, AttemptInv
    <2>3. session'[s] # CreatedSession(r)
      BY <1>2 DEF CreatedSession
    <2>4. QED
      BY <1>2, <2>1, <2>2, <2>3 DEF TxCommit
  <1>3. QED
    BY <1>1, <1>2, StepChangesSessions DEF UnusedHaveNoKin, Issued

\* The sessions that process p has retired, as SessionChain sees them.
RetiredBy(p) == {x \in Sid : \E t \in Sid :
                   session[t].parent = x /\ session[t].by = p /\ session[t].retires}

LEMMA RefreshRotates ==
  ASSUME Inv, ChainInv, UnusedHaveNoKin, NEW r \in Req, Kind(r) = "refresh", TxCommit(r),
         NEW p, p = ProcOf(r), NEW s, s = SidOf(r), NEW f, f = tx[r].fresh
  PROVE  IF s \in tx[r].flips THEN Chain!Rotate(p, s, f) ELSE Chain!Slip(p, s, f)
  <1>1. /\ s \in Sid /\ f \in Sid /\ s # f /\ p \in Proc
        /\ session[s].status # "none" /\ session[f].status = "none"
        /\ ~Retired(p, s)
        /\ session'[s].status = IF s \in tx[r].flips THEN "revoked" ELSE session[s].status
        /\ \A t \in Sid \ {s, f} : session'[t] = session[t]
    BY RefreshCommit
  <1>2. /\ session'[f].status = "active" /\ session'[f].parent = s /\ session'[f].by = p
        /\ session'[f].retires <=> s \in tx[r].flips
    BY <1>1, RefreshCommitSucceeds
  <1>3. \A t \in Sid \ {f} :
          /\ session'[t].parent = session[t].parent /\ session'[t].by = session[t].by
          /\ session'[t].retires = session[t].retires
    BY RefreshCommitSucceeds
  <1>4. [t \in Sid |-> session'[t].parent] =
          [[t \in Sid |-> session[t].parent] EXCEPT ![f] = s]
    BY <1>1, <1>2, <1>3
  <1>5. session[f].parent \notin Sid
    BY <1>1, ConstantsAssumption DEF UnusedHaveNoKin, Issued
  <1>6. ASSUME NEW q \in Proc
        PROVE  RetiredBy(q)' = IF q = p /\ s \in tx[r].flips THEN RetiredBy(q) \cup {s}
                               ELSE RetiredBy(q)
    <2>1. ASSUME NEW x \in Sid
          PROVE  (\E t \in Sid : /\ session'[t].parent = x /\ session'[t].by = q
                                 /\ session'[t].retires)
                 <=> \/ \E t \in Sid : /\ session[t].parent = x /\ session[t].by = q
                                       /\ session[t].retires
                     \/ x = s /\ q = p /\ s \in tx[r].flips
      BY <1>1, <1>2, <1>3, <1>5
    <2>2. QED
      BY <1>1, <2>1 DEF RetiredBy
  <1>7. s \notin RetiredBy(p)
    BY <1>1 DEF Retired, Successor, RetiredBy
  <1>8. CASE s \in tx[r].flips
    <2>1. [t \in Sid |-> session'[t].status] =
            [[t \in Sid |-> session[t].status] EXCEPT ![s] = "revoked", ![f] = "active"]
      BY <1>1, <1>2, <1>8
    <2>2. [q \in Proc |-> RetiredBy(q)'] =
            [[q \in Proc |-> RetiredBy(q)] EXCEPT ![p] = @ \cup {s}]
      BY <1>1, <1>6, <1>8
    <2>3. Chain!Rotate(p, s, f)
      BY <1>1, <1>4, <1>7, <2>1, <2>2 DEF Chain!Rotate, Chain!Unused, RetiredBy
    <2>4. QED
      BY <1>8, <2>3
  <1>9. CASE s \notin tx[r].flips
    <2>1. [t \in Sid |-> session'[t].status] =
            [[t \in Sid |-> session[t].status] EXCEPT ![f] = "active"]
      BY <1>1, <1>2, <1>9
    <2>2. [q \in Proc |-> RetiredBy(q)'] = [q \in Proc |-> RetiredBy(q)]
      BY <1>6, <1>9
    <2>3. Chain!Slip(p, s, f)
      BY <1>1, <1>4, <1>7, <2>1, <2>2 DEF Chain!Slip, Chain!Unused, RetiredBy
    <2>4. QED
      BY <1>9, <2>3
  <1>10. QED
    BY <1>8, <1>9

\* Where nobody gets a parent, nobody is retired with a refresh.
LEMMA RetiredStays ==
  ASSUME \A t \in Sid :
           \/ /\ session'[t].parent = session[t].parent /\ session'[t].by = session[t].by
              /\ session'[t].retires = session[t].retires
           \/ session'[t].parent = NoSid /\ session[t].parent = NoSid
  PROVE  [q \in Proc |-> RetiredBy(q)'] = [q \in Proc |-> RetiredBy(q)]
  <1>1. ASSUME NEW q \in Proc, NEW x \in Sid
        PROVE  (\E t \in Sid : /\ session'[t].parent = x /\ session'[t].by = q
                               /\ session'[t].retires)
               <=> \E t \in Sid : /\ session[t].parent = x /\ session[t].by = q
                                  /\ session[t].retires
    BY ConstantsAssumption
  <1>2. \A q \in Proc : RetiredBy(q)' = RetiredBy(q)
    BY <1>1 DEF RetiredBy
  <1>3. QED
    BY <1>2

LEMMA LoginOpens ==
  ASSUME Inv, UnusedHaveNoKin, NEW r \in Req, Kind(r) = "login", TxCommit(r),
         NEW f, f = tx[r].fresh
  PROVE  Chain!Open(f)
  <1>1. f \in Sid /\ ~Issued(f)
    BY DEF TxCommit, Inv, TypeInv, TypeOK, AttemptInv, Attempt, MaybeSid, Creates
  <1>2. tx[r].wrote = {}
    BY DEF Inv, AttemptInv, Docs
  <1>3. session'[f] = CreatedSession(r) /\ \A t \in Sid \ {f} : session'[t] = session[t]
    BY <1>1, <1>2 DEF TxCommit
  <1>4. session'[f].status = "active" /\ session'[f].parent = NoSid /\ session[f].parent = NoSid
    BY <1>1, <1>3 DEF CreatedSession, UnusedHaveNoKin
  <1>5. [t \in Sid |-> session'[t].status] =
          [[t \in Sid |-> session[t].status] EXCEPT ![f] = "active"]
    BY <1>1, <1>3, <1>4
  <1>6. [t \in Sid |-> session'[t].parent] = [t \in Sid |-> session[t].parent]
    BY <1>1, <1>3, <1>4
  <1>7. [q \in Proc |-> RetiredBy(q)'] = [q \in Proc |-> RetiredBy(q)]
    BY <1>3, <1>4, RetiredStays
  <1>8. QED
    BY <1>1, <1>5, <1>6, <1>7 DEF Chain!Open, Chain!Unused, Issued, RetiredBy

LEMMA OthersClose ==
  ASSUME Inv, NEW r \in Req, ~Creates(r), TxCommit(r)
  PROVE  \E S \in SUBSET Sid : Chain!Close(S)
  <1>0. PICK S \in SUBSET Sid : S = {s \in Sid : session'[s].status # session[s].status}
    OBVIOUS
  <1>1. ASSUME NEW s \in Sid
        PROVE  /\ session'[s].parent = session[s].parent
               /\ session'[s].by = session[s].by
               /\ session'[s].retires = session[s].retires
               /\ session'[s].status # session[s].status =>
                    session'[s].status = "revoked" /\ session[s].status # "none"
    <2>1. session[s] \in SessionDoc
      BY DEF Inv, TypeInv, TypeOK
    <2>2. tx[r].fresh # s
      BY ConstantsAssumption DEF TxCommit, Inv, AttemptInv
    <2>3. CASE s \in tx[r].wrote
      <3>1. session'[s] = SavedSession(r, s)
        BY <2>2, <2>3 DEF TxCommit
      <3>2. s \in Docs(r)
        BY <2>3 DEF Inv, AttemptInv
      <3>3. Issued(s)
        BY <3>2, ConstantsAssumption DEF Docs, Inv, IssuedInv, Authenticated
      <3>4. QED
        BY <2>1, <3>1, <3>3 DEF SavedSession, SessionDoc, Issued
    <2>4. CASE s \notin tx[r].wrote
      BY <2>2, <2>4 DEF TxCommit
    <2>5. QED
      BY <2>3, <2>4
  <1>2. [t \in Sid |-> session'[t].status] =
          [t \in Sid |-> IF t \in S THEN "revoked" ELSE [u \in Sid |-> session[u].status][t]]
    BY <1>0, <1>1
  <1>3. [t \in Sid |-> session'[t].parent] = [t \in Sid |-> session[t].parent]
    BY <1>1
  <1>4. [q \in Proc |-> RetiredBy(q)'] = [q \in Proc |-> RetiredBy(q)]
    BY <1>1, RetiredStays
  <1>5. \A t \in S : [u \in Sid |-> session[u].status][t] # "none"
    BY <1>0, <1>1
  <1>6. Chain!Close(S)
    BY <1>2, <1>3, <1>4, <1>5 DEF Chain!Close, RetiredBy
  <1>7. QED
    BY <1>6

LEMMA StepRefines ==
  Inv /\ ChainInv /\ UnusedHaveNoKin /\ [Next]_vars =>
    [Chain!ChainNext]_(Chain!chainVars)
  <1> SUFFICES ASSUME Inv, ChainInv, UnusedHaveNoKin, [Next]_vars
               PROVE  Chain!ChainNext \/ UNCHANGED Chain!chainVars
    OBVIOUS
  <1>1. CASE UNCHANGED session
    BY <1>1 DEF Chain!chainVars
  <1>2. ASSUME NEW r \in Req, TxCommit(r) PROVE Chain!ChainNext
    <2>1. CASE Kind(r) = "refresh"
      <3>1. ProcOf(r) \in Proc /\ SidOf(r) \in Sid /\ tx[r].fresh \in Sid
        BY <1>2, <2>1, RefreshCommit
      <3>2. PICK p \in Proc, s \in Sid, f \in Sid : p = ProcOf(r) /\ s = SidOf(r) /\ f = tx[r].fresh
        BY <3>1
      <3>3. Chain!Rotate(p, s, f) \/ Chain!Slip(p, s, f)
        BY <1>2, <2>1, <3>2, RefreshRotates
      <3>4. QED
        BY <3>3 DEF Chain!ChainNext
    <2>2. CASE Kind(r) = "login"
      <3>1. tx[r].fresh \in Sid
        BY <1>2, <2>2 DEF TxCommit, Inv, TypeInv, TypeOK, AttemptInv, Attempt, MaybeSid, Creates
      <3>2. PICK f \in Sid : f = tx[r].fresh
        BY <3>1
      <3>3. Chain!Open(f)
        BY <1>2, <2>2, <3>2, LoginOpens
      <3>4. QED
        BY <3>3 DEF Chain!ChainNext
    <2>3. CASE ~Creates(r)
      BY <1>2, <2>3, OthersClose DEF Chain!ChainNext
    <2>4. QED
      BY <2>1, <2>2, <2>3 DEF Creates
  <1>3. QED
    BY <1>1, <1>2, StepChangesSessions

LEMMA InitRefines == Init => Chain!ChainInit /\ UnusedHaveNoKin
  <1> SUFFICES ASSUME Init PROVE Chain!ChainInit /\ UnusedHaveNoKin
    OBVIOUS
  <1>1. \A s \in Sid :
          /\ session[s].status = IF s \in InitialSessions THEN "active" ELSE "none"
          /\ session[s].parent = NoSid /\ session[s].replacedBySessionId = NoSid
    BY DEF Init
  <1>2. \A q \in Proc : RetiredBy(q) = {}
    BY <1>1, ConstantsAssumption DEF RetiredBy
  <1>3. QED
    BY <1>1, <1>2 DEF Chain!ChainInit, UnusedHaveNoKin, RetiredBy

LEMMA UnusedInvariance == Spec => []UnusedHaveNoKin
  BY InitRefines, StepUnused, Invariance, PTL DEF Spec

\* The processes together implement the chains of SessionChain: every commit of an
\* operation is one of its steps, a refresh that did not revoke its session a slip.
THEOREM SessionsImplementChain == Spec => ImplementsChain
  BY InitRefines, StepRefines, ChainInvariance, UnusedInvariance, PTL
  DEF Spec, ImplementsChain, Chain!ChainSpec

-----------------------------------------------------------------------------
(* What refresh answers: memory and database agree, in each process.        *)

\* A process that is about to refresh a session has no answer cached for it.
UncachedInv ==
  \A p \in Proc, s \in Sid :
    refreshInFlightByTokenHash[p][s] # NoReq => refreshReplayCacheByTokenHash[p][s] = NoSid

\* t is cached for the token of s, or the refresh that committed it is about to say so.
Held(p, s, t) ==
  \/ t # NoSid /\ refreshReplayCacheByTokenHash[p][s] = t
  \/ \E r \in Req : /\ pc[r] = "committed" /\ Kind(r) = "refresh"
                    /\ ProcOf(r) = p /\ SidOf(r) = s /\ answer[r] = t

\* A refresh of s has been answered with t.
Told(p, s, t) ==
  \E r \in Req : /\ pc[r] = "done" /\ Kind(r) = "refresh"
                 /\ ProcOf(r) = p /\ SidOf(r) = s /\ answer[r] = t

\* s names t as its replacement, or another process has refreshed it too.
Named(p, s, t) ==
  \/ session[s].replacedBySessionId = t
  \/ \E u \in Sid : session[u].parent = s /\ session[u].by # p

SuccessorInv ==
  \A p \in Proc, s \in Sid, t \in MaybeSid :
    /\ Held(p, s, t) \/ Told(p, s, t) => t \in Sid /\ Successor(p, s, t)
    /\ Held(p, s, t) => Named(p, s, t)

CoherenceInv == UncachedInv /\ SuccessorInv

\* Settling a refresh frees its token in its process.
LEMMA SettleUncached ==
  ASSUME Inv, UncachedInv, NEW r \in Req, NEW outcome \in Answered, NEW result,
         Settle(r, outcome, result), UNCHANGED refreshReplayCacheByTokenHash
  PROVE  UncachedInv'
  <1>1. refreshInFlightByTokenHash \in [Proc -> [Sid -> Req \cup {NoReq}]]
    BY DEF Inv, TypeInv, TypeOK
  <1>2. CASE Kind(r) = "refresh"
    BY <1>1, <1>2 DEF Settle, UncachedInv
  <1>3. CASE Kind(r) # "refresh"
    BY <1>3 DEF Settle, UncachedInv
  <1>4. QED
    BY <1>2, <1>3

LEMMA StepUncached == Inv /\ UncachedInv /\ [Next]_vars => UncachedInv'
  <1> SUFFICES ASSUME Inv, UncachedInv, [Next]_vars PROVE UncachedInv'
    OBVIOUS
  <1>0. /\ refreshInFlightByTokenHash \in [Proc -> [Sid -> Req \cup {NoReq}]]
        /\ refreshReplayCacheByTokenHash \in [Proc -> [Sid -> MaybeSid]]
    BY DEF Inv, TypeInv, TypeOK
  <1>1. CASE UNCHANGED memory
    BY <1>1 DEF UncachedInv, memory
  <1>2. ASSUME NEW r \in Req, NEW p \in Proc, NEW s \in Sid, RefreshReceive(r, p, s)
        PROVE  UncachedInv'
    <2>1. CASE UNCHANGED memory
      BY <1>1, <2>1
    <2>2. CASE /\ refreshReplayCacheByTokenHash[p][s] = NoSid
               /\ refreshInFlightByTokenHash' = [refreshInFlightByTokenHash EXCEPT ![p][s] = r]
               /\ UNCHANGED refreshReplayCacheByTokenHash
      BY <1>0, <2>2 DEF UncachedInv
    <2>3. QED
      BY <1>2, <2>1, <2>2 DEF RefreshReceive
  <1>3. ASSUME NEW r \in Req, Reject(r) \/ TxFail(r) PROVE UncachedInv'
    BY <1>3, SettleUncached DEF Reject, TxFail, Answered
  <1>4. ASSUME NEW r \in Req, RefreshAnswer(r) PROVE UncachedInv'
    <2>1. Kind(r) = "refresh" /\ ProcOf(r) \in Proc /\ SidOf(r) \in Sid
      BY <1>4 DEF RefreshAnswer, Inv, TypeInv, InputOK, PhaseInv
    <2>2. /\ refreshReplayCacheByTokenHash' =
               [refreshReplayCacheByTokenHash EXCEPT ![ProcOf(r)][SidOf(r)] = answer[r]]
          /\ refreshInFlightByTokenHash' =
               [refreshInFlightByTokenHash EXCEPT ![ProcOf(r)][SidOf(r)] = NoReq]
      BY <1>4, <2>1 DEF RefreshAnswer, Settle
    <2>3. QED
      BY <1>0, <2>1, <2>2 DEF UncachedInv
  <1>5. ASSUME NEW p \in Proc, NEW s \in Sid, ReplayLapse(p, s) PROVE UncachedInv'
    BY <1>0, <1>5 DEF ReplayLapse, UncachedInv
  <1>6. ASSUME NEW p \in Proc, Crash(p) PROVE UncachedInv'
    BY <1>0, <1>6 DEF Crash, UncachedInv
  <1>7. ASSUME NEW r \in Req, Serve(r) PROVE UncachedInv'
    <2>1. \/ Reject(r) \/ RefreshAnswer(r) \/ UNCHANGED memory
      BY <1>7
      DEF Serve, LoadActiveSession, RefreshLoad, SwitchTenantLoad, ViewOwnSession,
          LoadOwnSession, LoadAllSessions, LoadSecurityRecord, LoginLoad, ForgotLoad,
          ChangePasswordLoad, ResetLoad, ViewSecurity, FindSessions, ChangePasswordFind,
          ResetFind, ViewSessions, TxBegin, TxSave, TxConflict, TxCommit, ForgotSave,
          ForgotDelivered, ForgotRestore
    <2>2. QED
      BY <1>1, <1>3, <1>4, <2>1
  <1>8. CASE UNCHANGED vars
    BY <1>1, <1>8 DEF vars, memory
  <1>9. QED
    BY <1>1, <1>2, <1>3, <1>5, <1>6, <1>7, <1>8 DEF Next, Receive, TxAbort

\* What a process holds for a token is old, or comes from the commit of a refresh; what it
\* has told is old, or what it held.
LEMMA HeldFromCommit ==
  ASSUME Inv, [Next]_vars, NEW p \in Proc, NEW s \in Sid, NEW t \in MaybeSid
  PROVE  /\ Held(p, s, t)' => \/ Held(p, s, t)
                              \/ \E r \in Req : /\ TxCommit(r) /\ Kind(r) = "refresh"
                                                /\ ProcOf(r) = p /\ SidOf(r) = s
                                                /\ tx[r].fresh = t
         /\ Told(p, s, t)' => Told(p, s, t) \/ Held(p, s, t)
  <1> DEFINE Goal ==
        /\ Held(p, s, t)' => \/ Held(p, s, t)
                             \/ \E r \in Req : /\ TxCommit(r) /\ Kind(r) = "refresh"
                                               /\ ProcOf(r) = p /\ SidOf(r) = s
                                               /\ tx[r].fresh = t
        /\ Told(p, s, t)' => Told(p, s, t) \/ Held(p, s, t)
  <1> SUFFICES Goal
    OBVIOUS
  <1>0. /\ pc \in [Req -> PC] /\ answer \in [Req -> MaybeSid]
        /\ refreshReplayCacheByTokenHash \in [Proc -> [Sid -> MaybeSid]]
        /\ input \in [Req -> Input]
    BY DEF Inv, TypeInv, TypeOK
  <1> USE DEF Held, Told, Kind, ProcOf, SidOf, db, memory
  <1>1. ASSUME NEW r \in Req, NEW k \in Kinds, NEW o \in Proc, NEW u \in MaybeSid,
               NEW v \in MaybeTenant, Receive(r, k, o, u, v) PROVE Goal
    BY <1>0, <1>1 DEF Receive
  <1>2. ASSUME NEW r \in Req, NEW o \in Proc, NEW u \in Sid, RefreshReceive(r, o, u) PROVE Goal
    <2>1. UNCHANGED refreshReplayCacheByTokenHash
      BY <1>2 DEF RefreshReceive
    <2>2. \A q \in Req \ {r} : pc'[q] = pc[q] /\ answer'[q] = answer[q] /\ input'[q] = input[q]
      BY <1>0, <1>2 DEF RefreshReceive
    <2>3. /\ SidOf(r)' = u /\ ProcOf(r)' = o /\ pc'[r] # "committed"
          /\ \/ pc'[r] # "done"
             \/ answer'[r] = refreshReplayCacheByTokenHash[o][u] /\ answer'[r] # NoSid
      BY <1>0, <1>2 DEF RefreshReceive
    <2>4. QED
      BY <2>1, <2>2, <2>3
  <1>3. ASSUME NEW r \in Req, LoadActiveSession(r) PROVE Goal
    <2>1. LoadActiveSessionEffect(r)
      BY <1>3, LoadActiveSessionStep
    <2>2. QED
      BY <1>0, <2>1 DEF LoadActiveSessionEffect
  <1>4. ASSUME NEW r \in Req, LoadOwnSession(r) PROVE Goal
    BY <1>0, <1>4 DEF LoadOwnSession
  <1>5. ASSUME NEW r \in Req, LoadAllSessions(r) PROVE Goal
    BY <1>0, <1>5 DEF LoadAllSessions, Inv, PhaseInv
  <1>6. ASSUME NEW r \in Req, LoadSecurityRecord(r) PROVE Goal
    <2>1. LoadSecurityRecordEffect(r)
      BY <1>6, LoadSecurityRecordStep
    <2>2. QED
      BY <1>0, <2>1 DEF LoadSecurityRecordEffect
  <1>7. ASSUME NEW r \in Req, FindSessions(r) PROVE Goal
    <2>1. FindSessionsEffect(r)
      BY <1>7, FindSessionsStep
    <2>2. QED
      BY <1>0, <2>1 DEF FindSessionsEffect
  <1>8. ASSUME NEW r \in Req, Reject(r) PROVE Goal
    BY <1>0, <1>8 DEF Reject, Settle, Settled
  <1>9. ASSUME NEW r \in Req, TxBegin(r) PROVE Goal
    BY <1>0, <1>9 DEF TxBegin
  <1>10. ASSUME NEW r \in Req, NEW d \in Doc, TxSave(r, d) PROVE Goal
    BY <1>0, <1>10 DEF TxSave
  <1>11. ASSUME NEW r \in Req, NEW d \in Doc, TxConflict(r, d) PROVE Goal
    BY <1>0, <1>11 DEF TxConflict
  <1>12. ASSUME NEW r \in Req, TxAbort(r) PROVE Goal
    BY <1>0, <1>12 DEF TxAbort
  <1>13. ASSUME NEW r \in Req, TxFail(r) PROVE Goal
    BY <1>0, <1>13 DEF TxFail, Settle, Settled
  <1>14. ASSUME NEW r \in Req, TxCommit(r) PROVE Goal
    BY <1>0, <1>14 DEF TxCommit
  <1>15. ASSUME NEW r \in Req, RefreshAnswer(r) PROVE Goal
    <2>1. /\ Kind(r) = "refresh" /\ pc[r] = "committed"
          /\ refreshReplayCacheByTokenHash' =
               [refreshReplayCacheByTokenHash EXCEPT ![ProcOf(r)][SidOf(r)] = answer[r]]
          /\ UNCHANGED input
      BY <1>15 DEF RefreshAnswer, Inv, PhaseInv
    <2>2. \A q \in Req :
            \/ pc'[q] = pc[q] /\ answer'[q] = answer[q]
            \/ /\ pc'[q] = "done" /\ answer'[q] = answer[r]
               /\ ProcOf(q) = ProcOf(r) /\ SidOf(q) = SidOf(r)
      BY <1>0, <1>15 DEF RefreshAnswer, Settle, Settled
    <2>3. QED
      BY <1>0, <2>1, <2>2
  <1>16. ASSUME NEW r \in Req, ForgotSave(r) PROVE Goal
    BY <1>0, <1>16 DEF ForgotSave
  <1>17. ASSUME NEW r \in Req, ForgotDelivered(r) PROVE Goal
    BY <1>0, <1>17 DEF ForgotDelivered, Inv, PhaseInv
  <1>18. ASSUME NEW r \in Req, ForgotRestore(r) PROVE Goal
    BY <1>0, <1>18 DEF ForgotRestore, Inv, PhaseInv
  <1>19. ASSUME NEW o \in Proc, NEW u \in Sid, ReplayLapse(o, u) PROVE Goal
    BY <1>0, <1>19 DEF ReplayLapse
  <1>20. ASSUME NEW o \in Proc, Crash(o) PROVE Goal
    BY <1>0, <1>20 DEF Crash
  <1>21. CASE UNCHANGED vars
    BY <1>0, <1>21 DEF vars
  <1>22. QED
    BY <1>1, <1>2, <1>3, <1>4, <1>5, <1>6, <1>7, <1>8, <1>9, <1>10, <1>11, <1>12, <1>13, <1>14, <1>15, <1>16, <1>17, <1>18, <1>19, <1>20, <1>21
    DEF Next, Serve

\* Who descends from a session of the collection stays its descendant.
LEMMA StepKeepsSuccessors ==
  ASSUME Inv, [Next]_vars, NEW s \in Sid, NEW t \in Sid, session[t].parent = s, Issued(t)
  PROVE  session'[t].parent = s /\ session'[t].by = session[t].by
  BY StepKeepsSessions DEF SessionsKept

\* While a process holds t for s, only another process can refresh s.
LEMMA StepKeepsNamed ==
  ASSUME Inv, ChainInv, UnusedHaveNoKin, UncachedInv, [Next]_vars,
         NEW p \in Proc, NEW s \in Sid, NEW t \in Sid, Held(p, s, t), Named(p, s, t)
  PROVE  Named(p, s, t)'
  <1>1. session[s] \in SessionDoc
    BY DEF Inv, TypeInv, TypeOK
  <1>2. ASSUME NEW u \in Sid, session[u].parent = s, session[u].by # p
        PROVE  Named(p, s, t)'
    <2>1. Issued(u)
      BY <1>2, ConstantsAssumption DEF UnusedHaveNoKin
    <2>2. session'[u].parent = s /\ session'[u].by # p
      BY <1>2, <2>1, StepKeepsSuccessors
    <2>3. QED
      BY <2>2 DEF Named
  <1>3. CASE UNCHANGED session
    BY <1>3 DEF Named
  <1>4. ASSUME NEW r \in Req, TxCommit(r), session[s].replacedBySessionId = t
        PROVE  Named(p, s, t)'
    <2>1. CASE Kind(r) = "refresh" /\ s = SidOf(r)
      <3>1. Performing(r) /\ pc[r] = "tx"
        BY <1>4, <2>1 DEF TxCommit, Performing
      <3>2. refreshInFlightByTokenHash[ProcOf(r)][SidOf(r)] = r
        BY <3>1 DEF Inv, InFlightInv
      <3>3. ProcOf(r) # p
        <4> SUFFICES ASSUME ProcOf(r) = p PROVE FALSE
          OBVIOUS
        <4>1. CASE t # NoSid /\ refreshReplayCacheByTokenHash[p][s] = t
          BY <2>1, <3>2, <4>1, ConstantsAssumption DEF UncachedInv
        <4>2. ASSUME NEW q \in Req, pc[q] = "committed", Kind(q) = "refresh",
                     ProcOf(q) = p, SidOf(q) = s
              PROVE  FALSE
          <5>1. Performing(q)
            BY <4>2 DEF Performing
          <5>2. q = r
            BY <2>1, <3>1, <4>2, <5>1, OneLeader
          <5>3. QED
            BY <3>1, <4>2, <5>2
        <4>3. QED
          BY <4>1, <4>2 DEF Held
      <3>4. tx[r].fresh \in Sid
        BY <1>4, <2>1, RefreshCommit
      <3>5. session'[tx[r].fresh].parent = s /\ session'[tx[r].fresh].by # p
        BY <1>4, <2>1, <3>3, <3>4, RefreshCommitSucceeds
      <3>6. QED
        BY <3>4, <3>5 DEF Named
    <2>2. CASE ~(Kind(r) = "refresh" /\ s = SidOf(r))
      <3>1. s # tx[r].fresh
        <4>1. Issued(s)
          BY <1>4, ConstantsAssumption DEF UnusedHaveNoKin
        <4>2. QED
          BY <4>1, ConstantsAssumption DEF Inv, AttemptInv
      <3>2. session'[s] = session[s] \/ (session'[s] = SavedSession(r, s) /\ s \in tx[r].wrote)
        BY <1>4, <3>1 DEF TxCommit
      <3>3. CASE Kind(r) = "refresh"
        <4>1. tx[r].wrote \subseteq {SidOf(r)}
          BY <3>3 DEF Inv, AttemptInv, Docs
        <4>2. QED
          BY <1>4, <2>2, <3>2, <3>3, <4>1 DEF Named
      <3>4. CASE Kind(r) # "refresh"
        BY <1>1, <1>4, <3>2, <3>4 DEF SavedSession, SessionDoc, Named
      <3>5. QED
        BY <3>3, <3>4
    <2>3. QED
      BY <2>1, <2>2
  <1>5. QED
    BY <1>2, <1>3, <1>4, StepChangesSessions DEF Named

LEMMA StepSuccessor ==
  Inv /\ ChainInv /\ UnusedHaveNoKin /\ CoherenceInv /\ [Next]_vars => SuccessorInv'
  <1> SUFFICES ASSUME Inv, ChainInv, UnusedHaveNoKin, CoherenceInv, [Next]_vars,
                      NEW p \in Proc, NEW s \in Sid, NEW t \in MaybeSid
               PROVE  /\ (Held(p, s, t) \/ Told(p, s, t))' => (t \in Sid /\ Successor(p, s, t))'
                      /\ Held(p, s, t)' => Named(p, s, t)'
    BY DEF SuccessorInv
  <1>1. ASSUME Held(p, s, t) \/ Told(p, s, t) PROVE t \in Sid /\ Successor(p, s, t)'
    <2>1. t \in Sid /\ session[t].parent = s /\ session[t].by = p
      BY <1>1 DEF CoherenceInv, SuccessorInv, Successor
    <2>2. Issued(t)
      BY <2>1, ConstantsAssumption DEF UnusedHaveNoKin
    <2>3. QED
      BY <2>1, <2>2, StepKeepsSuccessors DEF Successor
  <1>2. ASSUME NEW r \in Req, TxCommit(r), Kind(r) = "refresh", ProcOf(r) = p, SidOf(r) = s,
               tx[r].fresh = t
        PROVE  t \in Sid /\ Successor(p, s, t)' /\ Named(p, s, t)'
    <2>1. t \in Sid /\ session'[s].replacedBySessionId = t
      BY <1>2, RefreshCommit
    <2>2. session'[t].parent = s /\ session'[t].by = p
      BY <1>2, <2>1, RefreshCommitSucceeds
    <2>3. QED
      BY <2>1, <2>2 DEF Successor, Named
  <1>3. ASSUME Held(p, s, t) PROVE Named(p, s, t)'
    <2>1. t \in Sid /\ Named(p, s, t)
      BY <1>3 DEF CoherenceInv, SuccessorInv
    <2>2. QED
      BY <1>3, <2>1, StepKeepsNamed DEF CoherenceInv
  <1>4. QED
    BY <1>1, <1>2, <1>3, HeldFromCommit

LEMMA InitCoherence == Init => CoherenceInv
  BY DEF Init, CoherenceInv, UncachedInv, SuccessorInv, Held, Told

LEMMA CoherenceInvariance == Spec => []CoherenceInv
  <1>1. Inv /\ ChainInv /\ UnusedHaveNoKin /\ CoherenceInv /\ [Next]_vars => CoherenceInv'
    BY StepUncached, StepSuccessor DEF CoherenceInv
  <1>2. QED
    BY <1>1, InitCoherence, ChainInvariance, UnusedInvariance, PTL DEF Spec

\* Every process keeps every promise of refresh, whatever the other processes do and
\* whatever crashes, conflicts and aborts cut short: one successor per token that was
\* revoked for it, a session left active only by a retry after an abort, a replay cache
\* that says what the collection says, all callers answered alike, nobody waiting in vain.
THEOREM RefreshesAreCoherent == Spec => []RefreshIsCoherent
  <1>1. Inv /\ CoherenceInv => ReplayMatchesDatabase
    <2> SUFFICES ASSUME Inv, CoherenceInv, NEW p \in Proc, NEW s \in Sid, NEW t \in MaybeSid,
                        t = refreshReplayCacheByTokenHash[p][s], t # NoSid
                 PROVE  /\ session[t].parent = s /\ session[t].by = p
                        /\ \/ session[s].replacedBySessionId = t
                           \/ \E u \in Sid : session[u].parent = s /\ session[u].by # p
      BY DEF ReplayMatchesDatabase, Inv, TypeInv, TypeOK
    <2>1. Held(p, s, t)
      BY DEF Held
    <2>2. QED
      BY <2>1 DEF CoherenceInv, SuccessorInv, Successor, Named
  <1>2. Inv /\ ChainInv /\ CoherenceInv => RefreshCallersAgree
    <2> SUFFICES ASSUME Inv, ChainInv, CoherenceInv, NEW q \in Req, NEW r \in Req,
                        pc[q] = "done", Kind(q) = "refresh", session[answer[q]].retires,
                        pc[r] = "done", Kind(r) = "refresh", session[answer[r]].retires,
                        SidOf(q) = SidOf(r), ProcOf(q) = ProcOf(r)
                 PROVE  answer[q] = answer[r]
      BY DEF RefreshCallersAgree
    <2>1. /\ ProcOf(q) \in Proc /\ SidOf(q) \in Sid /\ SidOf(q) # NoSid
          /\ answer[q] \in MaybeSid /\ answer[r] \in MaybeSid
      BY ConstantsAssumption DEF Inv, TypeInv, TypeOK, InputOK
    <2>2. /\ Told(ProcOf(q), SidOf(q), answer[q])
          /\ Told(ProcOf(q), SidOf(q), answer[r])
      BY DEF Told
    <2>3. \A t \in {answer[q], answer[r]} :
            t \in Sid /\ session[t].parent = SidOf(q) /\ session[t].by = ProcOf(q)
      BY <2>1, <2>2 DEF CoherenceInv, SuccessorInv, Successor
    <2>4. QED
      BY <2>1, <2>3 DEF ChainInv, SingleSuccessor
  <1>3. Inv => WaitersHaveLeader
    BY DEF Inv, InFlightInv, WaitersHaveLeader, Performing
  <1>4. Inv /\ ChainInv /\ CoherenceInv => RefreshIsCoherent
    BY <1>1, <1>2, <1>3 DEF RefreshIsCoherent, ChainInv
  <1>5. QED
    BY <1>4, ChainInvariance, CoherenceInvariance, PTL
=============================================================================
