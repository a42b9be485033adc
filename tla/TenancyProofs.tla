--------------------------- MODULE TenancyProofs ---------------------------
(***************************************************************************)
(* Theorems about Tenancy, for any number of users, requests, invitations *)
(* and aborts.                                                             *)
(***************************************************************************)
EXTENDS Tenancy, TLAPS

\* What a request holds fits its kind.
RequestInv ==
  /\ \A i \in Invitation : invitation[i].status # "none" => invitation[i].email \in User
  /\ \A r \in Req :
       /\ pc[r] # "tx" => tx[r] = NoAttempt
       /\ pc[r] \in {"find", "resend", "insert"} => Kind(r) = "invite"
       /\ pc[r] = "expire" => Kind(r) = "accept"
       /\ pc[r] = "resend" => InvitationOf(r) \in Invitation
       /\ Kind(r) = "invite" => input[r].patch.roleKey \in Role
       /\ Kind(r) \in {"invite", "accept", "transfer", "update", "delete"} => UserOf(r) \in User
       /\ Kind(r) = "transfer" => input[r].actor \in User
       /\ Kind(r) \in {"accept", "revoke"} =>
            InvitationOf(r) \in Invitation /\ invitation[InvitationOf(r)].status # "none"
       /\ Tenant \in tx[r].writes => Kind(r) = "transfer"
       /\ \A i \in Invitation : i \in tx[r].writes =>
            Kind(r) \in {"accept", "revoke"} /\ i = InvitationOf(r)

TypeInv == TypeOK /\ RequestInv

LEMMA InitTypes == Init => TypeInv
  <1> SUFFICES ASSUME Init PROVE TypeInv
    OBVIOUS
  <1>1. NoInput \in Input
    BY DEF NoInput, Input, NoPatch, Patch, AllKinds
  <1>2. NoAttempt \in Attempt /\ NoView \in View
    BY TenancyAssumption DEF NoAttempt, Attempt, NoView, View, Open
  <1>3. membership \in [User -> MembershipDoc] /\ invitation \in [Invitation -> InvitationDoc]
    BY TenancyAssumption DEF Init, MembershipDoc, InvitationDoc, NoMembership, Open
  <1>4. TypeOK
    BY <1>1, <1>2, <1>3, TenancyAssumption DEF Init, TypeOK, PC, Over
  <1>5. \A r \in Req : Kind(r) = "none" /\ tx[r].writes = {}
    BY DEF Init, Kind, NoInput, NoAttempt
  <1>6. RequestInv
    BY <1>5 DEF Init, RequestInv
  <1> QED
    BY <1>4, <1>6 DEF TypeInv

\* Publishing a write keeps the attempts well typed, and what they write.
LEMMA PublishedType ==
  ASSUME TypeInv, NEW r \in Req, NEW W \in SUBSET Doc
  PROVE  /\ Published(r, W) \in [Req -> Attempt]
         /\ Published(r, W)[r] = NoAttempt
         /\ \A q \in Req \ {r} :
              /\ Published(r, W)[q].writes = tx[q].writes
              /\ pc[q] # "tx" => Published(r, W)[q] = NoAttempt
              /\ pc[q] = "tx" => Published(r, W)[q].missed = tx[q].missed \cup W
  BY DEF TypeInv, TypeOK, RequestInv, Published, Attempt, NoAttempt, At

LEMMA StartType ==
  ASSUME TypeInv, NEW r \in Req, NEW request \in Input, NEW step \in {"find", "begin", "expire", "failed"},
         Start(r, request, step), UNCHANGED <<docs, clean, tx, aborts>>,
         view' \in [Req -> View],
         request.kind \in {"invite", "accept", "transfer", "update", "delete"} => request.user \in User,
         request.kind = "invite" => request.patch.roleKey \in Role,
         request.kind = "transfer" => request.actor \in User,
         request.kind \in {"accept", "revoke"} =>
           request.invitation \in Invitation /\ invitation[request.invitation].status # "none",
         step = "find" => request.kind = "invite",
         step = "expire" => request.kind = "accept"
  PROVE  TypeInv'
  <1> USE DEF TypeInv, Start, At, Goto, docs
  <1>1. TypeOK'
    BY DEF TypeOK, PC, Over
  <1>2. \A q \in Req : q # r => input'[q] = input[q] /\ pc'[q] = pc[q]
    BY DEF TypeOK
  <1>3. input'[r] = request /\ pc'[r] = step /\ tx[r] = NoAttempt
    BY DEF TypeOK, RequestInv
  <1>4. RequestInv'
    BY <1>2, <1>3 DEF RequestInv, Kind, UserOf, InvitationOf, NoAttempt
  <1> QED
    BY <1>1, <1>4

LEMMA ArriveType ==
  ASSUME TypeInv, NEW r \in Req, Arrive(r)
  PROVE  TypeInv'
  <1>0. NoInput \in Input /\ NoPatch \in Patch
    BY DEF NoInput, Input, NoPatch, Patch, AllKinds
  <1>1. view \in [Req -> View]
    BY DEF TypeInv, TypeOK
  <1>2. \A i \in Invitation : invitation[i] \in InvitationDoc
    BY DEF TypeInv, TypeOK
  <1>3. \A u \in User : membership[u] \in MembershipDoc
    BY DEF TypeInv, TypeOK
  <1>4. ASSUME NEW u \in User, NEW role \in Role, Invite(r, u, role) PROVE TypeInv'
    <2> DEFINE request == [NoInput EXCEPT !.kind = "invite", !.user = u, !.patch.roleKey = role]
    <2>1. request \in Input /\ request.kind = "invite" /\ request.user = u /\ request.patch.roleKey = role
      BY <1>0 DEF NoInput, NoPatch, Input, Patch, AllKinds
    <2>2. Start(r, request, "find") /\ UNCHANGED <<docs, view, clean, tx, aborts>>
      BY <1>4 DEF Invite
    <2> HIDE DEF request
    <2> QED
      BY <1>1, <2>1, <2>2, StartType
  <1>5. ASSUME NEW i \in Invitation, NEW step \in {"begin", "expire", "failed"}, Accept(r, i, step)
        PROVE  TypeInv'
    <2> DEFINE request == [NoInput EXCEPT !.kind = "accept", !.user = invitation[i].email,
                                          !.invitation = i]
    <2>1. invitation[i].status # "none"
      BY <1>5 DEF Accept
    <2>2. invitation[i].email \in User
      BY <2>1 DEF TypeInv, RequestInv
    <2>3. request \in Input /\ request.kind = "accept" /\ request.user \in User /\ request.invitation = i
      BY <1>0, <2>2 DEF NoInput, NoPatch, Input, Patch, AllKinds
    <2>4. Start(r, request, step) /\ UNCHANGED <<docs, clean, tx, aborts>>
      BY <1>5 DEF Accept
    <2>5. view' \in [Req -> View]
      BY <1>1, <1>2, <1>5 DEF Accept, View, InvitationDoc
    <2> HIDE DEF request
    <2> QED
      BY <2>1, <2>3, <2>4, <2>5, StartType
  <1>6. ASSUME NEW i \in Invitation, Revoke(r, i) PROVE TypeInv'
    <2> DEFINE request == [NoInput EXCEPT !.kind = "revoke", !.invitation = i]
    <2>1. request \in Input /\ request.kind = "revoke" /\ request.invitation = i
          /\ invitation[i].status # "none"
      BY <1>0, <1>6 DEF NoInput, NoPatch, Input, Patch, AllKinds, Revoke
    <2>2. Start(r, request, "begin") /\ UNCHANGED <<docs, clean, tx, aborts>>
      BY <1>6 DEF Revoke
    <2>3. view' \in [Req -> View]
      BY <1>1, <1>2, <1>6 DEF Revoke, View, InvitationDoc
    <2> HIDE DEF request
    <2> QED
      BY <2>1, <2>2, <2>3, StartType
  <1>7. ASSUME NEW u \in User, Transfer(r, u) PROVE TypeInv'
    <2> DEFINE request == [NoInput EXCEPT !.kind = "transfer", !.actor = ownerUserId, !.user = u]
    <2>1. ownerUserId \in User
      BY DEF TypeInv, TypeOK
    <2>2. request \in Input /\ request.kind = "transfer" /\ request.user = u /\ request.actor \in User
      BY <1>0, <2>1 DEF NoInput, NoPatch, Input, Patch, AllKinds
    <2>3. Start(r, request, "begin") /\ UNCHANGED <<docs, clean, tx, aborts>>
      BY <1>7 DEF Transfer
    <2>4. view' \in [Req -> View]
      BY <1>1, <1>3, <1>7, <2>1 DEF Transfer, View, MembershipDoc
    <2> HIDE DEF request
    <2> QED
      BY <2>2, <2>3, <2>4, StartType
  <1>8. ASSUME NEW kind \in {"update", "delete"}, NEW u \in User, NEW patch \in Patch,
               Change(r, kind, u, patch)
        PROVE  TypeInv'
    <2> DEFINE request == [NoInput EXCEPT !.kind = kind, !.user = u, !.patch = patch]
    <2>1. request \in Input /\ request.kind = kind /\ request.user = u
      BY <1>0 DEF NoInput, NoPatch, Input, Patch, AllKinds
    <2>2. Start(r, request, "begin") /\ UNCHANGED <<docs, view, clean, tx, aborts>>
      BY <1>8 DEF Change
    <2> HIDE DEF request
    <2> QED
      BY <1>1, <2>1, <2>2, StartType
  <1> QED
    BY <1>0, <1>4, <1>5, <1>6, <1>7, <1>8 DEF Arrive

\* A step of r that leaves what others hold alone, and its own request's kind.
LEMMA OwnStepType ==
  ASSUME TypeInv, NEW r \in Req,
         NEW step \in PC \ {"find", "resend", "insert", "expire", "tx"},
         Goto(r, step), UNCHANGED <<input, view>>,
         ownerUserId' \in User, membership' \in [User -> MembershipDoc],
         invitation' \in [Invitation -> InvitationDoc],
         \A i \in Invitation : invitation'[i].status # "none" => invitation'[i].email \in User,
         \A i \in Invitation : invitation[i].status # "none" => invitation'[i].status # "none",
         tx' \in [Req -> Attempt], tx'[r] = NoAttempt,
         \A q \in Req \ {r} : /\ pc[q] # "tx" => tx'[q] = NoAttempt
                              /\ tx'[q].writes = tx[q].writes,
         clean' \in [Req -> SUBSET Doc], aborts' \in Nat
  PROVE  TypeInv'
  <1>1. TypeOK'
    BY DEF TypeInv, TypeOK, Goto
  <1>2. pc'[r] = step /\ \A q \in Req \ {r} : pc'[q] = pc[q]
    BY DEF TypeInv, TypeOK, Goto
  <1>3. RequestInv'
    BY <1>2 DEF TypeInv, RequestInv, Kind, UserOf, InvitationOf, NoAttempt
  <1> QED
    BY <1>1, <1>3 DEF TypeInv

\* createInvitation.
LEMMA InviteType ==
  ASSUME TypeInv, NEW r \in Req, InviteFind(r) \/ Resend(r) \/ InviteInsert(r)
  PROVE  TypeInv'
  <1>1. tx \in [Req -> Attempt] /\ clean \in [Req -> SUBSET Doc] /\ aborts \in Nat
        /\ ownerUserId \in User /\ membership \in [User -> MembershipDoc]
        /\ invitation \in [Invitation -> InvitationDoc] /\ view \in [Req -> View]
        /\ input \in [Req -> Input]
    BY DEF TypeInv, TypeOK
  <1>2. CASE InviteFind(r)
    <2>1. input' \in [Req -> Input] /\ view' \in [Req -> View]
      <3>1. \A i \in Invitation : [input[r] EXCEPT !.invitation = i] \in Input
        BY <1>1 DEF Input
      <3>2. \A i \in Invitation : [status |-> "pending", roleKey |-> invitation[i].roleKey] \in View
        BY <1>1 DEF View, InvitationDoc, Open
      <3> QED
        BY <1>1, <1>2, <3>1, <3>2 DEF InviteFind, PendingFor
    <2>2. pc' \in [Req -> PC]
      BY <1>2 DEF InviteFind, TypeInv, TypeOK, Goto, PC
    <2>3. TypeOK'
      BY <1>2, <2>1, <2>2 DEF InviteFind, TypeInv, TypeOK, docs
    <2>4. pc[r] = "find" /\ \A q \in Req \ {r} : pc'[q] = pc[q] /\ input'[q] = input[q]
      BY <1>1, <1>2 DEF InviteFind, At, Goto, TypeInv, TypeOK
    <2>5. \/ pc'[r] = "resend" /\ \E i \in Invitation : input'[r] = [input[r] EXCEPT !.invitation = i]
          \/ pc'[r] = "insert" /\ input'[r] = input[r]
      BY <1>1, <1>2 DEF InviteFind, Goto, TypeInv, TypeOK, PendingFor
    <2>6. input'[r].kind = input[r].kind /\ input'[r].user = input[r].user
          /\ input'[r].patch = input[r].patch /\ pc'[r] \in {"resend", "insert"}
          /\ (pc'[r] = "resend" => input'[r].invitation \in Invitation)
      BY <1>1, <2>5 DEF Input
    <2>7. input[r].kind = "invite" /\ tx[r] = NoAttempt
      BY <2>4 DEF TypeInv, RequestInv, Kind
    <2>8. RequestInv'
      BY <1>2, <2>4, <2>6, <2>7 DEF InviteFind, docs, TypeInv, RequestInv, Kind, UserOf, InvitationOf, NoAttempt
    <2> QED
      BY <2>3, <2>8 DEF TypeInv
  <1>3. CASE Resend(r)
    <2>1. pc[r] = "resend" /\ InvitationOf(r) \in Invitation /\ input[r].patch.roleKey \in Role
      BY <1>3 DEF Resend, At, TypeInv, RequestInv
    <2>2. InvitationOf(r) \in Doc
      BY <2>1 DEF Doc
    <2>3. Resent(r) \in InvitationDoc /\ Resent(r).status = invitation[InvitationOf(r)].status
          /\ Resent(r).email = invitation[InvitationOf(r)].email
      BY <1>1, <2>1 DEF Resent, InvitationDoc
    <2>4. /\ invitation' \in [Invitation -> InvitationDoc]
          /\ \A i \in Invitation : /\ invitation'[i].status = invitation[i].status
                                   /\ invitation'[i].email = invitation[i].email
      BY <1>1, <1>3, <2>1, <2>3 DEF Resend
    <2>5. \A i \in Invitation : invitation'[i].status # "none" => invitation'[i].email \in User
      BY <2>4 DEF TypeInv, RequestInv
    <2>6. tx' = Published(r, {InvitationOf(r)}) /\ {InvitationOf(r)} \in SUBSET Doc
      BY <1>3, <2>2 DEF Resend
    <2>7. /\ tx' \in [Req -> Attempt] /\ tx'[r] = NoAttempt
          /\ \A q \in Req \ {r} : /\ pc[q] # "tx" => tx'[q] = NoAttempt
                                  /\ tx'[q].writes = tx[q].writes
      BY <2>6, PublishedType
    <2> QED
      BY <1>1, <1>3, <2>4, <2>5, <2>7, OwnStepType DEF Resend, PC, Over
  <1>4. CASE InviteInsert(r)
    <2>1. pc[r] = "insert" /\ UserOf(r) \in User /\ input[r].patch.roleKey \in Role
      BY <1>4 DEF InviteInsert, At, TypeInv, RequestInv
    <2>2. PICK i \in Invitation : invitation' = [invitation EXCEPT ![i] =
            [status |-> "pending", email |-> UserOf(r), roleKey |-> input[r].patch.roleKey]]
      BY <1>4 DEF InviteInsert
    <2>3. invitation' \in [Invitation -> InvitationDoc]
      BY <1>1, <2>1, <2>2 DEF InvitationDoc, Open
    <2>4. \A j \in Invitation : /\ invitation'[j].status # "none" => invitation'[j].email \in User
                                /\ invitation[j].status # "none" => invitation'[j].status # "none"
      BY <1>1, <2>1, <2>2 DEF TypeInv, RequestInv
    <2>5. tx' = tx /\ \A q \in Req : pc[q] # "tx" => tx[q] = NoAttempt
      BY <1>4 DEF InviteInsert, TypeInv, RequestInv
    <2>6. /\ Goto(r, "done") /\ UNCHANGED <<ownerUserId, membership, input, view, clean, aborts>>
          /\ tx'[r] = NoAttempt
      BY <1>4, <2>1, <2>5 DEF InviteInsert
    <2>7. /\ tx' \in [Req -> Attempt] /\ clean' \in [Req -> SUBSET Doc] /\ aborts' \in Nat
          /\ ownerUserId' \in User /\ membership' \in [User -> MembershipDoc]
          /\ UNCHANGED <<input, view>>
          /\ \A q \in Req \ {r} : (pc[q] # "tx" => tx'[q] = NoAttempt) /\ tx'[q].writes = tx[q].writes
      BY <1>1, <2>5, <2>6
    <2>8. "done" \in PC \ {"find", "resend", "insert", "expire", "tx"}
      BY DEF PC, Over
    <2> QED
      BY <2>3, <2>4, <2>6, <2>7, <2>8, OwnStepType
  <1> QED
    BY <1>2, <1>3, <1>4

LEMMA ExpireType ==
  ASSUME TypeInv, NEW r \in Req, Expire(r)
  PROVE  TypeInv'
  <1>1. tx \in [Req -> Attempt] /\ clean \in [Req -> SUBSET Doc] /\ aborts \in Nat
        /\ ownerUserId \in User /\ membership \in [User -> MembershipDoc]
        /\ invitation \in [Invitation -> InvitationDoc]
    BY DEF TypeInv, TypeOK
  <1>2. pc[r] = "expire" /\ InvitationOf(r) \in Invitation
        /\ invitation[InvitationOf(r)].status # "none"
    BY DEF Expire, At, TypeInv, RequestInv
  <1>3. /\ invitation' \in [Invitation -> InvitationDoc]
        /\ \A i \in Invitation : /\ invitation'[i].email = invitation[i].email
                                 /\ invitation'[i].status = "none" <=> invitation[i].status = "none"
    <2>1. [invitation[InvitationOf(r)] EXCEPT !.status = "expired"] \in InvitationDoc
      BY <1>1, <1>2 DEF InvitationDoc, Closed
    <2> QED
      BY <1>1, <1>2, <2>1 DEF Expire, InvitationDoc
  <1>4. /\ tx' \in [Req -> Attempt] /\ tx'[r] = NoAttempt
        /\ \A q \in Req \ {r} : /\ pc[q] # "tx" => tx'[q] = NoAttempt
                                /\ tx'[q].writes = tx[q].writes
    <2>1. {InvitationOf(r)} \in SUBSET Doc
      BY <1>2 DEF Doc
    <2>2. \A q \in Req : pc[q] # "tx" => tx[q] = NoAttempt
      BY DEF TypeInv, RequestInv
    <2>3. tx' = Published(r, {InvitationOf(r)}) \/ tx' = tx
      BY DEF Expire
    <2> QED
      BY <1>1, <1>2, <2>1, <2>2, <2>3, PublishedType
  <1>5. \A i \in Invitation : invitation'[i].status # "none" => invitation'[i].email \in User
    BY <1>3 DEF TypeInv, RequestInv
  <1> QED
    BY <1>1, <1>3, <1>4, <1>5, OwnStepType DEF Expire, PC, Over

\* The first step of a transaction.
LEMMA BeginType ==
  ASSUME TypeInv, NEW r \in Req, Begin(r)
  PROVE  TypeInv'
  <1>1. PICK written \in SUBSET Doc :
          /\ Attempts(r, written)
          /\ Tenant \in written => Kind(r) = "transfer"
          /\ \A i \in Invitation : i \in written =>
               Kind(r) \in {"accept", "revoke"} /\ i = InvitationOf(r)
    <2> USE TenancyAssumption DEF TypeInv, RequestInv, Doc
    <2>1. CASE AcceptBegin(r)
      BY <2>1 DEF AcceptBegin
    <2>2. CASE RevokeBegin(r)
      BY <2>2 DEF RevokeBegin
    <2>3. CASE TransferBegin(r)
      BY <2>3 DEF TransferBegin
    <2>4. CASE ChangeBegin(r)
      BY <2>4 DEF ChangeBegin
    <2> QED
      BY <2>1, <2>2, <2>3, <2>4 DEF Begin
  <1>2. view' \in [Req -> View] /\ UNCHANGED <<docs, input, clean, aborts>>
    <2>1. CASE AcceptBegin(r)
      <3>1. [view[r] EXCEPT !.roleKey = invitation[InvitationOf(r)].roleKey] \in View
        BY <2>1 DEF AcceptBegin, TypeInv, TypeOK, RequestInv, View, InvitationDoc
      <3> QED
        BY <2>1, <3>1 DEF AcceptBegin, TypeInv, TypeOK
    <2> QED
      BY <2>1 DEF Begin, RevokeBegin, TransferBegin, ChangeBegin, TypeInv, TypeOK
  <1>3. /\ tx' = [tx EXCEPT ![r] = [writes |-> written, missed |-> {}]]
        /\ pc' = [pc EXCEPT ![r] = "tx"]
    BY <1>1 DEF Attempts, Goto
  <1>4. TypeOK'
    BY <1>2, <1>3 DEF TypeInv, TypeOK, docs, Attempt, PC
  <1>5. pc'[r] = "tx" /\ tx'[r].writes = written
        /\ \A q \in Req \ {r} : pc'[q] = pc[q] /\ tx'[q] = tx[q]
    BY <1>3 DEF TypeInv, TypeOK
  <1>6. RequestInv'
    BY <1>1, <1>2, <1>5 DEF docs, TypeInv, RequestInv, Kind, UserOf, InvitationOf
  <1> QED
    BY <1>4, <1>6 DEF TypeInv

\* The last step of a transaction, or of a request.
LEMMA EndType ==
  ASSUME TypeInv, NEW r \in Req, Commit(r) \/ Retry(r) \/ Fail(r)
  PROVE  TypeInv'
  <1>1. tx \in [Req -> Attempt] /\ clean \in [Req -> SUBSET Doc] /\ aborts \in Nat
        /\ ownerUserId \in User /\ membership \in [User -> MembershipDoc]
        /\ invitation \in [Invitation -> InvitationDoc] /\ view \in [Req -> View]
        /\ input \in [Req -> Input] /\ pc \in [Req -> PC]
    BY DEF TypeInv, TypeOK
  <1>2. \A q \in Req : pc[q] # "tx" => tx[q] = NoAttempt
    BY DEF TypeInv, RequestInv
  <1>3. NoAttempt \in Attempt
    BY DEF NoAttempt, Attempt
  <1>4. \A i \in Invitation : invitation[i].status # "none" => invitation[i].email \in User
    BY DEF TypeInv, RequestInv
  <1>5. CASE Commit(r)
    <2> DEFINE W == tx[r].writes
    <2>1. W \in SUBSET Doc /\ (Tenant \in W => UserOf(r) \in User) /\ pc[r] = "tx"
      BY <1>1, <1>5 DEF Attempt, Commit, At, TypeInv, RequestInv
    <2>2. \A u \in User : SavedMembership(r, u) \in MembershipDoc
      <3>1. Kind(r) = "update" => input[r].patch \in Patch
        BY <1>1 DEF Input
      <3> QED
        BY <1>1, <3>1, TenancyAssumption DEF SavedMembership, MembershipDoc, Patched, Patch, View, NoMembership
    <2>3. \A i \in Invitation : invitation[i].status # "none" =>
            SavedStatus(r, i) \in Open \cup Closed /\ SavedStatus(r, i) # "none"
      BY <1>1 DEF SavedStatus, InvitationDoc, Closed
    <2>4. \A i \in Invitation : i \in W => invitation[i].status # "none"
      BY DEF TypeInv, RequestInv
    <2>5. membership' \in [User -> MembershipDoc] /\ ownerUserId' \in User
      BY <1>1, <1>5, <2>1, <2>2 DEF Commit
    <2>6. \A i \in Invitation :
            LET after == IF i \in W THEN [invitation[i] EXCEPT !.status = SavedStatus(r, i)]
                         ELSE invitation[i]
            IN /\ after \in InvitationDoc /\ after.email = invitation[i].email
               /\ invitation[i].status # "none" => after.status # "none"
      BY <1>1, <2>3, <2>4 DEF InvitationDoc
    <2>7. /\ invitation' \in [Invitation -> InvitationDoc]
          /\ \A i \in Invitation : /\ invitation'[i].status # "none" => invitation'[i].email \in User
                                   /\ invitation[i].status # "none" => invitation'[i].status # "none"
      BY <1>4, <1>5, <2>3, <2>4, <2>6 DEF Commit
    <2>8. /\ tx' \in [Req -> Attempt] /\ tx'[r] = NoAttempt
          /\ \A q \in Req \ {r} : /\ pc[q] # "tx" => tx'[q] = NoAttempt
                                  /\ tx'[q].writes = tx[q].writes
      BY <1>5, <2>1, PublishedType DEF Commit
    <2>9. Goto(r, "done") /\ UNCHANGED <<input, view, clean, aborts>>
      BY <1>5 DEF Commit
    <2> QED
      BY <1>1, <2>5, <2>7, <2>8, <2>9, OwnStepType DEF PC, Over
  <1>6. CASE Retry(r)
    <2>1. clean' \in [Req -> SUBSET Doc]
      BY <1>1, <1>6 DEF Retry, Attempt, Conflicts
    <2>2. tx' = [tx EXCEPT ![r] = NoAttempt] /\ aborts' \in Nat
      BY <1>1, <1>6 DEF Retry
    <2> QED
      BY <1>1, <1>2, <1>3, <1>4, <1>6, <2>1, <2>2, OwnStepType DEF Retry, docs, PC, Over
  <1>7. CASE Fail(r)
    BY <1>1, <1>2, <1>3, <1>4, <1>7, OwnStepType DEF Fail, docs, PC, Over
  <1> QED
    BY <1>5, <1>6, <1>7

LEMMA TypeStep == TypeInv /\ [Next]_vars => TypeInv'
  <1> SUFFICES ASSUME TypeInv, [Next]_vars PROVE TypeInv'
    OBVIOUS
  <1>1. ASSUME NEW r \in Req, Arrive(r) PROVE TypeInv'
    BY <1>1, ArriveType
  <1>2. ASSUME NEW r \in Req, InviteFind(r) \/ Resend(r) \/ InviteInsert(r) PROVE TypeInv'
    BY <1>2, InviteType
  <1>3. ASSUME NEW r \in Req, Expire(r) PROVE TypeInv'
    BY <1>3, ExpireType
  <1>4. ASSUME NEW r \in Req, Begin(r) PROVE TypeInv'
    BY <1>4, BeginType
  <1>5. ASSUME NEW r \in Req, Commit(r) \/ Retry(r) \/ Fail(r) PROVE TypeInv'
    BY <1>5, EndType
  <1>6. CASE UNCHANGED vars
    BY <1>6 DEF vars, docs, TypeInv, TypeOK, RequestInv, Kind, UserOf, InvitationOf
  <1> QED
    BY <1>1, <1>2, <1>3, <1>4, <1>5, <1>6 DEF Next

\* Every reachable state is well typed: a request commits only what its kind of
\* request writes, to documents that exist.
THEOREM TenancyTypeCorrect == Spec => []TypeOK
  <1>1. Spec => []TypeInv
    BY InitTypes, TypeStep, PTL DEF Spec
  <1> QED
    BY <1>1, PTL DEF TypeInv

-----------------------------------------------------------------------------
(* Invitations.                                                             *)

\* How a step changes the status and the address of an invitation.
LEMMA InvitationStep ==
  ASSUME TypeInv, [Next]_vars, NEW i \in Invitation
  PROVE  \/ invitation'[i].status = invitation[i].status /\ invitation'[i].email = invitation[i].email
         \/ invitation[i].status = "none" /\ PendingFor(invitation'[i].email) = {}
            /\ \A j \in Invitation \ {i} : invitation'[j] = invitation[j]
         \/ invitation'[i].status \in Closed
  <1> DEFINE Kept == invitation'[i].status = invitation[i].status
                     /\ invitation'[i].email = invitation[i].email
  <1>1. invitation \in [Invitation -> InvitationDoc]
    BY DEF TypeInv, TypeOK
  <1>2. ASSUME NEW r \in Req, Resend(r) PROVE Kept
    <2>1. Resent(r).status = invitation[InvitationOf(r)].status
          /\ Resent(r).email = invitation[InvitationOf(r)].email
      BY <1>1, <1>2 DEF Resend, Resent, At, TypeInv, RequestInv, InvitationDoc
    <2> QED
      BY <1>1, <1>2, <2>1 DEF Resend, InvitationDoc
  <1>3. ASSUME NEW r \in Req, InviteInsert(r)
        PROVE  \/ Kept
               \/ invitation[i].status = "none" /\ PendingFor(invitation'[i].email) = {}
                  /\ \A j \in Invitation \ {i} : invitation'[j] = invitation[j]
    BY <1>1, <1>3 DEF InviteInsert
  <1>4. ASSUME NEW r \in Req, Expire(r) PROVE Kept \/ invitation'[i].status \in Closed
    BY <1>1, <1>4 DEF Expire, Closed, InvitationDoc
  <1>5. ASSUME NEW r \in Req, Commit(r) PROVE Kept \/ invitation'[i].status \in Closed
    <2>1. invitation'[i] = IF i \in tx[r].writes
                           THEN [invitation[i] EXCEPT !.status = SavedStatus(r, i)]
                           ELSE invitation[i]
      BY <1>5 DEF Commit
    <2>2. SavedStatus(r, i) = invitation[i].status \/ SavedStatus(r, i) \in Closed
      BY DEF SavedStatus, Closed
    <2> QED
      BY <1>1, <2>1, <2>2 DEF InvitationDoc
  <1>6. ASSUME NEW r \in Req, Arrive(r) PROVE Kept
    BY <1>6 DEF Arrive, Invite, Accept, Revoke, Transfer, Change, docs
  <1>7. ASSUME NEW r \in Req, InviteFind(r) \/ Begin(r) \/ Retry(r) \/ Fail(r) PROVE Kept
    BY <1>7 DEF InviteFind, Begin, AcceptBegin, RevokeBegin, TransferBegin, ChangeBegin,
                Retry, Fail, docs
  <1>8. CASE UNCHANGED vars
    BY <1>8 DEF vars, docs
  <1> QED
    BY <1>2, <1>3, <1>4, <1>5, <1>6, <1>7, <1>8 DEF Next

\* No step of any request, with whatever copy it holds, makes a closed invitation
\* pending again (revokeInvitation and resends save loaded documents).
THEOREM ClosedIsFinal == Spec => ClosedStaysClosed
  <1>1. TypeInv /\ [Next]_vars =>
          [\A i \in Invitation :
             invitation[i].status \in Closed => invitation'[i].status \in Closed]_vars
    BY InvitationStep DEF Closed
  <1> QED
    BY <1>1, InitTypes, TypeStep, PTL DEF Spec, ClosedStaysClosed

\* However many createInvitation race, an address has one pending invitation.
THEOREM OneInvitationPerAddress == Spec => []OnePendingPerEmail
  <1>1. Init => OnePendingPerEmail
    BY DEF Init, OnePendingPerEmail
  <1>2. TypeInv /\ OnePendingPerEmail /\ [Next]_vars => OnePendingPerEmail'
    <2> SUFFICES ASSUME TypeInv, OnePendingPerEmail, [Next]_vars,
                        NEW i \in Invitation, NEW j \in Invitation,
                        invitation'[i].status = "pending", invitation'[j].status = "pending",
                        invitation'[i].email = invitation'[j].email
                 PROVE  i = j
      BY DEF OnePendingPerEmail
    <2>1. "pending" \notin Closed
      BY DEF Closed
    <2>2. \/ invitation'[i].status = invitation[i].status /\ invitation'[i].email = invitation[i].email
          \/ PendingFor(invitation'[i].email) = {}
             /\ \A k \in Invitation \ {i} : invitation'[k] = invitation[k]
      BY <2>1, InvitationStep
    <2>3. \/ invitation'[j].status = invitation[j].status /\ invitation'[j].email = invitation[j].email
          \/ PendingFor(invitation'[j].email) = {}
             /\ \A k \in Invitation \ {j} : invitation'[k] = invitation[k]
      BY <2>1, InvitationStep
    <2> QED
      BY <2>2, <2>3 DEF OnePendingPerEmail, PendingFor
  <1> QED
    BY <1>1, <1>2, InitTypes, TypeStep, PTL DEF Spec

-----------------------------------------------------------------------------
(* Transactions that check what they write.                                 *)

\* What an attempt has checked in its snapshot holds until somebody commits it.
AttemptInv ==
  \A r \in Req : pc[r] = "tx" =>
    /\ Kind(r) = "accept" =>
         /\ tx[r].writes = {UserOf(r), InvitationOf(r)}
         /\ InvitationOf(r) \notin tx[r].missed =>
              /\ invitation[InvitationOf(r)].status = "pending"
              /\ view[r].roleKey = invitation[InvitationOf(r)].roleKey
    /\ Kind(r) \in {"update", "delete"} =>
         UserOf(r) # ownerUserId \/ Tenant \in tx[r].missed

\* One step of a request.
Step(r) ==
  \/ Arrive(r)
  \/ InviteFind(r) \/ Resend(r) \/ InviteInsert(r) \/ Expire(r)
  \/ Begin(r) \/ Commit(r) \/ Retry(r) \/ Fail(r)

\* An open attempt of q keeps its snapshot, and misses what others write: a changed
\* owner, a changed invitation.
LEMMA OpenAttempt ==
  ASSUME TypeInv, NEW r \in Req, Step(r), NEW q \in Req \ {r}, pc[q] = "tx"
  PROVE  /\ pc'[q] = "tx" /\ input'[q] = input[q] /\ view'[q] = view[q]
         /\ tx'[q].writes = tx[q].writes /\ tx[q].missed \subseteq tx'[q].missed
         /\ ownerUserId' = ownerUserId \/ Tenant \in tx'[q].missed
         /\ \A i \in Invitation : \/ invitation[i].status = "none"
                                  \/ invitation'[i] = invitation[i]
                                  \/ i \in tx'[q].missed
  <1> DEFINE Same == pc'[q] = "tx" /\ input'[q] = input[q] /\ view'[q] = view[q]
             Known == tx'[q].writes = tx[q].writes /\ tx[q].missed \subseteq tx'[q].missed
             OwnerSeen == ownerUserId' = ownerUserId \/ Tenant \in tx'[q].missed
             InvitationSeen == \A i \in Invitation : \/ invitation[i].status = "none"
                                                     \/ invitation'[i] = invitation[i]
                                                     \/ i \in tx'[q].missed
  <1>1. pc \in [Req -> PC] /\ input \in [Req -> Input] /\ view \in [Req -> View]
        /\ tx \in [Req -> Attempt] /\ invitation \in [Invitation -> InvitationDoc]
    BY DEF TypeInv, TypeOK
  <1>2. CASE Arrive(r)
    <2>1. \E request, step : Start(r, request, step)
      BY <1>2 DEF Arrive, Invite, Accept, Revoke, Transfer, Change
    <2>2. pc'[q] = pc[q] /\ input'[q] = input[q]
      BY <1>1, <2>1 DEF Start, Goto
    <2>3. view'[q] = view[q]
      BY <1>1, <1>2 DEF Arrive, Invite, Accept, Revoke, Transfer, Change
    <2>4. UNCHANGED <<docs, tx>>
      BY <1>2 DEF Arrive, Invite, Accept, Revoke, Transfer, Change
    <2> QED
      BY <2>2, <2>3, <2>4 DEF docs
  <1>3. CASE InviteFind(r)
    BY <1>1, <1>3 DEF InviteFind, Goto, docs
  <1>4. CASE Resend(r)
    <2>1. InvitationOf(r) \in Invitation
      BY <1>4 DEF Resend, At, TypeInv, RequestInv
    <2>2. tx' = Published(r, {InvitationOf(r)}) /\ {InvitationOf(r)} \in SUBSET Doc
      BY <1>4, <2>1 DEF Resend, Doc
    <2>3. tx'[q].writes = tx[q].writes /\ tx'[q].missed = tx[q].missed \cup {InvitationOf(r)}
      BY <2>2, PublishedType
    <2> QED
      BY <1>1, <1>4, <2>3 DEF Resend, Goto
  <1>5. CASE InviteInsert(r)
    BY <1>1, <1>5 DEF InviteInsert, Goto
  <1>6. CASE Expire(r)
    <2>1. InvitationOf(r) \in Invitation
      BY <1>6 DEF Expire, At, TypeInv, RequestInv
    <2>2. {InvitationOf(r)} \in SUBSET Doc
      BY <2>1 DEF Doc
    <2>3. \/ tx'[q] = tx[q] /\ invitation' = invitation
          \/ /\ tx'[q].writes = tx[q].writes /\ tx'[q].missed = tx[q].missed \cup {InvitationOf(r)}
             /\ \A i \in Invitation \ {InvitationOf(r)} : invitation'[i] = invitation[i]
      <3>1. CASE view[r].status = "pending"
        BY <1>1, <1>6, <2>2, <3>1, PublishedType DEF Expire
      <3>2. CASE view[r].status # "pending"
        BY <1>6, <3>2 DEF Expire
      <3> QED
        BY <3>1, <3>2
    <2> QED
      BY <1>1, <1>6, <2>3 DEF Expire, Goto
  <1>7. CASE Begin(r)
    <2>1. \E written : Attempts(r, written)
      BY <1>7 DEF Begin, AcceptBegin, RevokeBegin, TransferBegin, ChangeBegin
    <2>2. pc'[q] = pc[q] /\ tx'[q] = tx[q]
      BY <1>1, <2>1 DEF Attempts, Goto
    <2>3. view'[q] = view[q] /\ UNCHANGED <<docs, input>>
      BY <1>1, <1>7 DEF Begin, AcceptBegin, RevokeBegin, TransferBegin, ChangeBegin
    <2> QED
      BY <2>2, <2>3 DEF docs
  <1>8. CASE Commit(r)
    <2>1. tx[r].writes \in SUBSET Doc
      BY <1>1 DEF Attempt
    <2>2. tx'[q].writes = tx[q].writes /\ tx'[q].missed = tx[q].missed \cup tx[r].writes
      BY <1>8, <2>1, PublishedType DEF Commit
    <2>3. ownerUserId' = ownerUserId \/ Tenant \in tx[r].writes
      BY <1>8 DEF Commit
    <2>4. \A i \in Invitation : invitation'[i] = invitation[i] \/ i \in tx[r].writes
      BY <1>8 DEF Commit
    <2>5. Same
      BY <1>1, <1>8 DEF Commit, Goto
    <2> QED
      BY <2>2, <2>3, <2>4, <2>5
  <1>9. CASE Retry(r) \/ Fail(r)
    BY <1>1, <1>9 DEF Retry, Fail, Goto, docs
  <1> QED
    BY <1>2, <1>3, <1>4, <1>5, <1>6, <1>7, <1>8, <1>9 DEF Step

\* What an attempt of r has checked when it begins.
LEMMA NewAttempt ==
  ASSUME TypeInv, NEW r \in Req, Step(r), pc'[r] = "tx"
  PROVE  /\ input'[r] = input[r] /\ UNCHANGED <<ownerUserId, invitation>>
         /\ Kind(r) = "accept" =>
              /\ tx'[r].writes = {UserOf(r), InvitationOf(r)}
              /\ invitation[InvitationOf(r)].status = "pending"
              /\ view'[r].roleKey = invitation[InvitationOf(r)].roleKey
         /\ Kind(r) \in {"update", "delete"} => UserOf(r) # ownerUserId
  <1>1. pc \in [Req -> PC] /\ tx \in [Req -> Attempt] /\ view \in [Req -> View]
    BY DEF TypeInv, TypeOK
  <1>2. Begin(r)
    <2>1. ASSUME Arrive(r) PROVE pc'[r] # "tx"
      BY <1>1, <2>1 DEF Arrive, Invite, Accept, Revoke, Transfer, Change, Start, Goto
    <2>2. ASSUME InviteFind(r) \/ Resend(r) \/ InviteInsert(r) \/ Expire(r) PROVE pc'[r] # "tx"
      BY <1>1, <2>2 DEF InviteFind, Resend, InviteInsert, Expire, Goto
    <2>3. ASSUME Commit(r) \/ Retry(r) \/ Fail(r) PROVE pc'[r] # "tx"
      BY <1>1, <2>3 DEF Commit, Retry, Fail, Goto
    <2> QED
      BY <2>1, <2>2, <2>3 DEF Step
  <1>3. CASE AcceptBegin(r)
    <2>1. view'[r].roleKey = invitation[InvitationOf(r)].roleKey
      BY <1>1, <1>3 DEF AcceptBegin, View
    <2> QED
      BY <1>1, <1>3, <2>1 DEF AcceptBegin, Attempts, docs
  <1>4. CASE RevokeBegin(r) \/ TransferBegin(r)
    BY <1>4 DEF RevokeBegin, TransferBegin, docs
  <1>5. CASE ChangeBegin(r)
    BY <1>5 DEF ChangeBegin, docs
  <1> QED
    BY <1>2, <1>3, <1>4, <1>5 DEF Begin

LEMMA AttemptStep == TypeInv /\ AttemptInv /\ [Next]_vars => AttemptInv'
  <1> SUFFICES ASSUME TypeInv, AttemptInv, [Next]_vars, NEW q \in Req, pc'[q] = "tx"
               PROVE  /\ Kind(q)' = "accept" =>
                           /\ tx'[q].writes = {UserOf(q)', InvitationOf(q)'}
                           /\ InvitationOf(q)' \notin tx'[q].missed =>
                                /\ invitation'[InvitationOf(q)'].status = "pending"
                                /\ view'[q].roleKey = invitation'[InvitationOf(q)'].roleKey
                      /\ Kind(q)' \in {"update", "delete"} =>
                           UserOf(q)' # ownerUserId' \/ Tenant \in tx'[q].missed
    BY DEF AttemptInv
  <1>1. CASE UNCHANGED vars
    BY <1>1 DEF vars, docs, AttemptInv, Kind, UserOf, InvitationOf
  <1>2. CASE Step(q)
    BY <1>2, NewAttempt DEF Kind, UserOf, InvitationOf
  <1>3. ASSUME NEW r \in Req, Step(r), r # q PROVE pc[q] = "tx"
    <2>1. pc' = [pc EXCEPT ![r] = pc'[r]]
      <3>1. \E step : Goto(r, step)
        BY <1>3 DEF Step, Arrive, Invite, Accept, Revoke, Transfer, Change, Start, InviteFind,
           Resend, InviteInsert, Expire, Begin, AcceptBegin, RevokeBegin, TransferBegin,
           ChangeBegin, Attempts, Commit, Retry, Fail
      <3> QED
        BY <3>1 DEF Goto, TypeInv, TypeOK
    <2> QED
      BY <1>3, <2>1 DEF TypeInv, TypeOK
  <1>4. ASSUME NEW r \in Req, Step(r), r # q
        PROVE  /\ pc[q] = "tx" /\ input'[q] = input[q] /\ view'[q] = view[q]
               /\ tx'[q].writes = tx[q].writes /\ tx[q].missed \subseteq tx'[q].missed
               /\ ownerUserId' = ownerUserId \/ Tenant \in tx'[q].missed
               /\ \A i \in Invitation : \/ invitation[i].status = "none"
                                        \/ invitation'[i] = invitation[i]
                                        \/ i \in tx'[q].missed
    BY <1>3, <1>4, OpenAttempt
  <1>5. Kind(q) = "accept" =>
          InvitationOf(q) \in Invitation /\ invitation[InvitationOf(q)].status # "none"
    BY DEF TypeInv, RequestInv
  <1>6. ASSUME NEW r \in Req, Step(r), r # q
        PROVE  /\ Kind(q)' = "accept" =>
                    /\ tx'[q].writes = {UserOf(q)', InvitationOf(q)'}
                    /\ InvitationOf(q)' \notin tx'[q].missed =>
                         /\ invitation'[InvitationOf(q)'].status = "pending"
                         /\ view'[q].roleKey = invitation'[InvitationOf(q)'].roleKey
               /\ Kind(q)' \in {"update", "delete"} =>
                    UserOf(q)' # ownerUserId' \/ Tenant \in tx'[q].missed
    BY <1>4, <1>5, <1>6 DEF AttemptInv, Kind, UserOf, InvitationOf
  <1> QED
    BY <1>1, <1>2, <1>6 DEF Next, Step

LEMMA AttemptsChecked == Spec => [](TypeInv /\ AttemptInv)
  <1>1. Init => AttemptInv
    BY DEF Init, AttemptInv
  <1> QED
    BY <1>1, InitTypes, TypeStep, AttemptStep, PTL DEF Spec

\* Whoever accepts an invitation finds it pending when the acceptance commits, for
\* the check is repeated in the transaction that writes the invitation.
THEOREM AcceptanceIsOfPending == Spec => AcceptsPending
  <1>1. ASSUME TypeInv, AttemptInv, [Next]_vars, NEW q \in Req,
               Kind(q) = "accept", At(q, "tx"), pc'[q] = "done"
        PROVE  LET i == InvitationOf(q)
               IN /\ invitation[i].status = "pending" /\ invitation'[i].status = "accepted"
                  /\ membership'[UserOf(q)] =
                       [status |-> "active", roleKey |-> invitation[i].roleKey]
    <2> DEFINE i == InvitationOf(q)
    <2>1. pc \in [Req -> PC] /\ invitation \in [Invitation -> InvitationDoc]
      BY <1>1 DEF TypeInv, TypeOK
    <2>2. Step(q)
      <3>1. ASSUME NEW r \in Req, Step(r), r # q PROVE pc'[q] = "tx"
        BY <1>1, <3>1, OpenAttempt DEF At
      <3>2. pc' # pc
        BY <1>1 DEF At
      <3> QED
        BY <1>1, <3>1, <3>2 DEF Next, Step, vars
    <2>3. Commit(q)
      <3>1. pc[q] = "tx" /\ pc'[q] = "done"
        BY <1>1 DEF At
      <3>2. ~ Arrive(q)
        BY <3>1 DEF Arrive, Invite, Accept, Revoke, Transfer, Change, Start, At
      <3>3. ~ (InviteFind(q) \/ Resend(q) \/ InviteInsert(q) \/ Expire(q) \/ Begin(q))
        BY <3>1 DEF InviteFind, Resend, InviteInsert, Expire, Begin, AcceptBegin, RevokeBegin,
                    TransferBegin, ChangeBegin, At
      <3>4. ~ (Retry(q) \/ Fail(q))
        BY <2>1, <3>1 DEF Retry, Fail, Goto
      <3> QED
        BY <2>2, <3>2, <3>3, <3>4 DEF Step
    <2>4. /\ tx[q].writes = {UserOf(q), i} /\ i \notin tx[q].missed
          /\ invitation[i].status = "pending" /\ view[q].roleKey = invitation[i].roleKey
      BY <1>1, <2>3 DEF AttemptInv, At, Commit
    <2>5. UserOf(q) \in User /\ i \in Invitation
      BY <1>1 DEF TypeInv, RequestInv
    <2>6. membership'[UserOf(q)] = SavedMembership(q, UserOf(q))
          /\ invitation'[i] = [invitation[i] EXCEPT !.status = SavedStatus(q, i)]
      BY <2>3, <2>4, <2>5 DEF Commit
    <2>7. SavedMembership(q, UserOf(q)) = [status |-> "active", roleKey |-> view[q].roleKey]
          /\ SavedStatus(q, i) = "accepted"
      BY <1>1 DEF SavedMembership, SavedStatus
    <2> QED
      BY <2>1, <2>4, <2>5, <2>6, <2>7 DEF InvitationDoc
  <1>2. TypeInv /\ AttemptInv /\ [Next]_vars =>
          [\A r \in Req : Kind(r) = "accept" /\ At(r, "tx") /\ pc'[r] = "done" =>
             LET i == InvitationOf(r)
             IN /\ invitation[i].status = "pending" /\ invitation'[i].status = "accepted"
                /\ membership'[UserOf(r)] =
                     [status |-> "active", roleKey |-> invitation[i].roleKey]]_vars
    BY <1>1
  <1> QED
    BY <1>2, AttemptsChecked, PTL DEF Spec, AcceptsPending

\* updateMembership and deleteMembership commit a change of the owner's membership
\* only if the owner changed after their snapshot.
THEOREM OwnerIsProtected == Spec => OwnerProtected
  <1>1. TypeInv /\ AttemptInv /\ [Next]_vars =>
          [\A r \in Req : Kind(r) \in {"update", "delete"} /\ At(r, "tx") /\ pc'[r] = "done" =>
             UserOf(r) # ownerUserId \/ Tenant \in tx[r].missed]_vars
    BY DEF AttemptInv, At
  <1> QED
    BY <1>1, AttemptsChecked, PTL DEF Spec, OwnerProtected
=============================================================================
