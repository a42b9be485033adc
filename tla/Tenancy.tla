------------------------------ MODULE Tenancy ------------------------------
(***************************************************************************)
(* Who belongs to one tenant: its owner, its memberships and invitations  *)
(* (TenantService, TenantMembershipsService).                              *)
(*                                                                         *)
(* Every change runs in a transaction with snapshot isolation.  Accepting *)
(* an invitation and changing a membership load their documents inside    *)
(* it; revoking an invitation and transferring the ownership save         *)
(* documents they loaded, and checked, before it.                          *)
(*                                                                         *)
(* A transaction is a step that takes its snapshot, decides and writes,   *)
(* and a step that commits; the commit fails if a document it writes has  *)
(* been committed since.  Time is not modelled: an invitation may be found *)
(* expired whenever it is looked at.  Plans do not change.                *)
(***************************************************************************)
EXTENDS Naturals, FiniteSets

CONSTANTS
  User,            \* users; an e-mail address is named by its user
  Founder,         \* the user who creates the tenant
  InitialMembers,  \* the members it has when the behaviour starts
  Invitation,      \* ids of invitations documents
  Req,             \* requests
  Kinds,           \* what requests may ask for
  Role,            \* role keys: "owner" is tenant:owner, "member" tenant:member
  MemberLimit,     \* the effective member limit of the tenant and its plan
  Tenant,          \* the id of the tenant document
  NoUser, NoInvitation,
  MaxAborts        \* bound: transient aborts other than write conflicts

AllKinds == {"invite", "accept", "revoke", "transfer", "update", "delete"}

ASSUME TenancyAssumption ==
  /\ Kinds \subseteq AllKinds
  /\ Founder \in User /\ Founder \notin InitialMembers /\ InitialMembers \subseteq User
  /\ Invitation \subseteq Nat
  /\ {"owner", "member"} \subseteq Role /\ "same" \notin Role
  /\ Tenant \notin User /\ Tenant \notin Invitation /\ User \cap Invitation = {}
  /\ NoUser \notin User /\ NoInvitation \notin Invitation
  /\ MemberLimit \in Nat /\ MaxAborts \in Nat

VARIABLES
  ownerUserId,  \* of the tenant document
  membership,   \* the memberships collection, per user
  invitation,   \* the invitations collection
  pc,           \* where each request is
  input,        \* what each request asks for
  view,         \* what it has loaded before it decides
  clean,        \* the documents whose save succeeded in some attempt
  tx,           \* the running attempt of its transaction
  aborts

docs == <<ownerUserId, membership, invitation>>
vars == <<ownerUserId, membership, invitation, pc, input, view, clean, tx, aborts>>

MembershipDoc == [status : {"none", "active", "suspended"}, roleKey : Role]
Open == {"none", "pending"}
Closed == {"accepted", "revoked", "expired"}
InvitationDoc == [status : Open \cup Closed, email : User \cup {NoUser}, roleKey : Role]
Doc == {Tenant} \cup User \cup Invitation

\* What a request sets in a membership or invitation; "same" leaves it alone.
Patch == [status : {"same", "active", "suspended"}, roleKey : Role \cup {"same"}]

\* actor is the owner who transfers, user the one it is about.
Input == [kind : AllKinds \cup {"none"}, actor : User \cup {NoUser},
          user : User \cup {NoUser}, invitation : Invitation \cup {NoInvitation},
          patch : Patch]
View == [status : Open \cup Closed, roleKey : Role]

\* missed: the documents committed by others since the attempt's snapshot.
Attempt == [writes : SUBSET Doc, missed : SUBSET Doc]

NoMembership == [status |-> "none", roleKey |-> "member"]
NoPatch == [status |-> "same", roleKey |-> "same"]
NoInput == [kind |-> "none", actor |-> NoUser, user |-> NoUser,
            invitation |-> NoInvitation, patch |-> NoPatch]
NoView == [status |-> "none", roleKey |-> "member"]
NoAttempt == [writes |-> {}, missed |-> {}]

Over == {"done", "failed"}
PC == Over \cup {"idle", "find", "resend", "insert", "expire", "begin", "tx"}

TypeOK ==
  /\ ownerUserId \in User
  /\ membership \in [User -> MembershipDoc]
  /\ invitation \in [Invitation -> InvitationDoc]
  /\ pc \in [Req -> PC]
  /\ input \in [Req -> Input]
  /\ view \in [Req -> View]
  /\ clean \in [Req -> SUBSET Doc]
  /\ tx \in [Req -> Attempt]
  /\ aborts \in Nat

\* createTenant: the tenant and the founder's membership, in one transaction.
Init ==
  /\ ownerUserId = Founder
  /\ membership = [u \in User |->
       IF u = Founder THEN [status |-> "active", roleKey |-> "owner"]
       ELSE IF u \in InitialMembers THEN [status |-> "active", roleKey |-> "member"]
       ELSE NoMembership]
  /\ invitation = [i \in Invitation |->
       [status |-> "none", email |-> NoUser, roleKey |-> "member"]]
  /\ pc = [r \in Req |-> "idle"]
  /\ input = [r \in Req |-> NoInput]
  /\ view = [r \in Req |-> NoView]
  /\ clean = [r \in Req |-> {}]
  /\ tx = [r \in Req |-> NoAttempt]
  /\ aborts = 0

At(r, step) == pc[r] = step
Goto(r, step) == pc' = [pc EXCEPT ![r] = step]
Kind(r) == input[r].kind
UserOf(r) == input[r].user
InvitationOf(r) == input[r].invitation
Active(u) == membership[u].status = "active"
Exists(u) == membership[u].status # "none"

Start(r, request, step) ==
  /\ At(r, "idle")
  /\ request.kind \in Kinds
  /\ input' = [input EXCEPT ![r] = request]
  /\ Goto(r, step)

\* Others' open attempts have a snapshot without this write.
Published(r, written) ==
  [q \in Req |-> IF q = r THEN NoAttempt
                 ELSE IF At(q, "tx") THEN [tx[q] EXCEPT !.missed = @ \cup written]
                 ELSE tx[q]]

Attempts(r, written) ==
  /\ tx' = [tx EXCEPT ![r] = [writes |-> written, missed |-> {}]]
  /\ Goto(r, "tx")

-----------------------------------------------------------------------------
(* createInvitation.                                                        *)

OwnerIsIn == Active(ownerUserId)

Invite(r, u, role) ==
  /\ OwnerIsIn
  /\ Start(r, [NoInput EXCEPT !.kind = "invite", !.user = u, !.patch.roleKey = role], "find")
  /\ UNCHANGED <<docs, view, clean, tx, aborts>>

PendingFor(u) == {i \in Invitation : invitation[i].status = "pending" /\ invitation[i].email = u}

InviteFind(r) ==
  /\ At(r, "find")
  /\ \/ \E i \in PendingFor(UserOf(r)) :
          /\ input' = [input EXCEPT ![r].invitation = i]
          /\ view' = [view EXCEPT ![r] =
               [status |-> "pending", roleKey |-> invitation[i].roleKey]]
          /\ Goto(r, "resend")
     \/ PendingFor(UserOf(r)) = {} /\ Goto(r, "insert") /\ UNCHANGED <<input, view>>
  /\ UNCHANGED <<docs, clean, tx, aborts>>

\* A new token and expiry, and the role if it is not the one loaded.
Resent(r) ==
  [invitation[InvitationOf(r)] EXCEPT !.roleKey =
     IF input[r].patch.roleKey = view[r].roleKey THEN @ ELSE input[r].patch.roleKey]

Resend(r) ==
  /\ At(r, "resend")
  /\ invitation' = [invitation EXCEPT ![InvitationOf(r)] = Resent(r)]
  /\ tx' = Published(r, {InvitationOf(r)})
  /\ Goto(r, "done")
  /\ UNCHANGED <<ownerUserId, membership, input, view, clean, aborts>>

\* The unique index refuses a second pending invitation (see Fail).
InviteInsert(r) ==
  /\ At(r, "insert")
  /\ PendingFor(UserOf(r)) = {}
  /\ \E i \in Invitation :
       /\ invitation[i].status = "none"
       /\ \A j \in Invitation : j < i => invitation[j].status # "none"
       /\ invitation' = [invitation EXCEPT ![i] =
            [status |-> "pending", email |-> UserOf(r), roleKey |-> input[r].patch.roleKey]]
  /\ Goto(r, "done")
  /\ UNCHANGED <<ownerUserId, membership, input, view, clean, tx, aborts>>

-----------------------------------------------------------------------------
(* acceptInvitation.                                                        *)

\* The invited user presents the token.  A closed invitation is refused; one that
\* has expired is marked, outside any transaction.
Accept(r, i, step) ==
  /\ Start(r, [NoInput EXCEPT !.kind = "accept", !.user = invitation[i].email,
                              !.invitation = i], step)
  /\ \/ invitation[i].status = "pending" /\ step \in {"begin", "expire"}
     \/ invitation[i].status = "expired" /\ step = "expire"
     \/ invitation[i].status \in {"accepted", "revoked"} /\ step = "failed"
  /\ view' = [view EXCEPT ![r].status = invitation[i].status]
  /\ UNCHANGED <<docs, clean, tx, aborts>>

Expire(r) ==
  /\ At(r, "expire")
  /\ invitation' = IF view[r].status = "pending"
                   THEN [invitation EXCEPT ![InvitationOf(r)].status = "expired"]
                   ELSE invitation
  /\ tx' = IF view[r].status = "pending" THEN Published(r, {InvitationOf(r)}) ELSE tx
  /\ Goto(r, "failed")
  /\ UNCHANGED <<ownerUserId, membership, input, view, clean, aborts>>

ActiveMembers == {u \in User : Active(u)}

\* Mutated form of AcceptBegin: the invitation is not checked again.
AcceptBeginTrusting(r) ==
  /\ At(r, "begin")
  /\ Kind(r) = "accept"
  /\ Active(UserOf(r)) \/ Cardinality(ActiveMembers) < MemberLimit
  /\ view' = [view EXCEPT ![r].roleKey = invitation[InvitationOf(r)].roleKey]
  /\ Attempts(r, {UserOf(r), InvitationOf(r)})
  /\ UNCHANGED <<docs, input, clean, aborts>>

\* In the transaction: the invitation again, the membership, the limit unless the
\* user is an active member already.  Otherwise the request fails (see Fail).
AcceptBegin(r) ==
  /\ At(r, "begin")
  /\ Kind(r) = "accept"
  /\ invitation[InvitationOf(r)].status = "pending"
  /\ Active(UserOf(r)) \/ Cardinality(ActiveMembers) < MemberLimit
  /\ view' = [view EXCEPT ![r].roleKey = invitation[InvitationOf(r)].roleKey]
  /\ Attempts(r, {UserOf(r), InvitationOf(r)})
  /\ UNCHANGED <<docs, input, clean, aborts>>

-----------------------------------------------------------------------------
(* revokeInvitation and transferOwnership: documents loaded beforehand.     *)

Revoke(r, i) ==
  /\ OwnerIsIn
  /\ invitation[i].status \in {"pending", "revoked", "expired"}
  /\ Start(r, [NoInput EXCEPT !.kind = "revoke", !.invitation = i], "begin")
  /\ view' = [view EXCEPT ![r].status = invitation[i].status]
  /\ UNCHANGED <<docs, clean, tx, aborts>>

\* revokedAt is written whatever the status was.
RevokeBegin(r) ==
  /\ At(r, "begin")
  /\ Kind(r) = "revoke"
  /\ Attempts(r, {InvitationOf(r)})
  /\ UNCHANGED <<docs, input, view, clean, aborts>>

\* The owner names another active member.
Transfer(r, u) ==
  /\ OwnerIsIn
  /\ Active(u) /\ u # ownerUserId
  /\ Start(r, [NoInput EXCEPT !.kind = "transfer", !.actor = ownerUserId, !.user = u], "begin")
  /\ view' = [view EXCEPT ![r].roleKey = membership[ownerUserId].roleKey]
  /\ UNCHANGED <<docs, clean, tx, aborts>>

\* Three saves: of the tenant, of the membership that was the owner's when its role
\* is normalised, and of the target's, unmodified, which only has to exist.
TransferBegin(r) ==
  /\ At(r, "begin")
  /\ Kind(r) = "transfer"
  /\ Exists(input[r].actor) /\ Exists(UserOf(r))
  /\ Attempts(r, ({Tenant} \cup (IF view[r].roleKey = "owner" THEN {input[r].actor} ELSE {}))
                 \ clean[r])
  /\ UNCHANGED <<docs, input, view, clean, aborts>>

-----------------------------------------------------------------------------
(* updateMembership and deleteMembership: all in the transaction.           *)

\* The gate has let an active member with the permission through.
Change(r, kind, u, patch) ==
  /\ ActiveMembers # {}
  /\ Start(r, [NoInput EXCEPT !.kind = kind, !.user = u, !.patch = patch], "begin")
  /\ UNCHANGED <<docs, view, clean, tx, aborts>>

\* Mutated form of Patched: the fields that were not sent are assigned too.
PatchedAsSent(u, patch) == patch

Patched(u, patch) ==
  [status |-> IF patch.status = "same" THEN membership[u].status ELSE patch.status,
   roleKey |-> IF patch.roleKey = "same" THEN membership[u].roleKey ELSE patch.roleKey]

\* Mutated form of ChangeBegin: the owner's membership is not protected.
ChangeBeginUnprotected(r) ==
  /\ At(r, "begin")
  /\ Kind(r) \in {"update", "delete"}
  /\ Exists(UserOf(r))
  /\ Attempts(r, IF Kind(r) = "update"
                    /\ membership[UserOf(r)] = Patched(UserOf(r), input[r].patch)
                 THEN {} ELSE {UserOf(r)})
  /\ UNCHANGED <<docs, input, view, clean, aborts>>

\* A save that changes nothing writes nothing.
ChangeBegin(r) ==
  /\ At(r, "begin")
  /\ Kind(r) \in {"update", "delete"}
  /\ UserOf(r) # ownerUserId /\ Exists(UserOf(r))
  /\ Attempts(r, IF Kind(r) = "update"
                    /\ membership[UserOf(r)] = Patched(UserOf(r), input[r].patch)
                 THEN {} ELSE {UserOf(r)})
  /\ UNCHANGED <<docs, input, view, clean, aborts>>

-----------------------------------------------------------------------------
(* The end of an attempt.                                                   *)

\* The memberships, the invitation and the owner as the attempt has written them.
SavedMembership(r, u) ==
  CASE Kind(r) = "accept" -> [status |-> "active", roleKey |-> view[r].roleKey]
    [] Kind(r) = "transfer" -> [membership[u] EXCEPT !.roleKey = "member"]
    [] Kind(r) = "update" -> Patched(u, input[r].patch)
    [] OTHER -> NoMembership

SavedStatus(r, i) ==
  CASE Kind(r) = "accept" -> "accepted"
    [] Kind(r) = "revoke" /\ view[r].status # "revoked" /\ i \notin clean[r] -> "revoked"
    [] OTHER -> invitation[i].status

Commit(r) ==
  LET W == tx[r].writes
  IN /\ At(r, "tx")
     /\ W \cap tx[r].missed = {}
     /\ ownerUserId' = IF Tenant \in W THEN UserOf(r) ELSE ownerUserId
     /\ membership' = [u \in User |->
          IF u \in W THEN SavedMembership(r, u) ELSE membership[u]]
     /\ invitation' = [i \in Invitation |->
          IF i \in W THEN [invitation[i] EXCEPT !.status = SavedStatus(r, i)]
          ELSE invitation[i]]
     /\ tx' = Published(r, W)
     /\ Goto(r, "done")
     /\ UNCHANGED <<input, view, clean, aborts>>

\* Another attempt has written, or committed, a document of this one.
Conflicts(r) ==
  {d \in tx[r].writes : d \in tx[r].missed \/ \E q \in Req \ {r} : d \in tx[q].writes}

\* withTransaction starts again.  Documents loaded beforehand stay as the saves that
\* succeeded have left them, unmodified.
Retry(r) ==
  /\ At(r, "tx")
  /\ \/ Conflicts(r) # {} /\ UNCHANGED aborts
     \/ aborts < MaxAborts /\ aborts' = aborts + 1
  /\ \E saved \in SUBSET (tx[r].writes \ Conflicts(r)) :
       clean' = [clean EXCEPT ![r] =
         IF Kind(r) \in {"revoke", "transfer"} THEN @ \cup saved ELSE @]
  /\ tx' = [tx EXCEPT ![r] = NoAttempt]
  /\ Goto(r, "begin")
  /\ UNCHANGED <<docs, input, view>>

\* A check that fails, an error, the death of the process.
Fail(r) ==
  /\ pc[r] \notin Over \cup {"idle"}
  /\ tx' = [tx EXCEPT ![r] = NoAttempt]
  /\ Goto(r, "failed")
  /\ UNCHANGED <<docs, input, view, clean, aborts>>

Arrive(r) ==
  \/ \E u \in User, role \in Role : Invite(r, u, role)
  \/ \E i \in Invitation, step \in {"begin", "expire", "failed"} : Accept(r, i, step)
  \/ \E i \in Invitation : Revoke(r, i)
  \/ \E u \in User : Transfer(r, u)
  \/ \E u \in User, patch \in Patch :
       patch # NoPatch /\ patch.roleKey # "owner" /\ Change(r, "update", u, patch)
  \/ \E u \in User : Change(r, "delete", u, NoPatch)

Begin(r) == AcceptBegin(r) \/ RevokeBegin(r) \/ TransferBegin(r) \/ ChangeBegin(r)

Next ==
  \E r \in Req :
    \/ Arrive(r)
    \/ InviteFind(r) \/ Resend(r) \/ InviteInsert(r) \/ Expire(r)
    \/ Begin(r) \/ Commit(r) \/ Retry(r) \/ Fail(r)

Spec == Init /\ [][Next]_vars

-----------------------------------------------------------------------------
(* Properties.                                                              *)

\* Whoever accepts, accepts an invitation that is pending at that moment, not only
\* when it was loaded, and becomes an active member with the role it carries then:
\* acceptances of one invitation, revocations, expiries and resends may race.
AcceptsPending ==
  [][\A r \in Req : Kind(r) = "accept" /\ At(r, "tx") /\ pc'[r] = "done" =>
       LET i == InvitationOf(r)
       IN /\ invitation[i].status = "pending" /\ invitation'[i].status = "accepted"
          /\ membership'[UserOf(r)] =
               [status |-> "active", roleKey |-> invitation[i].roleKey]]_vars

\* An invitation that was accepted, revoked or expired is never pending again,
\* whatever copy of it a request still holds.
ClosedStaysClosed ==
  [][\A i \in Invitation :
       invitation[i].status \in Closed => invitation'[i].status \in Closed]_vars

\* At most one invitation per address is pending, though createInvitation looks for
\* one before it inserts another.
OnePendingPerEmail ==
  \A i, j \in Invitation :
    /\ invitation[i].status = "pending" /\ invitation[j].status = "pending"
    /\ invitation[i].email = invitation[j].email
    => i = j

\* docs/frontend/20_ACCESS_MATRIX.md: "No mutar owner efectivo", "No remover owner
\* efectivo": what updateMembership and deleteMembership check in their snapshot
\* holds when they commit, unless the tenant document was written in between.
OwnerProtected ==
  [][\A r \in Req : Kind(r) \in {"update", "delete"} /\ At(r, "tx") /\ pc'[r] = "done" =>
       UserOf(r) # ownerUserId \/ Tenant \in tx[r].missed]_vars
=============================================================================
