\* Three requests of every kind, two members and a third user, a limit of two.
SPECIFICATION Spec
CONSTANTS
  User = {alice, bob, carol}
  Founder = alice
  InitialMembers = {bob}
  Invitation = {1, 2}
  Req = {r1, r2, r3}
  Kinds <- AllKinds
  Role = {"owner", "member"}
  MemberLimit = 2
  Tenant = tenant
  NoUser = NoUser  NoInvitation = NoInvitation
  MaxAborts = 1
INVARIANT TypeOK
PROPERTIES AcceptsPending OwnerProtected
SYMMETRY ReqSymmetry
CHECK_DEADLOCK FALSE
