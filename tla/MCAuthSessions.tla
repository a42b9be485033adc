--------------------------- MODULE MCAuthSessions ---------------------------
(* AuthSessions on small instances. *)
EXTENDS AuthSessions, TLC

RotationKinds == {"refresh", "logoutAll"}
OneInitial == {1}
TwoInitial == {1, 2}
RotationSymmetry == Permutations(Req) \cup Permutations(Proc)
=============================================================================
