----------------------------- MODULE MCTenancy -----------------------------
(* Tenancy on small instances. *)
EXTENDS Tenancy, TLC

ReqSymmetry == Permutations(Req)
=============================================================================
