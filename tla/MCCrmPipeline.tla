--------------------------- MODULE MCCrmPipeline ---------------------------
(* CrmPipeline on small instances. *)
EXTENDS CrmPipeline, TLC

CrmSymmetry == Permutations(Req)
=============================================================================
