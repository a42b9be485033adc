------------------------ MODULE MCTenantSubscription ------------------------
(* TenantSubscription on small instances: events 1 and 2 report the payment *)
(* of checkout c1 under one key, 3 its failure, 4 the payment of c2 with a  *)
(* plan the catalog lacks, 5 the cancelation of an unknown checkout and 6   *)
(* that of c1.                                                             *)
EXTENDS TenantSubscription, TLC

CONSTANTS c1, c2, basic, retired

Message(type, c, plan, key) == [type |-> type, checkout |-> c, plan |-> plan, key |-> key]

Messages ==
  (1 :> Message("paid", c1, NoPlan, 1)) @@ (2 :> Message("paid", c1, basic, 1))
  @@ (3 :> Message("failed", c1, NoPlan, 2)) @@ (4 :> Message("paid", c2, retired, 3))
  @@ (5 :> Message("canceled", NoCheckout, NoPlan, 4))
  @@ (6 :> Message("canceled", c1, NoPlan, 5))

Sent == [e \in Event |-> Messages[e]]

ReqSymmetry == Permutations(Req)
=============================================================================
