--------------------------- MODULE MCAuditOutbox ---------------------------
(* AuditOutbox on small instances: entries 1 and 2 are one tenant's. *)
EXTENDS AuditOutbox, TLC

TwoScopes == (1 :> "tenant") @@ (2 :> "tenant") @@ (3 :> "platform")
=============================================================================
