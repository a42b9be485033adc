---------------------------- MODULE MCAppProcess ----------------------------
(* AppProcess on a small instance. *)
EXTENDS AppProcess

LowThresholds == [m \in Metric |-> IF m = "skipped" THEN 1 ELSE 2]
=============================================================================
