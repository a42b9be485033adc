----------------------------- MODULE AuditTrail -----------------------------
(***************************************************************************)
(* What ADR-011 promises of an event recorded outside a transaction: it is *)
(* captured durably before anything else, and reaches audit_logs at most   *)
(* once, whoever delivers it and however often they try.                   *)
(***************************************************************************)
EXTENDS Naturals

CONSTANT Entry

VARIABLES
  captured,  \* the events that are durable
  copies     \* how many audit_logs documents each event has

trailVars == <<captured, copies>>

TrailInit ==
  /\ captured = {}
  /\ copies = [e \in Entry |-> 0]

Capture(e) ==
  /\ e \notin captured
  /\ captured' = captured \cup {e}
  /\ UNCHANGED copies

Deliver(e) ==
  /\ e \in captured
  /\ copies[e] = 0
  /\ copies' = [copies EXCEPT ![e] = 1]
  /\ UNCHANGED captured

TrailNext == \E e \in Entry : Capture(e) \/ Deliver(e)

TrailSpec == TrailInit /\ [][TrailNext]_trailVars
=============================================================================
