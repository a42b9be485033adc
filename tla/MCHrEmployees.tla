--------------------------- MODULE MCHrEmployees ---------------------------
(* HrEmployees on small instances. *)
EXTENDS HrEmployees
=============================================================================
