------------------------- MODULE MCExpenseRequests -------------------------
(* ExpenseRequests on small instances. *)
EXTENDS ExpenseRequests

CONSTANTS x1, x2, x3

\* x3 does not exist; the list of three is over the limit.
BulkLists == {<<x1, x2>>, <<x2, x3>>, <<x2, x1, x3>>}
=============================================================================
