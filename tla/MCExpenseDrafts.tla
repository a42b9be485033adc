-------------------------- MODULE MCExpenseDrafts --------------------------
(* ExpenseDrafts on small instances. *)
EXTENDS ExpenseDrafts, TLC

DraftsSymmetry == Permutations(Call) \cup Permutations(Category)
=============================================================================
