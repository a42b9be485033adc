---------------------------- MODULE MCInventory ----------------------------
(* Inventory on small instances. *)
EXTENDS InventoryReconciliation

OneInitially == [i \in Item |-> 1]
InventorySymmetry ==
  Permutations(Req) \cup Permutations(Item) \cup Permutations(Warehouse)
=============================================================================
