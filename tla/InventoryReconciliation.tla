---------------------- MODULE InventoryReconciliation ----------------------
(***************************************************************************)
(* The reconciliation report of one tenant (getReconciliation), beside the *)
(* commands of Inventory.  It sums the stock of the active items and the   *)
(* stock of all balances, in two aggregates that run at the same time,     *)
(* without a session: each reads its collection at a moment of its own,    *)
(* and commands may commit between the two.  The drift is the difference   *)
(* of the two sums.                                                        *)
(*                                                                         *)
(* The third aggregate, of the movements of the last days, has no part in  *)
(* the drift and is left out.                                              *)
(***************************************************************************)
EXTENDS Inventory

\* counted: the items that were active when they were read; itemsAt, balancesAt: the
\* movements that each ledger had at the two reads (history, which nothing reads).
VARIABLE report

Collections == {"items", "balances"}

Report == [read : SUBSET Collections, itemStockTotal : Int, balanceTotal : Int,
           counted : SUBSET Item, itemsAt : [Item -> Nat], balancesAt : [Item -> Nat]]

NoReport == [read |-> {}, itemStockTotal |-> 0, balanceTotal |-> 0, counted |-> {},
             itemsAt |-> [i \in Item |-> 0], balancesAt |-> [i \in Item |-> 0]]

Lengths == [i \in Item |-> Len(ledger[i])]

\* A report is one of the requests that are started; it changes no document.
Serve ==
  /\ report.read = {} => asked < MaxRequests
  /\ asked' = IF report.read = {} THEN asked + 1 ELSE asked
  /\ UNCHANGED <<docs, pc, input, view, tx>>

ReadItems ==
  /\ "items" \notin report.read
  /\ report' = [report EXCEPT
       !.read = report.read \cup {"items"},
       !.itemStockTotal = SumFunction([i \in Item |-> IF i \in active THEN stock[i] ELSE 0]),
       !.counted = active \cap Item,
       !.itemsAt = Lengths]
  /\ Serve

\* deleteItem leaves the balances of its item active.
ReadBalances ==
  /\ "balances" \notin report.read
  /\ report' = [report EXCEPT
       !.read = report.read \cup {"balances"},
       !.balanceTotal = SumFunction([i \in Item |-> SumFunction(balance[i])]),
       !.balancesAt = Lengths]
  /\ Serve

Drift == report.itemStockTotal - report.balanceTotal

\* The answer, and the next report.
Answer ==
  /\ report.read = Collections
  /\ report' = NoReport
  /\ UNCHANGED vars

ReportInit == Init /\ report = NoReport

ReportNext == (Next /\ UNCHANGED report) \/ ReadItems \/ ReadBalances \/ Answer

ReportSpec == ReportInit /\ [][ReportNext]_<<vars, report>>

-----------------------------------------------------------------------------
(* Properties.                                                              *)

ReportTypeOK == TypeOK /\ report \in Report

\* What a movement adds to the stock of its item, and whether to no balance or to as
\* much of the balances: a direct movement names no warehouse.
Unlocated(movement) == IF movement.type = "direct" THEN movement.after - movement.before ELSE 0
Located(movement) == IF movement.type = "direct" THEN 0 ELSE movement.after - movement.before

\* The sums over the first n movements of an item.
UnlocatedAt(i, n) == SumFunction([m \in 1..n |-> Unlocated(ledger[i][m])])
LocatedAt(i, n) == SumFunction([m \in 1..n |-> Located(ledger[i][m])])

\* The drift that is reported is, to the unit: of an item that was active, its initial
\* stock and direct movements, and what was located between the two reads; of a deleted
\* item, less what it left in the warehouses.  No exit, transfer or stocktake adds to
\* it otherwise, whatever interleaves.
DriftIsExplained ==
  report.read = Collections =>
    Drift = SumFunction([i \in Item |->
      IF i \in report.counted
      THEN Opening[i] + UnlocatedAt(i, report.itemsAt[i])
           + (LocatedAt(i, report.itemsAt[i]) - LocatedAt(i, report.balancesAt[i]))
      ELSE 0 - LocatedAt(i, report.balancesAt[i])])
=============================================================================
