----------------------------- MODULE Inventory -----------------------------
(***************************************************************************)
(* The stock of one tenant (InventoryService): the stock of the items,    *)
(* their balances in the warehouses, the ledger of movements, and the     *)
(* stocktakes that set balances to what was counted.                       *)
(*                                                                         *)
(* Movements and the application of a stocktake run in a transaction with *)
(* snapshot isolation that loads all it decides on.  Counting and         *)
(* cancelling save a stocktake they loaded before.  A transaction is a    *)
(* step that takes its snapshot and decides, and a step that commits; the *)
(* commit fails if a document it writes was committed since.               *)
(*                                                                         *)
(* There are no lots: the upsert of a lot names currentQuantity both in   *)
(* $setOnInsert and in $inc, which the database refuses (Receive), so     *)
(* consumeLots never finds one.  A stocktake has one line per item.        *)
(***************************************************************************)
EXTENDS Integers, FiniteSets, Sequences, Functions, SequencesExt

CONSTANTS
  Item,         \* items that createItem has created
  Opening,      \* the initial stock createItem gave to each
  Warehouse,
  Stocktake,    \* ids of stocktake documents
  Key,          \* idempotency keys
  Req,          \* requests served at the same time
  Kinds,        \* what requests may ask for
  Quantity,     \* quantities of movements
  Count,        \* counted stocks
  NoItem, NoWarehouse, NoStocktake, NoKey,
  MaxRequests   \* bound: requests ever started

AllKinds == {"in", "out", "exit", "transfer", "receive", "apply", "count", "cancel"}

ASSUME InventoryAssumption ==
  /\ Kinds \subseteq AllKinds
  /\ Opening \in [Item -> Nat]
  /\ Quantity \subseteq Nat \ {0} /\ Count \subseteq Nat
  /\ Item \cap Warehouse = {} /\ IsFiniteSet(Warehouse) /\ IsFiniteSet(Item)
  /\ NoItem \notin Item /\ NoWarehouse \notin Warehouse
  /\ NoStocktake \notin Stocktake /\ NoKey \notin Key
  /\ MaxRequests \in Nat

VARIABLES
  stock,      \* currentStock of each item
  active,     \* the items and warehouses whose isActive is true
  balance,    \* currentStock of each item in each warehouse, 0 without a document
  ledger,     \* the movements of each item, in the order of their commits
  stocktake,  \* the stocktakes collection
  pc,         \* where each request is
  input,      \* what each request asks for
  view,       \* the stocktake that counting and cancelling have loaded
  tx,         \* the running attempt of each request's transaction
  asked       \* requests started

docs == <<stock, active, balance, ledger, stocktake>>
vars == <<stock, active, balance, ledger, stocktake, pc, input, view, tx, asked>>

Lines == UNION {[I -> Count] : I \in SUBSET Item}
Open == {"draft", "in_progress"}
Closed == {"applied", "cancelled"}
StocktakeDoc == [status : {"none"} \cup Open \cup Closed,
                 warehouse : Warehouse \cup {NoWarehouse}, lines : Lines, version : Nat]

\* direct: createStockMovement, which names no warehouse.
Row == [type : {"direct", "exit", "transfer", "adjust"},
        before : Nat, after : Nat, key : Key \cup {NoKey}]

Input == [kind : AllKinds \cup {"none"}, item : Item \cup {NoItem},
          from : Warehouse \cup {NoWarehouse}, to : Warehouse \cup {NoWarehouse},
          quantity : Quantity \cup {0}, key : Key \cup {NoKey},
          stocktake : Stocktake \cup {NoStocktake}]

\* moved: the items that get a movement; stock, balance: what was read of them;
\* stale: a document the attempt writes was committed since its snapshot.
Attempt == [moved : SUBSET Item, stock : [Item -> Nat],
            balance : [Item -> [Warehouse -> Nat]], stale : BOOLEAN]

NoLines == [i \in {} |-> 0]
NoDoc == [status |-> "none", warehouse |-> NoWarehouse, lines |-> NoLines, version |-> 0]
NoInput == [kind |-> "none", item |-> NoItem, from |-> NoWarehouse, to |-> NoWarehouse,
            quantity |-> 0, key |-> NoKey, stocktake |-> NoStocktake]
Zero == [w \in Warehouse |-> 0]
NoAttempt == [moved |-> {}, stock |-> [i \in Item |-> 0], balance |-> [i \in Item |-> Zero],
              stale |-> FALSE]

TypeOK ==
  /\ stock \in [Item -> Nat]
  /\ active \subseteq Item \cup Warehouse
  /\ balance \in [Item -> [Warehouse -> Nat]]
  /\ ledger \in [Item -> Seq(Row)]
  /\ stocktake \in [Stocktake -> StocktakeDoc]
  /\ pc \in [Req -> {"idle", "begin", "tx", "save"}]
  /\ input \in [Req -> Input]
  /\ view \in [Req -> StocktakeDoc]
  /\ tx \in [Req -> Attempt]
  /\ asked \in Nat

\* createItem has written the initial stock and no balance.
Init ==
  /\ stock = Opening
  /\ active = Item \cup Warehouse
  /\ balance = [i \in Item |-> Zero]
  /\ ledger = [i \in Item |-> <<>>]
  /\ stocktake = [s \in Stocktake |-> NoDoc]
  /\ pc = [r \in Req |-> "idle"]
  /\ input = [r \in Req |-> NoInput]
  /\ view = [r \in Req |-> NoDoc]
  /\ tx = [r \in Req |-> NoAttempt]
  /\ asked = 0

At(r, step) == pc[r] = step
Goto(r, step) == pc' = [pc EXCEPT ![r] = step]
Kind(r) == input[r].kind
ItemOf(r) == input[r].item
StocktakeOf(r) == input[r].stocktake
KeyOf(r) == input[r].key
Counted(r) == stocktake[StocktakeOf(r)]

\* The movement with an idempotency key.
Recorded(k) == \E i \in Item : \E n \in DOMAIN ledger[i] : ledger[i][n].key = k

-----------------------------------------------------------------------------
(* What an attempt writes, and whom its commit makes stale.                 *)

\* A transfer reads the item and does not write it.
ItemsWritten(r) == IF Kind(r) = "transfer" THEN {} ELSE tx[r].moved

\* An upsert sets updatedAt: a stocktake also writes the balances it finds as counted.
BalancesWritten(r) ==
  CASE Kind(r) = "exit" -> {ItemOf(r)} \X {input[r].from}
    [] Kind(r) = "transfer" -> {ItemOf(r)} \X {input[r].from, input[r].to}
    [] Kind(r) = "apply" -> (DOMAIN Counted(r).lines) \X {Counted(r).warehouse}
    [] OTHER -> {}

\* Mutated form of Clash: items are updated outside the session.
ClashWithoutItems(q, r) ==
  \/ BalancesWritten(q) \cap BalancesWritten(r) # {}
  \/ Kind(q) = "apply" /\ Kind(r) = "apply" /\ StocktakeOf(q) = StocktakeOf(r)
  \/ KeyOf(q) # NoKey /\ KeyOf(q) = KeyOf(r)

Clash(q, r) ==
  \/ ItemsWritten(q) \cap ItemsWritten(r) # {}
  \/ BalancesWritten(q) \cap BalancesWritten(r) # {}
  \/ Kind(q) = "apply" /\ Kind(r) = "apply" /\ StocktakeOf(q) = StocktakeOf(r)
  \/ KeyOf(q) # NoKey /\ KeyOf(q) = KeyOf(r)

\* The requests hit write one of the documents now committed.
Stale(hit) == [q \in Req |->
  IF At(q, "tx") /\ q \in hit THEN [tx[q] EXCEPT !.stale = TRUE] ELSE tx[q]]

Attempts(r, items) ==
  /\ tx' = [tx EXCEPT ![r] =
       [moved |-> items,
        stock |-> [i \in Item |-> IF i \in items THEN stock[i] ELSE 0],
        balance |-> [i \in Item |-> IF i \in items THEN balance[i] ELSE Zero],
        stale |-> FALSE]]
  /\ Goto(r, "tx")
  /\ UNCHANGED <<docs, input, view, asked>>

-----------------------------------------------------------------------------
(* Requests.  A key that is recorded is answered with its movement.         *)

Ask(r, request) ==
  /\ At(r, "idle")
  /\ asked < MaxRequests
  /\ request.kind \in Kinds
  /\ asked' = asked + 1
  /\ IF request.key # NoKey /\ Recorded(request.key)
     THEN UNCHANGED <<pc, input>>
     ELSE Goto(r, "begin") /\ input' = [input EXCEPT ![r] = request]
  /\ UNCHANGED <<docs, view, tx>>

\* upsertStocktakeCounts and cancelStocktake load an open stocktake.
Load(r, kind, s) ==
  /\ At(r, "idle")
  /\ asked < MaxRequests
  /\ kind \in Kinds
  /\ stocktake[s].status \in Open
  /\ asked' = asked + 1
  /\ input' = [input EXCEPT ![r] = [NoInput EXCEPT !.kind = kind, !.stocktake = s]]
  /\ view' = [view EXCEPT ![r] = stocktake[s]]
  /\ Goto(r, "save")
  /\ UNCHANGED <<docs, tx>>

-----------------------------------------------------------------------------
(* Transactions.                                                            *)

\* createStockMovement: the item alone.
MoveBegin(r) ==
  /\ At(r, "begin")
  /\ Kind(r) \in {"in", "out"}
  /\ ItemOf(r) \in active
  /\ Kind(r) = "out" => stock[ItemOf(r)] >= input[r].quantity
  /\ Attempts(r, {ItemOf(r)})

\* Mutated form of ExitBegin: only the stock of the item is checked.
ExitBeginItemOnly(r) ==
  /\ At(r, "begin")
  /\ Kind(r) = "exit"
  /\ {ItemOf(r), input[r].from} \subseteq active
  /\ stock[ItemOf(r)] >= input[r].quantity
  /\ ~Recorded(KeyOf(r)) \/ KeyOf(r) = NoKey
  /\ Attempts(r, {ItemOf(r)})

\* createMovementCommand, exit or adjustment out: the item and its balance.
ExitBegin(r) ==
  /\ At(r, "begin")
  /\ Kind(r) = "exit"
  /\ {ItemOf(r), input[r].from} \subseteq active
  /\ stock[ItemOf(r)] >= input[r].quantity
  /\ balance[ItemOf(r)][input[r].from] >= input[r].quantity
  /\ ~Recorded(KeyOf(r)) \/ KeyOf(r) = NoKey
  /\ Attempts(r, {ItemOf(r)})

\* Mutated form of TransferBegin: no unique index on idempotency keys.
TransferBeginNoIndex(r) ==
  /\ At(r, "begin")
  /\ Kind(r) = "transfer"
  /\ {ItemOf(r), input[r].from, input[r].to} \subseteq active
  /\ balance[ItemOf(r)][input[r].from] >= input[r].quantity
  /\ Attempts(r, {ItemOf(r)})

\* createMovementCommand, transfer: two balances of the item.
TransferBegin(r) ==
  /\ At(r, "begin")
  /\ Kind(r) = "transfer"
  /\ {ItemOf(r), input[r].from, input[r].to} \subseteq active
  /\ balance[ItemOf(r)][input[r].from] >= input[r].quantity
  /\ ~Recorded(KeyOf(r)) \/ KeyOf(r) = NoKey
  /\ Attempts(r, {ItemOf(r)})

\* createMovementCommand, entry, return or adjustment in, and createLot: refused.
Receive(r) ==
  /\ At(r, "begin")
  /\ Kind(r) = "receive"
  /\ Goto(r, "idle")
  /\ input' = [input EXCEPT ![r] = NoInput]
  /\ UNCHANGED <<docs, view, tx, asked>>

Delta(s, i) == stocktake[s].lines[i] - balance[i][stocktake[s].warehouse]
Differing(s) == {i \in DOMAIN stocktake[s].lines : Delta(s, i) # 0}

\* Mutated form of ApplyBegin: an applied stocktake can be applied again.
ApplyBeginAgain(r) ==
  LET s == StocktakeOf(r)
  IN /\ At(r, "begin")
     /\ Kind(r) = "apply"
     /\ stocktake[s].status # "cancelled"
     /\ DOMAIN stocktake[s].lines \subseteq active
     /\ \A i \in Differing(s) : stock[i] + Delta(s, i) >= 0
     /\ Attempts(r, Differing(s))

\* applyStocktake: the lines that differ from their balance.
ApplyBegin(r) ==
  LET s == StocktakeOf(r)
  IN /\ At(r, "begin")
     /\ Kind(r) = "apply"
     /\ stocktake[s].status \in Open
     /\ DOMAIN stocktake[s].lines \subseteq active
     /\ \A i \in Differing(s) : stock[i] + Delta(s, i) >= 0
     /\ Attempts(r, Differing(s))

Found(r, i) == tx[r].stock[i]
FoundIn(r, i, w) == tx[r].balance[i][w]

\* Mutated form of NewStock: a stocktake sets the stock to the count of one warehouse.
NewStockAsCounted(r, i) ==
  CASE Kind(r) = "in" -> Found(r, i) + input[r].quantity
    [] Kind(r) \in {"out", "exit"} -> Found(r, i) - input[r].quantity
    [] Kind(r) = "apply" -> Counted(r).lines[i]
    [] OTHER -> Found(r, i)

NewStock(r, i) ==
  CASE Kind(r) = "in" -> Found(r, i) + input[r].quantity
    [] Kind(r) \in {"out", "exit"} -> Found(r, i) - input[r].quantity
    [] Kind(r) = "apply" -> Found(r, i) + Counted(r).lines[i] - FoundIn(r, i, Counted(r).warehouse)
    [] OTHER -> Found(r, i)

NewBalance(r, i, w) ==
  IF Kind(r) = "apply" THEN Counted(r).lines[i]
  ELSE IF w = input[r].from THEN FoundIn(r, i, w) - input[r].quantity
  ELSE FoundIn(r, i, w) + input[r].quantity

Movement(r, i) ==
  [type |-> CASE Kind(r) \in {"in", "out"} -> "direct"
              [] Kind(r) = "apply" -> "adjust"
              [] OTHER -> Kind(r),
   before |-> Found(r, i), after |-> NewStock(r, i), key |-> KeyOf(r)]

Commit(r) ==
  /\ At(r, "tx")
  /\ ~tx[r].stale
  /\ stock' = [i \in Item |-> IF i \in ItemsWritten(r) THEN NewStock(r, i) ELSE stock[i]]
  /\ balance' = [i \in Item |-> [w \in Warehouse |->
       IF <<i, w>> \in BalancesWritten(r) THEN NewBalance(r, i, w) ELSE balance[i][w]]]
  /\ ledger' = [i \in Item |->
       IF i \in tx[r].moved THEN Append(ledger[i], Movement(r, i)) ELSE ledger[i]]
  /\ stocktake' = IF Kind(r) = "apply"
                  THEN [stocktake EXCEPT ![StocktakeOf(r)].status = "applied"]
                  ELSE stocktake
  /\ tx' = [Stale({q \in Req : Clash(q, r)}) EXCEPT ![r] = NoAttempt]
  /\ input' = [input EXCEPT ![r] = NoInput]
  /\ Goto(r, "idle")
  /\ UNCHANGED <<active, view, asked>>

\* withTransaction starts again, with a new snapshot: after a write conflict, with a
\* commit or with an attempt that has not committed, or another transient error.
Retry(r) ==
  /\ At(r, "tx")
  /\ tx' = [tx EXCEPT ![r] = NoAttempt]
  /\ Goto(r, "begin")
  /\ UNCHANGED <<docs, input, view, asked>>

\* A check that fails, an error, the death of the process.
Fail(r) ==
  /\ ~At(r, "idle")
  /\ tx' = [tx EXCEPT ![r] = NoAttempt]
  /\ input' = [input EXCEPT ![r] = NoInput]
  /\ view' = [view EXCEPT ![r] = NoDoc]
  /\ Goto(r, "idle")
  /\ UNCHANGED <<docs, asked>>

-----------------------------------------------------------------------------
(* Stocktakes, items and warehouses outside transactions.                   *)

\* createStocktake.
CreateStocktake(s, w, lines) ==
  /\ stocktake[s].status = "none"
  /\ w \in active
  /\ stocktake' = [stocktake EXCEPT ![s] =
       [status |-> "draft", warehouse |-> w, lines |-> lines, version |-> 0]]
  /\ UNCHANGED <<stock, active, balance, ledger, pc, input, view, tx, asked>>

\* The save of a stocktake that was loaded sends what was assigned and differs from
\* the copy; new lines are sent under the condition that no lines were sent since.
Saved(doc, loaded, status, lines) ==
  [doc EXCEPT !.status = IF status # loaded.status THEN status ELSE doc.status,
              !.lines = IF lines # loaded.lines THEN lines ELSE doc.lines,
              !.version = IF lines # loaded.lines THEN doc.version + 1 ELSE doc.version]

Save(r, status, lines) ==
  LET s == StocktakeOf(r)
      readers == {q \in Req : Kind(q) = "apply" /\ StocktakeOf(q) = s}
  IN /\ lines # view[r].lines => stocktake[s].version = view[r].version
     /\ stocktake' = [stocktake EXCEPT ![s] = Saved(stocktake[s], view[r], status, lines)]
     /\ tx' = IF lines # view[r].lines \/ status # view[r].status THEN Stale(readers) ELSE tx
     /\ input' = [input EXCEPT ![r] = NoInput]
     /\ view' = [view EXCEPT ![r] = NoDoc]
     /\ Goto(r, "idle")
     /\ UNCHANGED <<stock, active, balance, ledger, asked>>

CountSave(r, lines) ==
  At(r, "save") /\ Kind(r) = "count" /\ Save(r, "in_progress", lines)

CancelSave(r) ==
  At(r, "save") /\ Kind(r) = "cancel" /\ Save(r, "cancelled", view[r].lines)

\* deleteItem: the stock and the balances stay.
DeleteItem(i) ==
  /\ i \in active
  /\ active' = active \ {i}
  /\ tx' = Stale({q \in Req : i \in ItemsWritten(q)})
  /\ UNCHANGED <<stock, balance, ledger, stocktake, pc, input, view, asked>>

\* updateWarehouse sets isActive.
SetWarehouse(w, isActive) ==
  /\ active' = IF isActive THEN active \cup {w} ELSE active \ {w}
  /\ UNCHANGED <<stock, balance, ledger, stocktake, pc, input, view, tx, asked>>

Arrive(r) ==
  \/ \E i \in Item, kind \in {"in", "out"}, n \in Quantity :
       Ask(r, [NoInput EXCEPT !.kind = kind, !.item = i, !.quantity = n])
  \/ \E i \in Item, kind \in {"exit", "receive"}, n \in Quantity, w \in Warehouse,
        k \in Key \cup {NoKey} :
       Ask(r, [NoInput EXCEPT !.kind = kind, !.item = i, !.quantity = n,
                              !.from = w, !.key = k])
  \/ \E i \in Item, n \in Quantity, v, w \in Warehouse, k \in Key \cup {NoKey} :
       v # w /\ Ask(r, [NoInput EXCEPT !.kind = "transfer", !.item = i, !.quantity = n,
                                       !.from = v, !.to = w, !.key = k])
  \/ \E s \in Stocktake :
       \/ stocktake[s].status # "none"
          /\ Ask(r, [NoInput EXCEPT !.kind = "apply", !.stocktake = s])
       \/ \E kind \in {"count", "cancel"} : Load(r, kind, s)

Begin(r) == MoveBegin(r) \/ ExitBegin(r) \/ TransferBegin(r) \/ Receive(r) \/ ApplyBegin(r)

Next ==
  \/ \E r \in Req :
       \/ Arrive(r)
       \/ Begin(r) \/ Commit(r) \/ Retry(r) \/ Fail(r)
       \/ \E lines \in Lines : DOMAIN lines # {} /\ CountSave(r, lines)
       \/ CancelSave(r)
  \/ \E s \in Stocktake, w \in Warehouse, lines \in Lines : CreateStocktake(s, w, lines)
  \/ \E i \in Item : DeleteItem(i)
  \/ \E w \in Warehouse, isActive \in BOOLEAN : SetWarehouse(w, isActive)

Spec == Init /\ [][Next]_vars

-----------------------------------------------------------------------------
(* Properties.                                                              *)

\* The movements that change a stock, and that they chain from opening to current
\* with no gap.
Moves(movements) == {n \in DOMAIN movements : movements[n].type # "transfer"}

Explains(movements, opening, current) ==
  LET M == Moves(movements)
  IN /\ M = {} => current = opening
     /\ \A n \in M :
          /\ (\A m \in M : m >= n) => movements[n].before = opening
          /\ (\A m \in M : m <= n) => movements[n].after = current
          /\ \A m \in M : m < n /\ (\A k \in M : k <= m \/ k >= n)
                         => movements[n].before = movements[m].after

\* The ledger of an item leads from its initial stock to its current one: every
\* concurrent command, stocktake or direct movement records what it found and what
\* it left.  Transfers do not write the item, and what they record of its stock may
\* be what it was before a movement that is in the ledger before them.
LedgerExplainsStock ==
  \A i \in Item : Explains(ledger[i], Opening[i], stock[i])

\* An idempotency key has one movement, though it is looked up before the
\* transaction: docs/operaciones/INVENTARIO_PROPUESTA_IMPLEMENTACION_ESCALABLE_
\* 2026-03-16.md: "No duplicidad de mutaciones idempotentes".
KeyMovesOnce ==
  \A i, j \in Item : \A m \in DOMAIN ledger[i], n \in DOMAIN ledger[j] :
    ledger[i][m].key = ledger[j][n].key /\ ledger[i][m].key # NoKey => i = j /\ m = n

\* The stock of a deleted item stays: what read it as active and has not committed
\* loses to the deletion.
DeletedKeepsStock ==
  [][\A i \in Item : i \notin active => stock'[i] = stock[i]]_vars

\* An adjustment is the application of a stocktake that is open at that moment, not
\* only in the snapshot, and closes it; an application leaves the balances counted,
\* of the lines that had to be adjusted and of the others.
AdjustsOpenStocktakes ==
  [][/\ \A i \in Item :
          Len(ledger'[i]) > Len(ledger[i]) /\ ledger'[i][Len(ledger'[i])].type = "adjust" =>
          \E s \in Stocktake :
            /\ stocktake[s].status \in Open /\ stocktake'[s].status = "applied"
            /\ i \in DOMAIN stocktake[s].lines
     /\ \A s \in Stocktake :
          stocktake[s].status # "applied" /\ stocktake'[s].status = "applied" =>
          \A i \in DOMAIN stocktake[s].lines :
            balance'[i][stocktake[s].warehouse] = stocktake[s].lines[i]]_vars
=============================================================================
