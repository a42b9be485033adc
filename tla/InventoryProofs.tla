-------------------------- MODULE InventoryProofs --------------------------
(***************************************************************************)
(* Theorems about Inventory and its reconciliation report, for any number  *)
(* of items, warehouses, stocktakes, keys and requests.                    *)
(***************************************************************************)
EXTENDS InventoryReconciliation, FiniteSetTheorems, WellFoundedInduction, TLAPS

\* What an attempt has read of the documents it writes is still what they hold, as
\* long as no commit has made it stale.
Fresh(r) ==
  /\ \A i \in ItemsWritten(r) : Found(r, i) = stock[i] /\ i \in active
  /\ KeyOf(r) # NoKey => ~Recorded(KeyOf(r))
  /\ Kind(r) = "apply" =>
       /\ Counted(r).status \in Open
       /\ tx[r].moved \subseteq DOMAIN Counted(r).lines
       /\ \A i \in tx[r].moved :
            Found(r, i) + Counted(r).lines[i] - FoundIn(r, i, Counted(r).warehouse) >= 0

\* What a request asks for fits its kind, and an attempt passed the checks of its kind.
Fits(r) ==
  /\ Kind(r) \in {"in", "out", "exit", "transfer", "receive"} => ItemOf(r) \in Item
  /\ Kind(r) \in {"exit", "transfer"} => input[r].from \in Warehouse
  /\ Kind(r) \in {"apply", "count", "cancel"} => StocktakeOf(r) \in Stocktake
  /\ Kind(r) \in {"in", "out", "apply"} => KeyOf(r) = NoKey

Checked(r) ==
  /\ Kind(r) \in {"in", "out", "exit", "transfer", "apply"}
  /\ Kind(r) # "apply" => tx[r].moved = {ItemOf(r)}
  /\ Kind(r) \in {"out", "exit"} => Found(r, ItemOf(r)) >= input[r].quantity
  /\ Kind(r) \in {"exit", "transfer"} =>
       FoundIn(r, ItemOf(r), input[r].from) >= input[r].quantity

RequestOK(r) ==
  /\ Fits(r)
  /\ pc[r] # "tx" => tx[r] = NoAttempt
  /\ pc[r] = "save" => Kind(r) \in {"count", "cancel"} /\ Counted(r).status # "none"
  /\ pc[r] = "tx" => Checked(r) /\ (~tx[r].stale => Fresh(r))

StocktakesLocated ==
  \A s \in Stocktake : stocktake[s].status # "none" => stocktake[s].warehouse \in Warehouse

IInv == TypeOK /\ StocktakesLocated /\ \A r \in Req : RequestOK(r)

-----------------------------------------------------------------------------

LEMMA Nulls ==
  /\ NoInput \in Input /\ NoAttempt \in Attempt /\ NoLines \in Lines
  /\ Zero \in [Warehouse -> Nat] /\ NoDoc \in StocktakeDoc
  <1>1. Zero \in [Warehouse -> Nat]
    BY DEF Zero
  <1>2. NoAttempt \in Attempt
    BY <1>1 DEF NoAttempt, Attempt
  <1>3. NoLines \in [{} -> Count] /\ {} \in SUBSET Item
    BY DEF NoLines
  <1>4. NoLines \in Lines
    BY <1>3 DEF Lines
  <1>5. NoInput \in Input
    BY DEF NoInput, Input, AllKinds
  <1>6. NoDoc \in StocktakeDoc
    BY <1>4 DEF NoDoc, StocktakeDoc
  <1> QED
    BY <1>1, <1>2, <1>4, <1>5, <1>6

\* Lines map items to natural numbers.
LEMMA LinesType ==
  ASSUME NEW lines \in Lines
  PROVE  DOMAIN lines \subseteq Item /\ \A i \in DOMAIN lines : lines[i] \in Nat
  <1>1. PICK I \in SUBSET Item : lines \in [I -> Count]
    BY DEF Lines
  <1> QED
    BY <1>1, InventoryAssumption

LEMMA InitIInv == Init => IInv
  <1> SUFFICES ASSUME Init PROVE IInv
    OBVIOUS
  <1>1. stock \in [Item -> Nat] /\ active \subseteq Item \cup Warehouse
        /\ balance \in [Item -> [Warehouse -> Nat]] /\ stocktake \in [Stocktake -> StocktakeDoc]
    BY Nulls, InventoryAssumption DEF Init
  <1>2. ledger \in [Item -> Seq(Row)]
    <2>1. <<>> \in Seq(Row)
      OBVIOUS
    <2> QED
      BY <2>1 DEF Init
  <1>3. TypeOK
    BY <1>1, <1>2, Nulls DEF Init, TypeOK
  <1>4. \A r \in Req : RequestOK(r)
    BY DEF Init, RequestOK, Fits, Kind, NoInput
  <1>5. StocktakesLocated
    BY DEF Init, StocktakesLocated, NoDoc
  <1> QED
    BY <1>3, <1>4, <1>5 DEF IInv

\* Making attempts stale changes nothing else of them.
LEMMA StaleType ==
  ASSUME IInv, NEW hit
  PROVE  /\ Stale(hit) \in [Req -> Attempt]
         /\ \A q \in Req :
              /\ Stale(hit)[q].moved = tx[q].moved
              /\ Stale(hit)[q].stock = tx[q].stock
              /\ Stale(hit)[q].balance = tx[q].balance
              /\ pc[q] # "tx" => Stale(hit)[q] = tx[q]
              /\ pc[q] = "tx" /\ ~Stale(hit)[q].stale => ~tx[q].stale /\ q \notin hit
  BY DEF IInv, TypeOK, Stale, Attempt, At

\* A request that took no step stays as it should be, when what its attempt writes
\* was left alone or the attempt became stale.
LEMMA OtherKept ==
  ASSUME IInv, NEW q \in Req, pc'[q] = pc[q], input'[q] = input[q],
         tx'[q].moved = tx[q].moved, tx'[q].stock = tx[q].stock,
         tx'[q].balance = tx[q].balance,
         pc[q] # "tx" => tx'[q] = tx[q],
         \A s \in Stocktake : stocktake[s].status # "none" => stocktake'[s].status # "none",
         pc[q] = "tx" /\ ~tx'[q].stale =>
           /\ ~tx[q].stale
           /\ \A i \in ItemsWritten(q) : stock'[i] = stock[i] /\ (i \in active => i \in active')
           /\ KeyOf(q) # NoKey /\ Recorded(KeyOf(q))' => Recorded(KeyOf(q))
           /\ Kind(q) = "apply" => stocktake'[StocktakeOf(q)] = stocktake[StocktakeOf(q)]
  PROVE  RequestOK(q)'
  <1>1. RequestOK(q)
    BY DEF IInv
  <1>2. Fits(q)'
    BY <1>1 DEF RequestOK, Fits, Kind, ItemOf, StocktakeOf, KeyOf
  <1>3. ASSUME pc[q] # "tx" PROVE RequestOK(q)'
    <2>1. pc[q] = "save" => StocktakeOf(q) \in Stocktake /\ Counted(q)'.status # "none"
      BY <1>1 DEF RequestOK, Fits, Counted, StocktakeOf
    <2> QED
      BY <1>1, <1>2, <1>3, <2>1 DEF RequestOK, Kind
  <1>4. CASE pc[q] = "tx"
    <2>1. Checked(q)'
      BY <1>1, <1>4 DEF RequestOK, Checked, Kind, ItemOf, Found, FoundIn
    <2>2. ASSUME ~tx'[q].stale PROVE Fresh(q)'
      <3>1. Fresh(q)
        BY <1>1, <1>4, <2>2 DEF RequestOK
      <3>2. /\ ItemsWritten(q)' = ItemsWritten(q)
            /\ KeyOf(q)' = KeyOf(q) /\ Kind(q)' = Kind(q)
            /\ \A i \in Item : Found(q, i)' = Found(q, i)
            /\ \A i \in Item, w \in Warehouse : FoundIn(q, i, w)' = FoundIn(q, i, w)
        BY DEF ItemsWritten, KeyOf, Kind, Found, FoundIn
      <3>3. ItemsWritten(q) \subseteq Item /\ tx[q].moved \subseteq Item
        BY DEF IInv, TypeOK, Attempt, ItemsWritten
      <3>4. \A i \in ItemsWritten(q)' : Found(q, i)' = stock'[i] /\ i \in active'
        BY <1>4, <2>2, <3>1, <3>2, <3>3 DEF Fresh
      <3>5. KeyOf(q)' # NoKey => ~Recorded(KeyOf(q))'
        BY <1>4, <2>2, <3>1, <3>2 DEF Fresh
      <3>6. Kind(q) = "apply" => Counted(q)' = Counted(q)
        BY <1>4, <2>2 DEF Counted, StocktakeOf
      <3>7. Kind(q)' = "apply" =>
              /\ Counted(q)'.status \in Open
              /\ tx'[q].moved \subseteq DOMAIN Counted(q)'.lines
              /\ \A i \in tx'[q].moved :
                   Found(q, i)' + Counted(q)'.lines[i]
                   - FoundIn(q, i, Counted(q).warehouse)' >= 0
        BY <3>1, <3>2, <3>6 DEF Fresh, Found, FoundIn
      <3> QED
        BY <3>4, <3>5, <3>7 DEF Fresh
    <2> QED
      BY <1>2, <1>4, <2>1, <2>2 DEF RequestOK
  <1> QED
    BY <1>3, <1>4

-----------------------------------------------------------------------------
(* Every action keeps the invariant.                                        *)

LEMMA AskKeeps ==
  ASSUME IInv, NEW r \in Req, NEW request \in Input, Ask(r, request),
         request.kind \in {"in", "out", "exit", "transfer", "receive"} => request.item \in Item,
         request.kind \in {"exit", "transfer"} => request.from \in Warehouse,
         request.kind \in {"apply", "count", "cancel"} => request.stocktake \in Stocktake,
         request.kind \in {"in", "out", "apply"} => request.key = NoKey
  PROVE  IInv'
  <1> USE DEF Ask, docs
  <1>1. TypeOK'
    <2>1. pc' \in [Req -> {"idle", "begin", "tx", "save"}] /\ input' \in [Req -> Input]
      <3>1. CASE UNCHANGED <<pc, input>>
        BY <3>1 DEF IInv, TypeOK
      <3>2. CASE Goto(r, "begin") /\ input' = [input EXCEPT ![r] = request]
        BY <3>2 DEF IInv, TypeOK, Goto
      <3> QED
        BY <3>1, <3>2
    <2> QED
      BY <2>1 DEF IInv, TypeOK
  <1>2. StocktakesLocated'
    BY DEF IInv, StocktakesLocated
  <1>3. ASSUME NEW q \in Req \ {r} PROVE RequestOK(q)'
    <2>1. Recorded(KeyOf(q))' => Recorded(KeyOf(q))
      BY <1>3 DEF Recorded, KeyOf, IInv, TypeOK, Goto
    <2> QED
      BY <1>3, <2>1, OtherKept DEF IInv, TypeOK, Goto
  <1>4. RequestOK(r)'
    <2>1. tx[r] = NoAttempt /\ pc[r] = "idle"
      BY DEF At, IInv, RequestOK
    <2>2. CASE pc' = pc /\ input' = input
      BY <2>1, <2>2 DEF IInv, RequestOK, Fits, Kind, ItemOf, StocktakeOf, KeyOf
    <2>3. CASE pc'[r] = "begin" /\ input'[r] = request
      BY <2>1, <2>3 DEF RequestOK, Fits, Kind, ItemOf, StocktakeOf, KeyOf
    <2> QED
      BY <2>2, <2>3 DEF IInv, TypeOK, Goto
  <1> QED
    BY <1>1, <1>2, <1>3, <1>4 DEF IInv

LEMMA LoadKeeps ==
  ASSUME IInv, NEW r \in Req, NEW kind \in {"count", "cancel"}, NEW s \in Stocktake,
         Load(r, kind, s)
  PROVE  IInv'
  <1> USE DEF Load, docs
  <1> DEFINE request == [NoInput EXCEPT !.kind = kind, !.stocktake = s]
  <1>0. request \in Input /\ request.kind = kind /\ request.stocktake = s
    BY Nulls DEF NoInput, Input, AllKinds
  <1>1. TypeOK'
    <2>1. input' \in [Req -> Input] /\ view' \in [Req -> StocktakeDoc]
      BY <1>0 DEF IInv, TypeOK
    <2> QED
      BY <2>1 DEF IInv, TypeOK, Goto
  <1>2. StocktakesLocated'
    BY DEF IInv, StocktakesLocated
  <1>3. ASSUME NEW q \in Req \ {r} PROVE RequestOK(q)'
    <2>1. Recorded(KeyOf(q))' => Recorded(KeyOf(q))
      BY <1>3 DEF Recorded, KeyOf, IInv, TypeOK, Goto
    <2> QED
      BY <1>3, <2>1, OtherKept DEF IInv, TypeOK, Goto
  <1>4. RequestOK(r)'
    <2>1. tx[r] = NoAttempt /\ pc'[r] = "save" /\ input'[r] = request
      BY DEF At, IInv, RequestOK, TypeOK, Goto
    <2> QED
      BY <1>0, <2>1 DEF RequestOK, Fits, Kind, ItemOf, StocktakeOf, KeyOf, Counted, Open
  <1> QED
    BY <1>1, <1>2, <1>3, <1>4 DEF IInv

LEMMA ArriveKeeps ==
  ASSUME IInv, NEW r \in Req, Arrive(r)
  PROVE  IInv'
  <1>1. ASSUME NEW i \in Item, NEW kind \in {"in", "out"}, NEW n \in Quantity,
               Ask(r, [NoInput EXCEPT !.kind = kind, !.item = i, !.quantity = n])
        PROVE  IInv'
    <2> DEFINE request == [NoInput EXCEPT !.kind = kind, !.item = i, !.quantity = n]
    <2>1. /\ request \in Input /\ request.kind = kind /\ request.item = i
          /\ request.key = NoKey
      BY Nulls DEF NoInput, Input, AllKinds
    <2> HIDE DEF request
    <2> QED
      BY <1>1, <2>1, AskKeeps DEF request
  <1>2. ASSUME NEW i \in Item, NEW kind \in {"exit", "receive"}, NEW n \in Quantity,
               NEW w \in Warehouse, NEW k \in Key \cup {NoKey},
               Ask(r, [NoInput EXCEPT !.kind = kind, !.item = i, !.quantity = n,
                                      !.from = w, !.key = k])
        PROVE  IInv'
    <2> DEFINE request == [NoInput EXCEPT !.kind = kind, !.item = i, !.quantity = n,
                                          !.from = w, !.key = k]
    <2>1. /\ request \in Input /\ request.kind = kind /\ request.item = i
          /\ request.from = w
      BY Nulls DEF NoInput, Input, AllKinds
    <2>2. Ask(r, request)
      BY <1>2
    <2> HIDE DEF request
    <2> QED
      BY <2>1, <2>2, AskKeeps
  <1>3. ASSUME NEW i \in Item, NEW n \in Quantity, NEW v \in Warehouse, NEW w \in Warehouse,
               NEW k \in Key \cup {NoKey},
               Ask(r, [NoInput EXCEPT !.kind = "transfer", !.item = i, !.quantity = n,
                                      !.from = v, !.to = w, !.key = k])
        PROVE  IInv'
    <2> DEFINE request == [NoInput EXCEPT !.kind = "transfer", !.item = i, !.quantity = n,
                                          !.from = v, !.to = w, !.key = k]
    <2>1. /\ request \in Input /\ request.kind = "transfer" /\ request.item = i
          /\ request.from = v
      BY Nulls DEF NoInput, Input, AllKinds
    <2>2. Ask(r, request)
      BY <1>3
    <2> HIDE DEF request
    <2> QED
      BY <2>1, <2>2, AskKeeps
  <1>4. ASSUME NEW s \in Stocktake, Ask(r, [NoInput EXCEPT !.kind = "apply", !.stocktake = s])
        PROVE  IInv'
    <2> DEFINE request == [NoInput EXCEPT !.kind = "apply", !.stocktake = s]
    <2>1. /\ request \in Input /\ request.kind = "apply" /\ request.stocktake = s
          /\ request.key = NoKey
      BY Nulls DEF NoInput, Input, AllKinds
    <2>2. Ask(r, request)
      BY <1>4
    <2> HIDE DEF request
    <2> QED
      BY <2>1, <2>2, AskKeeps
  <1>5. CASE \E i \in Item, kind \in {"in", "out"}, n \in Quantity :
               Ask(r, [NoInput EXCEPT !.kind = kind, !.item = i, !.quantity = n])
    BY <1>1, <1>5
  <1>6. CASE \E i \in Item, kind \in {"exit", "receive"}, n \in Quantity, w \in Warehouse,
               k \in Key \cup {NoKey} :
               Ask(r, [NoInput EXCEPT !.kind = kind, !.item = i, !.quantity = n,
                                      !.from = w, !.key = k])
    BY <1>2, <1>6
  <1>7. CASE \E i \in Item, n \in Quantity, v, w \in Warehouse, k \in Key \cup {NoKey} :
               v # w /\ Ask(r, [NoInput EXCEPT !.kind = "transfer", !.item = i, !.quantity = n,
                                               !.from = v, !.to = w, !.key = k])
    BY <1>3, <1>7
  <1>8. CASE \E s \in Stocktake :
               \/ stocktake[s].status # "none"
                  /\ Ask(r, [NoInput EXCEPT !.kind = "apply", !.stocktake = s])
               \/ \E kind \in {"count", "cancel"} : Load(r, kind, s)
    BY <1>4, <1>8, LoadKeeps
  <1> QED
    BY <1>5, <1>6, <1>7, <1>8, Zenon DEF Arrive

\* An attempt that starts has read what it writes from the current documents.
LEMMA AttemptsKeeps ==
  ASSUME IInv, NEW r \in Req, NEW items \in SUBSET Item, Attempts(r, items),
         Checked(r)', Fresh(r)'
  PROVE  IInv'
  <1> USE DEF Attempts, docs
  <1>1. TypeOK'
    <2>1. [moved |-> items,
           stock |-> [i \in Item |-> IF i \in items THEN stock[i] ELSE 0],
           balance |-> [i \in Item |-> IF i \in items THEN balance[i] ELSE Zero],
           stale |-> FALSE] \in Attempt
      BY Nulls DEF IInv, TypeOK, Attempt
    <2> QED
      BY <2>1 DEF IInv, TypeOK, Goto
  <1>2. StocktakesLocated'
    BY DEF IInv, StocktakesLocated
  <1>3. ASSUME NEW q \in Req \ {r} PROVE RequestOK(q)'
    <2>1. Recorded(KeyOf(q))' => Recorded(KeyOf(q))
      BY <1>3 DEF Recorded, KeyOf
    <2> QED
      BY <1>3, <2>1, OtherKept DEF IInv, TypeOK, Goto
  <1>4. RequestOK(r)'
    <2>1. pc'[r] = "tx"
      BY DEF IInv, TypeOK, Goto
    <2>2. Fits(r)'
      BY DEF IInv, RequestOK, Fits, Kind, ItemOf, StocktakeOf, KeyOf
    <2> QED
      BY <2>1, <2>2 DEF RequestOK
  <1> QED
    BY <1>1, <1>2, <1>3, <1>4 DEF IInv

LEMMA MoveBeginKeeps ==
  ASSUME IInv, NEW r \in Req, MoveBegin(r)
  PROVE  IInv'
  <1>1. Fits(r) /\ Kind(r) \in {"in", "out"} /\ ItemOf(r) \in Item /\ KeyOf(r) = NoKey
    BY DEF MoveBegin, IInv, RequestOK, Fits
  <1>2. /\ tx'[r].moved = {ItemOf(r)} /\ tx'[r].stock[ItemOf(r)] = stock[ItemOf(r)]
        /\ input' = input /\ stock' = stock /\ active' = active
    BY <1>1 DEF MoveBegin, Attempts, docs, IInv, TypeOK
  <1>3. Checked(r)'
    BY <1>1, <1>2 DEF MoveBegin, Checked, Kind, ItemOf, Found
  <1>4. Fresh(r)'
    BY <1>1, <1>2 DEF MoveBegin, Fresh, ItemsWritten, Kind, ItemOf, KeyOf, Found
  <1> QED
    BY <1>1, <1>3, <1>4, AttemptsKeeps DEF MoveBegin

LEMMA ExitBeginKeeps ==
  ASSUME IInv, NEW r \in Req, ExitBegin(r)
  PROVE  IInv'
  <1>1. /\ Kind(r) = "exit" /\ ItemOf(r) \in Item /\ input[r].from \in Warehouse
        /\ KeyOf(r) # NoKey => ~Recorded(KeyOf(r))
    BY DEF ExitBegin, IInv, RequestOK, Fits
  <1>2. /\ tx'[r].moved = {ItemOf(r)} /\ tx'[r].stock[ItemOf(r)] = stock[ItemOf(r)]
        /\ tx'[r].balance[ItemOf(r)] = balance[ItemOf(r)]
        /\ input' = input /\ stock' = stock /\ active' = active /\ ledger' = ledger
    BY <1>1 DEF ExitBegin, Attempts, docs, IInv, TypeOK
  <1>3. Checked(r)'
    BY <1>1, <1>2 DEF ExitBegin, Checked, Kind, ItemOf, Found, FoundIn
  <1>4. Fresh(r)'
    BY <1>1, <1>2 DEF ExitBegin, Fresh, ItemsWritten, Kind, ItemOf, KeyOf, Found, Recorded
  <1> QED
    BY <1>1, <1>3, <1>4, AttemptsKeeps DEF ExitBegin

LEMMA TransferBeginKeeps ==
  ASSUME IInv, NEW r \in Req, TransferBegin(r)
  PROVE  IInv'
  <1>1. /\ Kind(r) = "transfer" /\ ItemOf(r) \in Item /\ input[r].from \in Warehouse
        /\ KeyOf(r) # NoKey => ~Recorded(KeyOf(r))
    BY DEF TransferBegin, IInv, RequestOK, Fits
  <1>2. /\ tx'[r].moved = {ItemOf(r)} /\ tx'[r].balance[ItemOf(r)] = balance[ItemOf(r)]
        /\ input' = input /\ ledger' = ledger
    BY <1>1 DEF TransferBegin, Attempts, docs, IInv, TypeOK
  <1>3. Checked(r)'
    BY <1>1, <1>2 DEF TransferBegin, Checked, Kind, ItemOf, FoundIn
  <1>4. Fresh(r)'
    BY <1>1, <1>2 DEF Fresh, ItemsWritten, Kind, KeyOf, Recorded
  <1> QED
    BY <1>1, <1>3, <1>4, AttemptsKeeps DEF TransferBegin

\* The items a stocktake would move are items, at natural stocks and counts.
LEMMA StocktakeTypes ==
  ASSUME IInv, NEW s \in Stocktake, stocktake[s].status \in Open
  PROVE  /\ stocktake[s].warehouse \in Warehouse
         /\ DOMAIN stocktake[s].lines \subseteq Item
         /\ \A i \in DOMAIN stocktake[s].lines :
              /\ stocktake[s].lines[i] \in Nat /\ stock[i] \in Nat
              /\ balance[i][stocktake[s].warehouse] \in Nat
  <1>1. stocktake[s] \in StocktakeDoc
    BY DEF IInv, TypeOK
  <1>2. stocktake[s].lines \in Lines /\ stocktake[s].warehouse \in Warehouse
    BY <1>1 DEF IInv, StocktakesLocated, StocktakeDoc, Open
  <1> QED
    BY <1>2, LinesType DEF IInv, TypeOK

LEMMA ApplyBeginKeeps ==
  ASSUME IInv, NEW r \in Req, ApplyBegin(r)
  PROVE  IInv'
  <1> DEFINE s == StocktakeOf(r)
  <1>1. /\ Kind(r) = "apply" /\ s \in Stocktake /\ KeyOf(r) = NoKey
        /\ stocktake[s].status \in Open
    BY DEF ApplyBegin, IInv, RequestOK, Fits
  <1>2. /\ Differing(s) \subseteq DOMAIN stocktake[s].lines
        /\ DOMAIN stocktake[s].lines \subseteq Item
        /\ DOMAIN stocktake[s].lines \subseteq active
    BY <1>1, StocktakeTypes DEF ApplyBegin, Differing
  <1>3. Attempts(r, Differing(s))
    BY DEF ApplyBegin
  <1>4. /\ tx'[r].moved = Differing(s)
        /\ \A i \in Differing(s) : tx'[r].stock[i] = stock[i] /\ tx'[r].balance[i] = balance[i]
        /\ input' = input /\ stock' = stock /\ active' = active /\ stocktake' = stocktake
    BY <1>2, <1>3 DEF Attempts, docs, IInv, TypeOK
  <1>5. Checked(r)'
    BY <1>1, <1>4 DEF Checked, Kind
  <1>6. \A i \in Differing(s) :
          stock[i] + stocktake[s].lines[i] - balance[i][stocktake[s].warehouse] >= 0
    BY <1>1, <1>2, StocktakeTypes DEF ApplyBegin, Delta
  <1>7. Fresh(r)'
    <2>1. Kind(r)' = "apply" /\ KeyOf(r)' = NoKey /\ Counted(r)' = stocktake[s]
          /\ ItemsWritten(r)' = Differing(s)
          /\ \A i \in Differing(s) : Found(r, i)' = stock[i]
               /\ FoundIn(r, i, stocktake[s].warehouse)' = balance[i][stocktake[s].warehouse]
      BY <1>1, <1>4 DEF Kind, KeyOf, Counted, ItemsWritten, Found, FoundIn, StocktakeOf
    <2> HIDE DEF s
    <2>2. \A i \in ItemsWritten(r)' : Found(r, i)' = stock'[i] /\ i \in active'
      BY <1>2, <1>4, <2>1
    <2>3. /\ Counted(r)'.status \in Open
          /\ tx'[r].moved \subseteq DOMAIN Counted(r)'.lines
      BY <1>1, <1>2, <1>4, <2>1
    <2>4. \A i \in tx'[r].moved :
            Found(r, i)' + Counted(r)'.lines[i] - FoundIn(r, i, Counted(r).warehouse)' >= 0
      BY <1>4, <1>6, <2>1 DEF Found, FoundIn
    <2> QED
      BY <2>1, <2>2, <2>3, <2>4 DEF Fresh
  <1> QED
    BY <1>2, <1>3, <1>5, <1>7, AttemptsKeeps

\* A request that ends, or goes back to begin, and leaves the documents alone.
LEMMA EndKeeps ==
  ASSUME IInv, NEW r \in Req, UNCHANGED docs,
         tx' = [tx EXCEPT ![r] = NoAttempt],
         \/ pc' = [pc EXCEPT ![r] = "idle"] /\ input' = [input EXCEPT ![r] = NoInput]
         \/ pc' = [pc EXCEPT ![r] = "begin"] /\ input' = input,
         view' \in [Req -> StocktakeDoc], asked' \in Nat
  PROVE  IInv'
  <1> USE DEF docs
  <1>1. TypeOK'
    BY Nulls DEF IInv, TypeOK
  <1>2. StocktakesLocated'
    BY DEF IInv, StocktakesLocated
  <1>3. ASSUME NEW q \in Req \ {r} PROVE RequestOK(q)'
    <2>1. input'[q] = input[q] /\ pc'[q] = pc[q] /\ tx'[q] = tx[q]
      BY DEF IInv, TypeOK
    <2>2. Recorded(KeyOf(q))' => Recorded(KeyOf(q))
      BY <2>1 DEF Recorded, KeyOf
    <2> QED
      BY <2>1, <2>2, OtherKept
  <1>4. RequestOK(r)'
    <2>1. tx'[r] = NoAttempt /\ pc'[r] \in {"idle", "begin"} /\ input'[r] \in {NoInput, input[r]}
      BY DEF IInv, TypeOK
    <2>2. CASE input'[r] = NoInput
      BY <2>1, <2>2 DEF RequestOK, Fits, Kind, NoInput
    <2>3. CASE input'[r] = input[r]
      BY <2>1, <2>3 DEF IInv, RequestOK, Fits, Kind, ItemOf, StocktakeOf, KeyOf
    <2> QED
      BY <2>1, <2>2, <2>3
  <1> QED
    BY <1>1, <1>2, <1>3, <1>4 DEF IInv

LEMMA ReceiveKeeps ==
  ASSUME IInv, NEW r \in Req, Receive(r)
  PROVE  IInv'
  <1>1. tx[r] = NoAttempt
    BY DEF Receive, At, IInv, RequestOK
  <1>2. tx' = [tx EXCEPT ![r] = NoAttempt]
    BY <1>1 DEF Receive, IInv, TypeOK
  <1> QED
    BY <1>2, EndKeeps DEF Receive, Goto, IInv, TypeOK

LEMMA RetryKeeps ==
  ASSUME IInv, NEW r \in Req, Retry(r)
  PROVE  IInv'
  <1>1. asked' \in Nat /\ view' \in [Req -> StocktakeDoc]
    BY DEF Retry, IInv, TypeOK
  <1> QED
    BY <1>1, EndKeeps DEF Retry, Goto

LEMMA FailKeeps ==
  ASSUME IInv, NEW r \in Req, Fail(r)
  PROVE  IInv'
  <1>1. view' \in [Req -> StocktakeDoc]
    BY Nulls DEF Fail, IInv, TypeOK
  <1> QED
    BY <1>1, EndKeeps DEF Fail, Goto, IInv, TypeOK

\* What a commit writes for the items that move.
LEMMA Results ==
  ASSUME IInv, NEW r \in Req, pc[r] = "tx", ~tx[r].stale
  PROVE  /\ tx[r].moved \subseteq Item /\ ItemsWritten(r) \subseteq tx[r].moved
         /\ \A i \in tx[r].moved : NewStock(r, i) \in Nat /\ Movement(r, i) \in Row
         /\ \A i \in Item, w \in Warehouse :
              <<i, w>> \in BalancesWritten(r) => NewBalance(r, i, w) \in Nat
  <1>1. Checked(r) /\ Fresh(r) /\ Fits(r)
    BY DEF IInv, RequestOK
  <1>2. tx[r] \in Attempt /\ input[r] \in Input
    BY DEF IInv, TypeOK
  <1>3. /\ tx[r].moved \subseteq Item
        /\ \A i \in Item : Found(r, i) \in Nat /\ \A w \in Warehouse : FoundIn(r, i, w) \in Nat
        /\ input[r].quantity \in Nat /\ KeyOf(r) \in Key \cup {NoKey}
    <2>1. Quantity \cup {0} \subseteq Nat
      BY InventoryAssumption
    <2> QED
      BY <1>2, <2>1 DEF Attempt, Input, Found, FoundIn, KeyOf
  <1>4. ItemsWritten(r) \subseteq tx[r].moved
    BY DEF ItemsWritten
  <1>5. CASE Kind(r) = "apply"
    <2>1. /\ Counted(r).warehouse \in Warehouse
          /\ \A i \in DOMAIN Counted(r).lines : Counted(r).lines[i] \in Nat
          /\ tx[r].moved \subseteq DOMAIN Counted(r).lines
      BY <1>1, <1>5, StocktakeTypes DEF Fits, Fresh, Counted
    <2>2. \A i \in tx[r].moved : NewStock(r, i) \in Nat
      BY <1>1, <1>3, <1>5, <2>1 DEF Fresh, NewStock
    <2>3. \A i \in tx[r].moved : Movement(r, i) \in Row
      BY <1>3, <1>5, <2>2 DEF Movement, Row
    <2>4. \A i \in Item, w \in Warehouse :
            <<i, w>> \in BalancesWritten(r) => NewBalance(r, i, w) \in Nat
      BY <1>5, <2>1 DEF BalancesWritten, NewBalance
    <2> QED
      BY <1>3, <1>4, <2>2, <2>3, <2>4
  <1>6. CASE Kind(r) # "apply"
    <2>1. tx[r].moved = {ItemOf(r)} /\ ItemOf(r) \in Item
          /\ Kind(r) \in {"in", "out", "exit", "transfer"}
      BY <1>1, <1>6 DEF Checked, Fits
    <2>2. NewStock(r, ItemOf(r)) \in Nat
      BY <1>1, <1>3, <2>1 DEF Checked, NewStock
    <2>3. Movement(r, ItemOf(r)) \in Row
      BY <1>3, <2>1, <2>2 DEF Movement, Row
    <2>4. \A i \in Item, w \in Warehouse :
            <<i, w>> \in BalancesWritten(r) => NewBalance(r, i, w) \in Nat
      <3> SUFFICES ASSUME NEW i \in Item, NEW w \in Warehouse, <<i, w>> \in BalancesWritten(r)
                   PROVE  NewBalance(r, i, w) \in Nat
        OBVIOUS
      <3>1. Kind(r) \in {"exit", "transfer"} /\ i = ItemOf(r)
        BY <2>1 DEF BalancesWritten
      <3> QED
        BY <1>1, <1>3, <2>1, <3>1 DEF Checked, NewBalance
    <2> QED
      BY <1>3, <1>4, <2>1, <2>2, <2>3, <2>4
  <1> QED
    BY <1>5, <1>6

\* A commit writes the status of the stocktake it applies and no other.
LEMMA CommitStocktakes ==
  ASSUME IInv, NEW r \in Req, Commit(r)
  PROVE  /\ stocktake' \in [Stocktake -> StocktakeDoc]
         /\ \A s \in Stocktake :
              /\ stocktake'[s].warehouse = stocktake[s].warehouse
              /\ stocktake'[s].lines = stocktake[s].lines
              /\ stocktake'[s].status \in {stocktake[s].status, "applied"}
              /\ ~(Kind(r) = "apply" /\ s = StocktakeOf(r)) => stocktake'[s] = stocktake[s]
         /\ Kind(r) = "apply" =>
              /\ StocktakeOf(r) \in Stocktake /\ Counted(r).status \in Open
              /\ stocktake'[StocktakeOf(r)].status = "applied"
  <1>0. stocktake \in [Stocktake -> StocktakeDoc]
    BY DEF IInv, TypeOK
  <1>1. CASE Kind(r) # "apply"
    BY <1>0, <1>1 DEF Commit
  <1>2. CASE Kind(r) = "apply"
    <2> DEFINE t == StocktakeOf(r)
               new == [stocktake[t] EXCEPT !.status = "applied"]
    <2>1. t \in Stocktake /\ Counted(r).status \in Open
      BY <1>2 DEF Commit, At, IInv, RequestOK, Fits, Fresh
    <2>2. stocktake' = [stocktake EXCEPT ![t] = new]
      BY <1>2 DEF Commit
    <2>3. /\ new \in StocktakeDoc /\ new.warehouse = stocktake[t].warehouse
          /\ new.lines = stocktake[t].lines /\ new.status = "applied"
      BY <1>0, <2>1 DEF StocktakeDoc, Closed
    <2> HIDE DEF new
    <2>4. /\ stocktake' \in [Stocktake -> StocktakeDoc] /\ stocktake'[t] = new
          /\ \A s \in Stocktake : s # t => stocktake'[s] = stocktake[s]
      BY <1>0, <2>1, <2>2, <2>3
    <2> QED
      BY <1>2, <2>1, <2>3, <2>4
  <1> QED
    BY <1>1, <1>2

LEMMA CommitTypes ==
  ASSUME IInv, NEW r \in Req, Commit(r)
  PROVE  TypeOK'
  <1>1. pc[r] = "tx" /\ ~tx[r].stale
    BY DEF Commit, At
  <1>2. stock' \in [Item -> Nat]
    <2>1. \A i \in Item : (IF i \in ItemsWritten(r) THEN NewStock(r, i) ELSE stock[i]) \in Nat
      BY <1>1, Results DEF IInv, TypeOK
    <2> QED
      BY <2>1 DEF Commit
  <1>3. balance' \in [Item -> [Warehouse -> Nat]]
    <2>1. \A i \in Item, w \in Warehouse :
            (IF <<i, w>> \in BalancesWritten(r) THEN NewBalance(r, i, w) ELSE balance[i][w]) \in Nat
      BY <1>1, Results DEF IInv, TypeOK
    <2> QED
      BY <2>1 DEF Commit
  <1>4. ledger' \in [Item -> Seq(Row)]
    <2>1. \A i \in Item :
            (IF i \in tx[r].moved THEN Append(ledger[i], Movement(r, i)) ELSE ledger[i]) \in Seq(Row)
      BY <1>1, Results DEF IInv, TypeOK
    <2> QED
      BY <2>1 DEF Commit
  <1>5. stocktake' \in [Stocktake -> StocktakeDoc]
    BY CommitStocktakes
  <1>6. tx' \in [Req -> Attempt]
    <2>1. Stale({q \in Req : Clash(q, r)}) \in [Req -> Attempt]
      BY StaleType
    <2> QED
      BY <2>1, Nulls DEF Commit
  <1>7. input' \in [Req -> Input] /\ pc' \in [Req -> {"idle", "begin", "tx", "save"}]
    BY Nulls DEF Commit, Goto, IInv, TypeOK
  <1> QED
    BY <1>2, <1>3, <1>4, <1>5, <1>6, <1>7 DEF Commit, IInv, TypeOK

\* The movements a commit adds carry the key of the request.
LEMMA NewRows ==
  ASSUME IInv, NEW r \in Req, Commit(r), NEW k, Recorded(k)'
  PROVE  Recorded(k) \/ k = KeyOf(r)
  <1>0. PICK i \in Item : \E n \in DOMAIN ledger'[i] : ledger'[i][n].key = k
    BY DEF Recorded
  <1>1. PICK n \in DOMAIN ledger'[i] : ledger'[i][n].key = k
    BY <1>0
  <1>2. CASE i \in tx[r].moved
    <2>1. ledger'[i] = Append(ledger[i], Movement(r, i)) /\ ledger[i] \in Seq(Row)
      BY <1>2 DEF Commit, IInv, TypeOK
    <2>2. \/ n \in DOMAIN ledger[i] /\ ledger'[i][n] = ledger[i][n]
          \/ ledger'[i][n] = Movement(r, i)
      BY <1>1, <2>1
    <2>3. Movement(r, i).key = KeyOf(r)
      BY DEF Movement
    <2> QED
      BY <1>1, <2>2, <2>3 DEF Recorded
  <1>3. CASE i \notin tx[r].moved
    BY <1>1, <1>3 DEF Recorded, Commit
  <1> QED
    BY <1>2, <1>3

LEMMA CommitKeeps ==
  ASSUME IInv, NEW r \in Req, Commit(r)
  PROVE  IInv'
  <1>1. StocktakesLocated'
    <2>1. \A s \in Stocktake :
            /\ stocktake'[s].warehouse = stocktake[s].warehouse
            /\ stocktake'[s] # stocktake[s] => stocktake[s].status \in Open
      BY CommitStocktakes DEF Counted
    <2> QED
      BY <2>1 DEF IInv, StocktakesLocated, Open
  <1>2. ASSUME NEW q \in Req \ {r} PROVE RequestOK(q)'
    <2> DEFINE hit == {p \in Req : Clash(p, r)}
    <2>1. Stale(hit) \in [Req -> Attempt]
      BY StaleType
    <2>2. tx'[q] = Stale(hit)[q] /\ input'[q] = input[q] /\ pc'[q] = pc[q]
      BY <2>1 DEF Commit, Goto, IInv, TypeOK
    <2> HIDE DEF hit
    <2>3. /\ tx'[q].moved = tx[q].moved /\ tx'[q].stock = tx[q].stock
          /\ tx'[q].balance = tx[q].balance
          /\ pc[q] # "tx" => tx'[q] = tx[q]
          /\ pc[q] = "tx" /\ ~tx'[q].stale => ~tx[q].stale /\ q \notin hit
      BY <2>2, StaleType
    <2>4. ASSUME q \notin hit, NEW i \in ItemsWritten(q)
          PROVE  stock'[i] = stock[i] /\ (i \in active => i \in active')
      <3>1. i \in Item
        BY DEF IInv, TypeOK, Attempt, ItemsWritten
      <3>2. i \notin ItemsWritten(r)
        BY <2>4 DEF hit, Clash
      <3> QED
        BY <3>1, <3>2 DEF Commit
    <2>5. ASSUME q \notin hit, KeyOf(q) # NoKey, Recorded(KeyOf(q))' PROVE Recorded(KeyOf(q))
      <3>1. KeyOf(q)' = KeyOf(q) /\ KeyOf(q) # KeyOf(r)
        BY <2>2, <2>5 DEF hit, Clash, KeyOf
      <3>2. \A k : Recorded(k)' => Recorded(k) \/ k = KeyOf(r)
        BY NewRows
      <3> QED
        BY <2>5, <3>1, <3>2 DEF Recorded
    <2>6. ASSUME q \notin hit, Kind(q) = "apply"
          PROVE  stocktake'[StocktakeOf(q)] = stocktake[StocktakeOf(q)]
      BY <2>6 DEF hit, Clash, Commit, IInv, TypeOK
    <2>7. \A s \in Stocktake : stocktake[s].status # "none" => stocktake'[s].status # "none"
      BY CommitStocktakes
    <2> QED
      BY <2>2, <2>3, <2>4, <2>5, <2>6, <2>7, OtherKept
  <1>3. RequestOK(r)'
    <2>1. Stale({q \in Req : Clash(q, r)}) \in [Req -> Attempt]
      BY StaleType
    <2>2. tx'[r] = NoAttempt /\ pc'[r] = "idle" /\ input'[r] = NoInput
      BY <2>1 DEF Commit, Goto, IInv, TypeOK
    <2> QED
      BY <2>2 DEF RequestOK, Fits, Kind, NoInput
  <1> QED
    BY <1>1, <1>2, <1>3, CommitTypes DEF IInv

LEMMA CreateKeeps ==
  ASSUME IInv, NEW s \in Stocktake, NEW w \in Warehouse, NEW lines \in Lines,
         CreateStocktake(s, w, lines)
  PROVE  IInv'
  <1>1. [status |-> "draft", warehouse |-> w, lines |-> lines, version |-> 0] \in StocktakeDoc
    BY DEF StocktakeDoc, Open
  <1>2. TypeOK'
    BY <1>1 DEF CreateStocktake, IInv, TypeOK
  <1>3. StocktakesLocated'
    BY DEF CreateStocktake, IInv, TypeOK, StocktakesLocated
  <1>4. ASSUME NEW q \in Req PROVE RequestOK(q)'
    <2>1. Recorded(KeyOf(q))' => Recorded(KeyOf(q))
      BY DEF CreateStocktake, Recorded, KeyOf
    <2>2. pc[q] = "tx" /\ ~tx[q].stale /\ Kind(q) = "apply" => StocktakeOf(q) # s
      BY DEF IInv, RequestOK, Fresh, Counted, CreateStocktake, Open
    <2>3. pc[q] = "tx" /\ ~tx[q].stale /\ Kind(q) = "apply" =>
            stocktake'[StocktakeOf(q)] = stocktake[StocktakeOf(q)]
      BY <2>2 DEF IInv, TypeOK, RequestOK, Fits, CreateStocktake
    <2> QED
      BY <2>1, <2>3, OtherKept DEF CreateStocktake
  <1> QED
    BY <1>2, <1>3, <1>4 DEF IInv

\* A save leaves an unchanged stocktake to the attempts it does not make stale.
LEMMA SaveKeeps ==
  ASSUME IInv, NEW r \in Req, NEW status \in Open \cup Closed, NEW lines \in Lines,
         pc[r] = "save", Save(r, status, lines)
  PROVE  IInv'
  <1> DEFINE s == StocktakeOf(r)
             readers == {q \in Req : Kind(q) = "apply" /\ StocktakeOf(q) = s}
             written == lines # view[r].lines \/ status # view[r].status
  <1>1. s \in Stocktake
    BY DEF IInv, RequestOK, Fits
  <1>2. /\ tx' = IF written THEN Stale(readers) ELSE tx
        /\ input' = [input EXCEPT ![r] = NoInput]
        /\ pc' = [pc EXCEPT ![r] = "idle"]
        /\ UNCHANGED <<stock, active, balance, ledger, asked>>
    BY DEF Save, Goto
  <1>3. /\ stocktake' \in [Stocktake -> StocktakeDoc]
        /\ \A t \in Stocktake : t # s => stocktake'[t] = stocktake[t]
        /\ ~written => stocktake' = stocktake
        /\ stocktake'[s].warehouse = stocktake[s].warehouse
        /\ stocktake'[s].status \in {status, stocktake[s].status}
    <2> DEFINE old == stocktake[s]
               newStatus == IF status # view[r].status THEN status ELSE old.status
               newLines == IF lines # view[r].lines THEN lines ELSE old.lines
               newVersion == IF lines # view[r].lines THEN old.version + 1 ELSE old.version
               new == [old EXCEPT !.status = newStatus, !.lines = newLines,
                                  !.version = newVersion]
    <2>1. stocktake \in [Stocktake -> StocktakeDoc] /\ old \in StocktakeDoc
      BY <1>1 DEF IInv, TypeOK
    <2>2. stocktake' = [stocktake EXCEPT ![s] = new]
      BY DEF Save, Saved
    <2>3. newStatus \in {"none"} \cup Open \cup Closed /\ newLines \in Lines /\ newVersion \in Nat
      BY <2>1 DEF StocktakeDoc
    <2>4. ~written => newStatus = old.status /\ newLines = old.lines /\ newVersion = old.version
      OBVIOUS
    <2> HIDE DEF newStatus, newLines, newVersion
    <2>5. new \in StocktakeDoc /\ new.warehouse = old.warehouse /\ new.status = newStatus
      BY <2>1, <2>3 DEF StocktakeDoc
    <2>6. ~written => new = old
      BY <2>1, <2>4 DEF StocktakeDoc
    <2>7. new.status \in {status, old.status}
      BY <2>5 DEF newStatus
    <2> HIDE DEF new
    <2> QED
      BY <1>1, <2>1, <2>2, <2>5, <2>6, <2>7
  <1>4. tx' \in [Req -> Attempt]
    BY <1>2, StaleType DEF IInv, TypeOK
  <1>5. TypeOK'
    <2>1. view' \in [Req -> StocktakeDoc] /\ input' \in [Req -> Input]
      BY Nulls DEF Save, IInv, TypeOK
    <2> QED
      BY <1>2, <1>3, <1>4, <2>1 DEF IInv, TypeOK
  <1>6. StocktakesLocated'
    <2>1. stocktake[s].status # "none"
      BY DEF IInv, RequestOK, Counted
    <2> QED
      BY <1>1, <1>3, <2>1 DEF IInv, StocktakesLocated
  <1>7. \A t \in Stocktake : stocktake[t].status # "none" => stocktake'[t].status # "none"
    <2>1. stocktake'[s].status # "none"
      <3>1. stocktake[s] \in StocktakeDoc /\ stocktake[s].status # "none"
        BY <1>1 DEF IInv, TypeOK, RequestOK, Counted
      <3> QED
        BY <1>3, <3>1 DEF Open, Closed
    <2> QED
      BY <1>3, <2>1
  <1>8. ASSUME NEW q \in Req \ {r} PROVE RequestOK(q)'
    <2>1. pc'[q] = pc[q] /\ input'[q] = input[q]
      BY <1>2 DEF IInv, TypeOK
    <2>2. Recorded(KeyOf(q))' => Recorded(KeyOf(q))
      BY <1>2, <2>1 DEF Recorded, KeyOf
    <2>3. /\ tx'[q].moved = tx[q].moved /\ tx'[q].stock = tx[q].stock
          /\ tx'[q].balance = tx[q].balance
          /\ pc[q] # "tx" => tx'[q] = tx[q]
          /\ pc[q] = "tx" /\ ~tx'[q].stale => ~tx[q].stale /\ (written => q \notin readers)
      BY <1>2, StaleType
    <2>4. pc[q] = "tx" /\ ~tx'[q].stale /\ Kind(q) = "apply" =>
            stocktake'[StocktakeOf(q)] = stocktake[StocktakeOf(q)]
      BY <1>3, <2>3 DEF IInv, RequestOK, Fits
    <2> HIDE DEF written, readers, s
    <2> QED
      BY <1>2, <1>7, <2>1, <2>2, <2>3, <2>4, OtherKept
  <1>9. RequestOK(r)'
    <2>1. pc'[r] = "idle" /\ input'[r] = NoInput /\ tx'[r] = NoAttempt
      BY <1>2, StaleType DEF IInv, TypeOK, RequestOK
    <2> QED
      BY <2>1 DEF RequestOK, Fits, Kind, NoInput
  <1> QED
    BY <1>5, <1>6, <1>8, <1>9 DEF IInv

LEMMA DeleteKeeps ==
  ASSUME IInv, NEW i \in Item, DeleteItem(i)
  PROVE  IInv'
  <1> DEFINE hit == {q \in Req : i \in ItemsWritten(q)}
  <1>1. tx' = Stale(hit)
    BY DEF DeleteItem
  <1> HIDE DEF hit
  <1>2. TypeOK'
    BY <1>1, StaleType DEF DeleteItem, IInv, TypeOK
  <1>3. StocktakesLocated'
    BY DEF DeleteItem, IInv, StocktakesLocated
  <1>4. ASSUME NEW q \in Req PROVE RequestOK(q)'
    <2>1. Recorded(KeyOf(q))' => Recorded(KeyOf(q))
      BY DEF DeleteItem, Recorded, KeyOf
    <2>2. /\ tx'[q].moved = tx[q].moved /\ tx'[q].stock = tx[q].stock
          /\ tx'[q].balance = tx[q].balance
          /\ pc[q] # "tx" => tx'[q] = tx[q]
          /\ pc[q] = "tx" /\ ~tx'[q].stale => ~tx[q].stale /\ q \notin hit
      BY <1>1, StaleType
    <2>3. pc[q] = "tx" /\ ~tx'[q].stale =>
            \A j \in ItemsWritten(q) : stock'[j] = stock[j] /\ (j \in active => j \in active')
      BY <2>2 DEF DeleteItem, hit
    <2> QED
      BY <2>1, <2>2, <2>3, OtherKept DEF DeleteItem
  <1> QED
    BY <1>2, <1>3, <1>4 DEF IInv

LEMMA SetWarehouseKeeps ==
  ASSUME IInv, NEW w \in Warehouse, NEW isActive \in BOOLEAN, SetWarehouse(w, isActive)
  PROVE  IInv'
  <1>1. TypeOK'
    BY DEF SetWarehouse, IInv, TypeOK
  <1>2. StocktakesLocated'
    BY DEF SetWarehouse, IInv, StocktakesLocated
  <1>3. ASSUME NEW q \in Req PROVE RequestOK(q)'
    <2>1. Recorded(KeyOf(q))' => Recorded(KeyOf(q))
      BY DEF SetWarehouse, Recorded, KeyOf
    <2>2. ItemsWritten(q) \subseteq Item
      BY DEF IInv, TypeOK, Attempt, ItemsWritten
    <2>3. \A j \in Item : j \in active => j \in active'
      BY InventoryAssumption DEF SetWarehouse
    <2> QED
      BY <2>1, <2>2, <2>3, OtherKept DEF SetWarehouse
  <1> QED
    BY <1>1, <1>2, <1>3 DEF IInv

LEMMA StepKeeps == IInv /\ [Next]_vars => IInv'
  <1> SUFFICES ASSUME IInv, [Next]_vars PROVE IInv'
    OBVIOUS
  <1>1. ASSUME NEW r \in Req, Arrive(r) PROVE IInv'
    BY <1>1, ArriveKeeps
  <1>2. ASSUME NEW r \in Req, Begin(r) PROVE IInv'
    BY <1>2, MoveBeginKeeps, ExitBeginKeeps, TransferBeginKeeps, ReceiveKeeps, ApplyBeginKeeps
       DEF Begin
  <1>3. ASSUME NEW r \in Req, Commit(r) \/ Retry(r) \/ Fail(r) PROVE IInv'
    BY <1>3, CommitKeeps, RetryKeeps, FailKeeps
  <1>4. ASSUME NEW r \in Req, NEW lines \in Lines, CountSave(r, lines) PROVE IInv'
    BY <1>4, SaveKeeps DEF CountSave, At, Open
  <1>5. ASSUME NEW r \in Req, CancelSave(r) PROVE IInv'
    <2>1. view[r].lines \in Lines
      BY DEF IInv, TypeOK, StocktakeDoc
    <2> QED
      BY <1>5, <2>1, SaveKeeps DEF CancelSave, At, Closed
  <1>6. ASSUME NEW s \in Stocktake, NEW w \in Warehouse, NEW lines \in Lines,
               CreateStocktake(s, w, lines)
        PROVE  IInv'
    BY <1>6, CreateKeeps
  <1>7. ASSUME NEW i \in Item, DeleteItem(i) PROVE IInv'
    BY <1>7, DeleteKeeps
  <1>8. ASSUME NEW w \in Warehouse, NEW isActive \in BOOLEAN, SetWarehouse(w, isActive)
        PROVE  IInv'
    BY <1>8, SetWarehouseKeeps
  <1>9. CASE UNCHANGED vars
    <2>1. TypeOK' /\ StocktakesLocated'
      BY <1>9 DEF vars, IInv, TypeOK, StocktakesLocated
    <2>2. ASSUME NEW q \in Req PROVE RequestOK(q)'
      <3>1. Recorded(KeyOf(q))' => Recorded(KeyOf(q))
        BY <1>9 DEF vars, Recorded, KeyOf
      <3> QED
        BY <1>9, <3>1, OtherKept DEF vars
    <2> QED
      BY <2>1, <2>2 DEF IInv
  <1> QED
    BY <1>1, <1>2, <1>3, <1>4, <1>5, <1>6, <1>7, <1>8, <1>9 DEF Next

THEOREM InventoryInvariant == Spec => []IInv
  BY InitIInv, StepKeeps, PTL DEF Spec

-----------------------------------------------------------------------------
(* Stocks, balances and the ledger change by commits alone.                 *)

LEMMA OnlyCommitsMove ==
  ASSUME Next
  PROVE  (\E r \in Req : Commit(r)) \/ UNCHANGED <<stock, balance, ledger>>
  <1>1. ASSUME NEW r \in Req, Arrive(r) PROVE UNCHANGED <<stock, balance, ledger>>
    <2>1. ASSUME NEW request, Ask(r, request) PROVE UNCHANGED <<stock, balance, ledger>>
      BY <2>1 DEF Ask, docs
    <2> QED
      BY <1>1, <2>1 DEF Arrive, Load, docs
  <1>2. ASSUME NEW r \in Req, Begin(r) \/ Retry(r) \/ Fail(r)
        PROVE  UNCHANGED <<stock, balance, ledger>>
    BY <1>2 DEF Begin, MoveBegin, ExitBegin, TransferBegin, Receive, ApplyBegin, Attempts,
                Retry, Fail, docs
  <1> QED
    BY <1>1, <1>2 DEF Next, CountSave, CancelSave, Save, CreateStocktake, DeleteItem, SetWarehouse

\* Nothing but the commit of its application makes a stocktake applied.
LEMMA OnlyCommitsApply ==
  ASSUME IInv, Next, NEW s \in Stocktake, stocktake[s].status # "applied",
         stocktake'[s].status = "applied"
  PROVE  \E r \in Req : Commit(r) /\ Kind(r) = "apply" /\ StocktakeOf(r) = s
  <1> SUFFICES ASSUME ~ \E r \in Req : Commit(r)
               PROVE  FALSE
    <2>1. ASSUME NEW r \in Req, Commit(r) PROVE Kind(r) = "apply" /\ StocktakeOf(r) = s
      BY <2>1 DEF Commit, IInv, TypeOK
    <2> QED
      BY <2>1
  <1>1. stocktake'[s] # stocktake[s]
    OBVIOUS
  <1>2. ASSUME NEW r \in Req, Arrive(r) PROVE FALSE
    <2>1. ASSUME NEW request, Ask(r, request) PROVE stocktake' = stocktake
      BY <2>1 DEF Ask, docs
    <2> QED
      BY <1>1, <1>2, <2>1 DEF Arrive, Load, docs
  <1>3. ASSUME NEW r \in Req, Begin(r) \/ Retry(r) \/ Fail(r) PROVE FALSE
    BY <1>1, <1>3 DEF Begin, MoveBegin, ExitBegin, TransferBegin, Receive, ApplyBegin, Attempts,
                      Retry, Fail, docs
  <1>4. ASSUME NEW r \in Req, NEW status \in {"in_progress", "cancelled"}, NEW lines,
               Save(r, status, lines)
        PROVE  FALSE
    <2>1. Saved(stocktake[s], view[r], status, lines).status # "applied"
      BY DEF Saved, IInv, TypeOK, StocktakeDoc
    <2> QED
      BY <1>1, <1>4, <2>1 DEF Save, IInv, TypeOK
  <1>5. ASSUME NEW q \in Stocktake, NEW w \in Warehouse, NEW lines, CreateStocktake(q, w, lines)
        PROVE  FALSE
    BY <1>1, <1>5 DEF CreateStocktake, IInv, TypeOK
  <1> QED
    BY <1>1, <1>2, <1>3, <1>4, <1>5 DEF Next, CountSave, CancelSave, DeleteItem, SetWarehouse

\* The stock of a deleted item stays, for any number of requests: an attempt that
\* read the item as active is stale once the item is deleted.
THEOREM DeletedItemsKeepTheirStock == Spec => DeletedKeepsStock
  <1>1. IInv /\ [Next]_vars => [\A i \in Item : i \notin active => stock'[i] = stock[i]]_vars
    <2> SUFFICES ASSUME IInv, Next, NEW i \in Item, i \notin active
                 PROVE  stock'[i] = stock[i]
      BY DEF vars
    <2>1. ASSUME NEW r \in Req, Commit(r) PROVE stock'[i] = stock[i]
      <3>1. i \notin ItemsWritten(r)
        BY <2>1 DEF Commit, At, IInv, RequestOK, Fresh
      <3> QED
        BY <2>1, <3>1 DEF Commit
    <2> QED
      BY <2>1, OnlyCommitsMove
  <1> QED
    BY <1>1, InventoryInvariant, PTL DEF Spec, DeletedKeepsStock

\* A transfer at the end of a ledger does not disturb what the ledger explains.
LEMMA TransferExplains ==
  ASSUME NEW movements \in Seq(Row), NEW row \in Row, row.type = "transfer",
         NEW opening, NEW current, Explains(movements, opening, current)
  PROVE  Explains(Append(movements, row), opening, current)
  <1> DEFINE longer == Append(movements, row)
  <1>1. \A n \in DOMAIN movements : longer[n] = movements[n]
    OBVIOUS
  <1>2. DOMAIN longer = DOMAIN movements \cup {Len(movements) + 1}
        /\ longer[Len(movements) + 1] = row
    OBVIOUS
  <1> HIDE DEF longer
  <1>3. Moves(longer) = Moves(movements) /\ Moves(movements) \subseteq DOMAIN movements
    BY <1>1, <1>2 DEF Moves
  <1>4. \A n \in Moves(movements) : longer[n] = movements[n]
    BY <1>1, <1>3
  <1> QED
    BY <1>3, <1>4 DEF Explains, longer

\* A movement that found the current stock explains the one it left.
LEMMA MoveExplains ==
  ASSUME NEW movements \in Seq(Row), NEW row \in Row, row.type # "transfer",
         NEW opening, Explains(movements, opening, row.before)
  PROVE  Explains(Append(movements, row), opening, row.after)
  <1> DEFINE longer == Append(movements, row)
             M == Moves(movements)
             last == Len(movements) + 1
  <1>1. /\ DOMAIN movements \subseteq Nat /\ last \in Nat
        /\ \A n \in DOMAIN movements : longer[n] = movements[n] /\ n < last
        /\ DOMAIN longer = DOMAIN movements \cup {last} /\ longer[last] = row
    OBVIOUS
  <1> HIDE DEF longer, last
  <1>2. Moves(longer) = M \cup {last} /\ M \subseteq DOMAIN movements
    BY <1>1 DEF Moves
  <1>3. \A n \in M : longer[n] = movements[n] /\ n < last /\ n \in Nat
    BY <1>1, <1>2
  <1> HIDE DEF M
  <1>4. ASSUME NEW n \in M, \A m \in M \cup {last} : m >= n
        PROVE  longer[n].before = opening
    BY <1>3, <1>4 DEF Explains, M
  <1>5. ASSUME \A m \in M \cup {last} : m >= last
        PROVE  longer[last].before = opening
    <2>1. M = {}
      BY <1>1, <1>3, <1>5
    <2> QED
      BY <1>1, <2>1 DEF Explains, M
  <1>6. ASSUME NEW n \in M \cup {last}, \A m \in M \cup {last} : m <= n
        PROVE  longer[n].after = row.after
    BY <1>1, <1>3, <1>6
  <1>7. ASSUME NEW n \in M, NEW m \in M \cup {last}, m < n,
               \A k \in M \cup {last} : k <= m \/ k >= n
        PROVE  longer[n].before = longer[m].after
    <2>1. m \in M
      BY <1>1, <1>3, <1>7
    <2> QED
      BY <1>3, <1>7, <2>1 DEF Explains, M
  <1>8. ASSUME NEW m \in M \cup {last}, m < last,
               \A k \in M \cup {last} : k <= m \/ k >= last
        PROVE  longer[last].before = longer[m].after
    <2>1. m \in M /\ \A k \in M : k <= m
      BY <1>1, <1>3, <1>8
    <2> QED
      BY <1>1, <1>3, <2>1 DEF Explains, M
  <1> QED
    BY <1>2, <1>4, <1>5, <1>6, <1>7, <1>8 DEF Explains, longer

\* The ledger of every item leads from its initial stock to its current one, for any
\* number of requests: the found stock an undisturbed attempt writes down is still
\* the stock of the item when it commits.
THEOREM LedgersExplainStocks == Spec => []LedgerExplainsStock
  <1>1. Init => LedgerExplainsStock
    BY DEF Init, LedgerExplainsStock, Explains, Moves
  <1>2. IInv /\ LedgerExplainsStock /\ [Next]_vars => LedgerExplainsStock'
    <2> SUFFICES ASSUME IInv, LedgerExplainsStock, [Next]_vars, NEW i \in Item
                 PROVE  Explains(ledger'[i], Opening[i], stock'[i])
      BY DEF LedgerExplainsStock
    <2>1. Explains(ledger[i], Opening[i], stock[i]) /\ ledger[i] \in Seq(Row)
      BY DEF LedgerExplainsStock, IInv, TypeOK
    <2>2. CASE UNCHANGED <<stock, balance, ledger>>
      BY <2>1, <2>2
    <2>3. ASSUME NEW r \in Req, Commit(r) PROVE Explains(ledger'[i], Opening[i], stock'[i])
      <3>1. pc[r] = "tx" /\ ~tx[r].stale /\ Fresh(r) /\ Checked(r)
        BY <2>3 DEF Commit, At, IInv, RequestOK
      <3>2. CASE i \notin tx[r].moved
        <4>1. i \notin ItemsWritten(r)
          BY <3>2 DEF ItemsWritten
        <4> QED
          BY <2>1, <2>3, <3>2, <4>1 DEF Commit
      <3>3. CASE i \in tx[r].moved
        <4>1. Movement(r, i) \in Row /\ ledger'[i] = Append(ledger[i], Movement(r, i))
          BY <2>3, <3>1, <3>3, Results DEF Commit
        <4>2. CASE Kind(r) = "transfer"
          <5>1. Movement(r, i).type = "transfer" /\ stock'[i] = stock[i]
            BY <2>3, <4>2 DEF Movement, Commit, ItemsWritten
          <5> QED
            BY <2>1, <4>1, <5>1, TransferExplains
        <4>3. CASE Kind(r) # "transfer"
          <5>1. Movement(r, i).type # "transfer"
            BY <3>1, <4>3 DEF Movement, Checked
          <5>2. Movement(r, i).before = stock[i] /\ stock'[i] = Movement(r, i).after
            BY <2>3, <3>1, <3>3, <4>3 DEF Movement, Commit, ItemsWritten, Fresh
          <5> QED
            BY <2>1, <4>1, <5>1, <5>2, MoveExplains
        <4> QED
          BY <4>2, <4>3
      <3> QED
        BY <3>2, <3>3
    <2> QED
      BY <2>2, <2>3, OnlyCommitsMove DEF vars
  <1> QED
    BY <1>1, <1>2, InventoryInvariant, PTL DEF Spec

\* An idempotency key has one movement, for any number of requests that carry it and
\* whenever they looked it up.
THEOREM KeysMoveOnce == Spec => []KeyMovesOnce
  <1>1. Init => KeyMovesOnce
    BY DEF Init, KeyMovesOnce
  <1>2. IInv /\ KeyMovesOnce /\ [Next]_vars => KeyMovesOnce'
    <2> SUFFICES ASSUME IInv, KeyMovesOnce, [Next]_vars PROVE KeyMovesOnce'
      OBVIOUS
    <2>1. CASE UNCHANGED <<stock, balance, ledger>>
      BY <2>1 DEF KeyMovesOnce
    <2>2. ASSUME NEW r \in Req, Commit(r) PROVE KeyMovesOnce'
      <3> SUFFICES ASSUME NEW i \in Item, NEW j \in Item,
                          NEW m \in DOMAIN ledger'[i], NEW n \in DOMAIN ledger'[j],
                          ledger'[i][m].key = ledger'[j][n].key, ledger'[i][m].key # NoKey
                   PROVE  i = j /\ m = n
        BY DEF KeyMovesOnce
      <3>1. Fresh(r) /\ Checked(r) /\ Fits(r)
        BY <2>2 DEF Commit, At, IInv, RequestOK
      <3>2. \A k \in Item : ledger[k] \in Seq(Row)
        BY DEF IInv, TypeOK
      <3>3. \A k \in Item : \A l \in DOMAIN ledger'[k] :
              \/ l \in DOMAIN ledger[k] /\ ledger'[k][l] = ledger[k][l]
              \/ k \in tx[r].moved /\ l = Len(ledger[k]) + 1 /\ ledger'[k][l].key = KeyOf(r)
        <4> SUFFICES ASSUME NEW k \in Item, NEW l \in DOMAIN ledger'[k]
                     PROVE  \/ l \in DOMAIN ledger[k] /\ ledger'[k][l] = ledger[k][l]
                            \/ /\ k \in tx[r].moved /\ l = Len(ledger[k]) + 1
                               /\ ledger'[k][l].key = KeyOf(r)
          OBVIOUS
        <4>1. CASE k \notin tx[r].moved
          BY <2>2, <4>1 DEF Commit
        <4>2. CASE k \in tx[r].moved
          <5>1. ledger'[k] = Append(ledger[k], Movement(r, k)) /\ Movement(r, k).key = KeyOf(r)
            BY <2>2, <4>2 DEF Commit, Movement
          <5> QED
            BY <3>2, <4>2, <5>1
        <4> QED
          BY <4>1, <4>2
      <3>4. CASE ledger'[i][m].key = KeyOf(r)
        <4>1. ~Recorded(KeyOf(r)) /\ Kind(r) # "apply"
          BY <3>1, <3>4 DEF Fresh, Fits
        <4>2. i \in tx[r].moved /\ m = Len(ledger[i]) + 1
          BY <3>3, <3>4, <4>1 DEF Recorded
        <4>3. ledger'[j][n].key = KeyOf(r)
          BY <3>4
        <4>4. ~(n \in DOMAIN ledger[j] /\ ledger'[j][n] = ledger[j][n])
          BY <4>1, <4>3 DEF Recorded
        <4>5. j \in tx[r].moved /\ n = Len(ledger[j]) + 1
          BY <3>3, <4>4
        <4> QED
          BY <3>1, <4>1, <4>2, <4>5 DEF Checked
      <3>5. CASE ledger'[i][m].key # KeyOf(r)
        <4>1. /\ m \in DOMAIN ledger[i] /\ ledger'[i][m] = ledger[i][m]
              /\ n \in DOMAIN ledger[j] /\ ledger'[j][n] = ledger[j][n]
          BY <3>3, <3>5
        <4> QED
          BY <4>1 DEF KeyMovesOnce
      <3> QED
        BY <3>4, <3>5
    <2> QED
      BY <2>1, <2>2, OnlyCommitsMove DEF vars
  <1> QED
    BY <1>1, <1>2, InventoryInvariant, PTL DEF Spec

\* An adjustment applies a stocktake that is open at that moment and closes it, and an
\* application leaves the balances that were counted, for any number of counts,
\* cancelations and applications that race.
THEOREM AdjustmentsCloseStocktakes == Spec => AdjustsOpenStocktakes
  <1> DEFINE
    Adjusts == \A i \in Item :
      Len(ledger'[i]) > Len(ledger[i]) /\ ledger'[i][Len(ledger'[i])].type = "adjust" =>
      \E s \in Stocktake :
        /\ stocktake[s].status \in Open /\ stocktake'[s].status = "applied"
        /\ i \in DOMAIN stocktake[s].lines
    Leaves == \A s \in Stocktake :
      stocktake[s].status # "applied" /\ stocktake'[s].status = "applied" =>
      \A i \in DOMAIN stocktake[s].lines :
        balance'[i][stocktake[s].warehouse] = stocktake[s].lines[i]
  <1>1. IInv /\ Next => Adjusts
    <2> SUFFICES ASSUME IInv, Next, NEW i \in Item, Len(ledger'[i]) > Len(ledger[i]),
                        ledger'[i][Len(ledger'[i])].type = "adjust"
                 PROVE  \E s \in Stocktake :
                          /\ stocktake[s].status \in Open /\ stocktake'[s].status = "applied"
                          /\ i \in DOMAIN stocktake[s].lines
      OBVIOUS
    <2>0. ledger[i] \in Seq(Row)
      BY DEF IInv, TypeOK
    <2>1. PICK r \in Req : Commit(r)
      BY <2>0, OnlyCommitsMove
    <2>2. Fresh(r) /\ Checked(r)
      BY <2>1 DEF Commit, At, IInv, RequestOK
    <2>3. i \in tx[r].moved
      BY <2>0, <2>1 DEF Commit
    <2>4. Movement(r, i).type = "adjust"
      <3>1. ledger'[i] = Append(ledger[i], Movement(r, i))
        BY <2>1, <2>3 DEF Commit
      <3> QED
        BY <2>0, <3>1
    <2>5. Kind(r) = "apply"
      BY <2>2, <2>4 DEF Movement, Checked
    <2> DEFINE s == StocktakeOf(r)
    <2>6. /\ s \in Stocktake /\ stocktake[s].status \in Open
          /\ stocktake'[s].status = "applied" /\ i \in DOMAIN stocktake[s].lines
      BY <2>1, <2>2, <2>3, <2>5, CommitStocktakes DEF Fresh, Counted
    <2> QED
      BY <2>6
  <1>2. IInv /\ Next => Leaves
    <2> SUFFICES ASSUME IInv, Next, NEW s \in Stocktake, stocktake[s].status # "applied",
                        stocktake'[s].status = "applied", NEW i \in DOMAIN stocktake[s].lines
                 PROVE  balance'[i][stocktake[s].warehouse] = stocktake[s].lines[i]
      OBVIOUS
    <2>1. PICK r \in Req : Commit(r) /\ Kind(r) = "apply" /\ StocktakeOf(r) = s
      BY OnlyCommitsApply
    <2>2. stocktake[s].status \in Open
      BY <2>1 DEF Commit, At, IInv, RequestOK, Fresh, Counted
    <2>3. stocktake[s].warehouse \in Warehouse /\ i \in Item
      BY <2>2, StocktakeTypes
    <2>4. <<i, stocktake[s].warehouse>> \in BalancesWritten(r)
      BY <2>1 DEF BalancesWritten, Counted
    <2>5. balance'[i][stocktake[s].warehouse] = NewBalance(r, i, stocktake[s].warehouse)
      BY <2>1, <2>3, <2>4 DEF Commit
    <2> QED
      BY <2>1, <2>5 DEF NewBalance, Counted
  <1>3. IInv /\ [Next]_vars => [Adjusts /\ Leaves]_vars
    BY <1>1, <1>2
  <1> QED
    BY <1>3, InventoryInvariant, PTL DEF Spec, AdjustsOpenStocktakes

-----------------------------------------------------------------------------
(* Sums of functions.  The library's SumFunction is a CHOOSE of a function  *)
(* on the subsets of the domain; what it sums to is shown by the least set *)
(* that would disagree.                                                     *)

\* The element a sum over s takes first, and what h gives for s if it is the sum of f
\* over each smaller set.
Chosen(s) == CHOOSE x \in s : TRUE
Total(f, h, s) == IF s = {} THEN 0 ELSE f[Chosen(s)] + h[s \ {Chosen(s)}]

\* h is the sum of f over each subset of S.
Sums(f, S, h) == h = [s \in SUBSET S |-> Total(f, h, s)]

\* h for the subsets of U alone, and f without x.
Part(h, U) == [s \in SUBSET U |-> h[s]]
Without(f, x) == [y \in DOMAIN f \ {x} |-> f[y]]

\* What Sums says of each subset.
Steps(f, S, h) ==
  /\ h[{}] = 0
  /\ \A s \in SUBSET S : s # {} =>
       /\ Chosen(s) \in s
       /\ s \ {Chosen(s)} \in SUBSET s
       /\ s \ {Chosen(s)} # s
       /\ h[s] = f[Chosen(s)] + h[s \ {Chosen(s)}]

\* The sum of a function, unfolded.
LEMMA SumIsChosen ==
  ASSUME NEW f
  PROVE SumFunction(f) = (CHOOSE h : Sums(f, DOMAIN f, h))[DOMAIN f]
  BY Zenon DEF SumFunction, SumFunctionOnSet, FoldFunctionOnSet, MapThenFoldSet, Sums, Total, Chosen

\* A set that has elements has its chosen one.
LEMMA ChosenIn == \A s : s # {} => Chosen(s) \in s
  BY DEF Chosen

\* Among subsets of a finite set one has no smaller one: induction on finite sets.
LEMMA Smallest ==
  ASSUME NEW S, IsFiniteSet(S), NEW D, D \subseteq SUBSET S, D # {}
  PROVE  \E T \in D : \A U \in SUBSET T : U # T => U \notin D
  <1>1. /\ IsWellFoundedOn(StrictSubsetOrdering(S), FiniteSubsetsOf(S))
        /\ FiniteSubsetsOf(S) = SUBSET S
    BY FS_StrictSubsetOrderingWellFounded, FS_FiniteSubsetsOfFinite
  <1>2. \E T \in D : \A U \in D : ~ (<<U, T>> \in StrictSubsetOrdering(S))
    BY <1>1, WFMin
  <1>3. QED
    BY <1>2 DEF StrictSubsetOrdering

\* The sum over the empty set, and over a set by its chosen element.
LEMMA SumsAt ==
  ASSUME NEW f, NEW S, NEW h, Sums(f, S, h)
  PROVE  Steps(f, S, h)
  <1>1. h = [s \in SUBSET S |-> Total(f, h, s)]
    BY DEF Sums
  <1>2. \A s \in SUBSET S : h[s] = Total(f, h, s)
    <2> DEFINE H == [s \in SUBSET S |-> Total(f, h, s)]
    <2>1. \A s \in SUBSET S : H[s] = Total(f, h, s)
      OBVIOUS
    <2>2. h = H
      BY <1>1
    <2> HIDE DEF H
    <2> QED
      BY <2>1, <2>2
  <1>3. h[{}] = 0
    BY <1>2 DEF Total
  <1>4. ASSUME NEW s \in SUBSET S, s # {}
        PROVE  /\ Chosen(s) \in s
               /\ s \ {Chosen(s)} \in SUBSET s
               /\ s \ {Chosen(s)} # s
               /\ h[s] = f[Chosen(s)] + h[s \ {Chosen(s)}]
    <2>1. h[s] = f[Chosen(s)] + h[s \ {Chosen(s)}]
      BY <1>2, <1>4 DEF Total
    <2> QED
      BY <1>4, <2>1, ChosenIn
  <1> QED
    BY <1>3, <1>4 DEF Steps

\* The sums over the subsets of S are those over the subsets of a subset.
LEMMA SumsRestrict ==
  ASSUME NEW f, NEW T, NEW U \in SUBSET T, NEW h, Sums(f, T, h)
  PROVE  Sums(f, U, Part(h, U)) /\ Part(h, U)[U] = h[U]
  BY DEF Sums, Total, Part

\* There is one sum at most.
LEMMA SumsUnique ==
  ASSUME NEW f, NEW T, IsFiniteSet(T), NEW g, NEW h, Sums(f, T, g), Sums(f, T, h)
  PROVE  g = h
  <1> DEFINE D == {s \in SUBSET T : g[s] # h[s]}
  <1>1. ASSUME D # {} PROVE FALSE
    <2>0. D \subseteq SUBSET T /\ \A s \in SUBSET T : s \in D <=> g[s] # h[s]
      OBVIOUS
    <2> HIDE DEF D
    <2>1. PICK s \in D : \A u \in SUBSET s : u # s => u \notin D
      BY <1>1, <2>0, Smallest
    <2>2. s \in SUBSET T /\ g[s] # h[s]
      BY <2>0
    <2>3. s # {}
      BY <2>2, SumsAt DEF Steps
    <2>4. /\ s \ {Chosen(s)} \in SUBSET s /\ s \ {Chosen(s)} # s
          /\ g[s] = f[Chosen(s)] + g[s \ {Chosen(s)}]
          /\ h[s] = f[Chosen(s)] + h[s \ {Chosen(s)}]
      BY <2>2, <2>3, SumsAt DEF Steps
    <2>5. g[s \ {Chosen(s)}] = h[s \ {Chosen(s)}]
      BY <2>0, <2>1, <2>2, <2>4
    <2>6. QED
      BY <2>2, <2>4, <2>5
  <1>2. \A s \in SUBSET T : g[s] = h[s]
    BY <1>1
  <1>3. /\ DOMAIN g = SUBSET T /\ g = [s \in DOMAIN g |-> g[s]]
        /\ DOMAIN h = SUBSET T /\ h = [s \in DOMAIN h |-> h[s]]
    BY DEF Sums
  <1> QED
    BY <1>2, <1>3

\* There is a sum: it is built from those over the smaller sets.
LEMMA SumsExist ==
  ASSUME NEW f, NEW S, IsFiniteSet(S)
  PROVE  \E h : Sums(f, S, h)
  <1> DEFINE D == {T \in SUBSET S : ~ \E h : Sums(f, T, h)}
  <1> SUFFICES ASSUME D # {} PROVE FALSE
    OBVIOUS
  <1>0. D \subseteq SUBSET S /\ \A T \in SUBSET S : T \in D <=> ~ \E h : Sums(f, T, h)
    OBVIOUS
  <1> HIDE DEF D
  <1>1. PICK T \in D : \A U \in SUBSET T : U # T => U \notin D
    BY <1>0, Smallest
  <1>t. T \in SUBSET S /\ ~ \E h : Sums(f, T, h)
    BY <1>0
  <1> DEFINE Of(U) == CHOOSE h : Sums(f, U, h)
             Rest(s) == s \ {Chosen(s)}
             H == [s \in SUBSET T |-> IF s = {} THEN 0 ELSE f[Chosen(s)] + Of(Rest(s))[Rest(s)]]
  <1>2. ASSUME NEW U \in SUBSET T, U # T PROVE Sums(f, U, Of(U)) /\ IsFiniteSet(U)
    <2>1. \E h : Sums(f, U, h)
      BY <1>0, <1>1, <1>2, <1>t
    <2> QED
      BY <2>1, <1>t, FS_Subset
  <1>3. \A s \in SUBSET T : s # {} => Rest(s) \in SUBSET s /\ Rest(s) \in SUBSET T /\ Rest(s) # T
    BY ChosenIn
  <1>h. /\ H[{}] = 0
        /\ \A s \in SUBSET T : s # {} => H[s] = f[Chosen(s)] + Of(Rest(s))[Rest(s)]
    OBVIOUS
  <1>d. H = [s \in SUBSET T |-> H[s]]
    OBVIOUS
  <1> HIDE DEF Of, H
  <1>4. ASSUME NEW s \in SUBSET T, s # {} PROVE H[Rest(s)] = Of(Rest(s))[Rest(s)]
    <2> DEFINE u == Rest(s)
    <2>1. u \in SUBSET T /\ u # T
      BY <1>3, <1>4
    <2> HIDE DEF u
    <2>2. Sums(f, u, Of(u))
      BY <1>2, <2>1
    <2>3. ASSUME u = {} PROVE H[u] = Of(u)[u]
      <3>1. Of(u)[{}] = 0
        BY <2>2, SumsAt DEF Steps
      <3> QED
        BY <2>3, <3>1, <1>h
    <2>4. ASSUME u # {} PROVE H[u] = Of(u)[u]
      <3> DEFINE v == Rest(u)
      <3>1. v \in SUBSET u /\ v \in SUBSET T /\ v # T
        BY <1>3, <2>1, <2>4
      <3>6. Of(u)[u] = f[Chosen(u)] + Of(u)[v]
        BY <2>2, <2>4, SumsAt DEF Steps
      <3>7. H[u] = f[Chosen(u)] + Of(v)[v]
        BY <1>h, <2>1, <2>4
      <3> HIDE DEF v
      <3>2. Sums(f, v, Part(Of(u), v)) /\ Part(Of(u), v)[v] = Of(u)[v]
        BY <2>2, <3>1, SumsRestrict
      <3>3. Sums(f, v, Of(v)) /\ IsFiniteSet(v)
        BY <1>2, <3>1
      <3>5. Of(u)[v] = Of(v)[v]
        BY <3>2, <3>3, SumsUnique
      <3>8. QED
        BY <3>5, <3>6, <3>7
    <2>5. H[u] = Of(u)[u]
      BY <2>3, <2>4
    <2> QED
      BY <2>5 DEF u
  <1>5. \A s \in SUBSET T : H[s] = Total(f, H, s)
    BY <1>3, <1>4, <1>h DEF Total
  <1>6. H = [s \in SUBSET T |-> Total(f, H, s)]
    BY <1>5, <1>d
  <1>7. Sums(f, T, H)
    BY <1>6 DEF Sums
  <1> QED
    BY <1>t, <1>7

\* SumFunction is the sum over the domain.
LEMMA SumsIsSum ==
  ASSUME NEW f, IsFiniteSet(DOMAIN f)
  PROVE  \E h : Sums(f, DOMAIN f, h) /\ SumFunction(f) = h[DOMAIN f]
  <1>1. Sums(f, DOMAIN f, CHOOSE h : Sums(f, DOMAIN f, h))
    BY SumsExist
  <1> QED
    BY <1>1, SumIsChosen

\* A sum of integers is one.
LEMMA SumsInt ==
  ASSUME NEW S, IsFiniteSet(S), NEW f \in [S -> Int], NEW h, Sums(f, S, h)
  PROVE  \A s \in SUBSET S : h[s] \in Int
  <1>0. Steps(f, S, h)
    BY SumsAt
  <1> DEFINE D == {s \in SUBSET S : h[s] \notin Int}
  <1> SUFFICES ASSUME D # {} PROVE FALSE
    OBVIOUS
  <1>1. D \subseteq SUBSET S /\ \A s \in SUBSET S : s \in D <=> h[s] \notin Int
    OBVIOUS
  <1> HIDE DEF D
  <1>2. PICK s \in D : \A u \in SUBSET s : u # s => u \notin D
    BY <1>1, Smallest
  <1>3. s \in SUBSET S /\ h[s] \notin Int
    BY <1>1
  <1>4. s # {}
    BY <1>0, <1>3 DEF Steps
  <1>5. /\ Chosen(s) \in s /\ s \ {Chosen(s)} \in SUBSET s /\ s \ {Chosen(s)} # s
        /\ h[s] = f[Chosen(s)] + h[s \ {Chosen(s)}]
    BY <1>0, <1>3, <1>4 DEF Steps
  <1>6. h[s \ {Chosen(s)}] \in Int
    BY <1>1, <1>2, <1>3, <1>5
  <1>7. f[Chosen(s)] \in Int
    BY <1>3, <1>5
  <1> QED
    BY <1>3, <1>5, <1>6, <1>7

\* A sum may take any element first.
LEMMA SumsWithout ==
  ASSUME NEW S, IsFiniteSet(S), NEW f \in [S -> Int], NEW h, Sums(f, S, h)
  PROVE  \A s \in SUBSET S : \A x \in s : h[s] = f[x] + h[s \ {x}]
  <1> DEFINE D == {s \in SUBSET S : \E x \in s : h[s] # f[x] + h[s \ {x}]}
  <1> SUFFICES ASSUME D # {} PROVE FALSE
    OBVIOUS
  <1>1. D \subseteq SUBSET S
        /\ \A s \in SUBSET S : s \notin D => \A x \in s : h[s] = f[x] + h[s \ {x}]
    OBVIOUS
  <1>b. \A s \in D : \E x \in s : h[s] # f[x] + h[s \ {x}]
    OBVIOUS
  <1> HIDE DEF D
  <1>2. PICK s \in D : \A u \in SUBSET s : u # s => u \notin D
    BY <1>1, Smallest
  <1>3. s \in SUBSET S
    BY <1>1
  <1>4. PICK x \in s : h[s] # f[x] + h[s \ {x}]
    BY <1>b, Zenon
  <1> DEFINE p == Chosen(s)
  <1>5. /\ p \in s /\ h[s] = f[p] + h[s \ {p}]
    BY <1>3, <1>4, SumsAt DEF Steps
  <1> HIDE DEF p
  <1>6. p # x
    BY <1>4, <1>5
  <1>7. h[s \ {p}] = f[x] + h[(s \ {p}) \ {x}]
    <2>1. s \ {p} \in SUBSET s /\ s \ {p} # s /\ x \in s \ {p} /\ s \ {p} \in SUBSET S
      BY <1>3, <1>5, <1>6
    <2> QED
      BY <1>1, <1>2, <2>1
  <1>8. h[s \ {x}] = f[p] + h[(s \ {p}) \ {x}]
    <2>1. s \ {x} \in SUBSET s /\ s \ {x} # s /\ p \in s \ {x} /\ s \ {x} \in SUBSET S
      BY <1>3, <1>5, <1>6
    <2>2. (s \ {x}) \ {p} = (s \ {p}) \ {x}
      OBVIOUS
    <2>3. h[s \ {x}] = f[p] + h[(s \ {x}) \ {p}]
      BY <1>1, <1>2, <2>1
    <2> QED
      BY <2>2, <2>3
  <1>9. f[p] \in Int /\ f[x] \in Int /\ h[(s \ {p}) \ {x}] \in Int
    <2>1. (s \ {p}) \ {x} \in SUBSET S
      BY <1>3
    <2> QED
      BY <1>3, <1>5, <2>1, SumsInt
  <1>a. ASSUME NEW a \in Int, NEW b \in Int, NEW c \in Int PROVE a + (b + c) = b + (a + c)
    OBVIOUS
  <1> QED
    BY <1>4, <1>5, <1>7, <1>8, <1>9, <1>a

\* The sum of a function without one of its arguments.
LEMMA SumWithout ==
  ASSUME NEW S, IsFiniteSet(S), NEW f \in [S -> Int], NEW x \in S
  PROVE  /\ SumFunction(f) \in Int
         /\ SumFunction(Without(f, x)) \in Int
         /\ SumFunction(f) = f[x] + SumFunction(Without(f, x))
  <1> DEFINE U == S \ {x}
             g == Without(f, x)
  <1>1. IsFiniteSet(U) /\ U \in SUBSET S /\ g \in [U -> Int] /\ DOMAIN g = U /\ DOMAIN f = S
    BY FS_Subset DEF Without
  <1>g. \A y \in U : g[y] = f[y]
    BY DEF Without
  <1>2. PICK h : Sums(f, S, h) /\ SumFunction(f) = h[S]
    BY <1>1, SumsIsSum
  <1> HIDE DEF g
  <1>3. PICK k : Sums(g, U, k) /\ SumFunction(g) = k[U]
    BY <1>1, SumsIsSum
  <1>4. Sums(f, U, Part(h, U)) /\ Part(h, U)[U] = h[U]
    BY <1>1, <1>2, SumsRestrict
  <1>5. Sums(f, U, k)
    <2>0. k = [s \in SUBSET U |-> Total(g, k, s)]
      BY <1>3 DEF Sums
    <2>1. \A s \in SUBSET U : Total(f, k, s) = Total(g, k, s)
      BY <1>g, ChosenIn DEF Total
    <2>2. [s \in SUBSET U |-> Total(f, k, s)] = [s \in SUBSET U |-> Total(g, k, s)]
      BY <2>1
    <2> QED
      BY <2>0, <2>2 DEF Sums
  <1>7. k[U] = h[U]
    BY <1>1, <1>4, <1>5, SumsUnique
  <1>8. h[S] = f[x] + h[U]
    BY <1>2, SumsWithout
  <1>9. h[S] \in Int /\ h[U] \in Int
    BY <1>1, <1>2, SumsInt
  <1>10. SumFunction(g) = h[U]
    BY <1>3, <1>7
  <1> QED
    BY <1>2, <1>8, <1>9, <1>10 DEF g

\* A function of integers sums to one.
LEMMA SumInt ==
  ASSUME NEW S, IsFiniteSet(S), NEW f \in [S -> Int]
  PROVE  SumFunction(f) \in Int
  <1>1. DOMAIN f = S
    OBVIOUS
  <1>2. PICK h : Sums(f, S, h) /\ SumFunction(f) = h[S]
    BY <1>1, SumsIsSum
  <1> QED
    BY <1>2, SumsInt

\* A function of nothing sums to nothing.
LEMMA SumEmpty == ASSUME NEW f, DOMAIN f = {} PROVE SumFunction(f) = 0
  <1>1. PICK h : Sums(f, {}, h) /\ SumFunction(f) = h[{}]
    BY SumsIsSum, FS_EmptySet
  <1> QED
    BY <1>1, SumsAt DEF Steps

\* One value changes: the sum changes by as much.
LEMMA SumExcept ==
  ASSUME NEW S, IsFiniteSet(S), NEW f \in [S -> Int], NEW g \in [S -> Int], NEW x \in S,
         \A y \in S \ {x} : g[y] = f[y]
  PROVE  SumFunction(g) = SumFunction(f) + g[x] - f[x]
  <1>1. Without(g, x) = Without(f, x)
    BY DEF Without
  <1> DEFINE a == SumFunction(Without(g, x))
             b == SumFunction(Without(f, x))
  <1>2. a = b
    BY <1>1
  <1>3. SumFunction(g) = g[x] + a /\ a \in Int
    BY SumWithout
  <1>4. SumFunction(f) = f[x] + b /\ b \in Int
    BY SumWithout
  <1>5. f[x] \in Int /\ g[x] \in Int
    OBVIOUS
  <1> HIDE DEF a, b
  <1> QED
    BY <1>2, <1>3, <1>4, <1>5

-----------------------------------------------------------------------------

\* A sum with one more term.
LEMMA SumMore ==
  ASSUME NEW n \in Nat, NEW f \in [1..n -> Int], NEW g \in [1..(n + 1) -> Int],
         \A m \in 1..n : g[m] = f[m]
  PROVE  SumFunction(f) \in Int /\ SumFunction(g) = SumFunction(f) + g[n + 1]
  <1>0. n + 1 \in 1..(n + 1) /\ (1..(n + 1)) \ {n + 1} = 1..n /\ n + 1 \in Nat
    OBVIOUS
  <1>1. /\ n + 1 \in 1..(n + 1) /\ (1..(n + 1)) \ {n + 1} = 1..n
        /\ IsFiniteSet(1..n) /\ IsFiniteSet(1..(n + 1))
    BY <1>0, FS_Interval
  <1>2. Without(g, n + 1) = f
    BY <1>1 DEF Without
  <1>3. SumFunction(f) \in Int
    BY <1>1, SumInt
  <1>4. SumFunction(g) = g[n + 1] + SumFunction(f)
    BY <1>1, <1>2, SumWithout
  <1>5. g[n + 1] \in Int
    BY <1>1
  <1> QED
    BY <1>3, <1>4, <1>5

\* The difference of two sums is the sum of the differences.
LEMMA SumMinus ==
  ASSUME NEW S, IsFiniteSet(S), NEW f \in [S -> Int], NEW g \in [S -> Int],
         NEW d \in [S -> Int], \A x \in S : d[x] = f[x] - g[x]
  PROVE  SumFunction(d) = SumFunction(f) - SumFunction(g)
  <1> DEFINE On(e, T) == SumFunction([x \in T |-> e[x]])
             D == {T \in SUBSET S : On(d, T) # On(f, T) - On(g, T)}
  <1>1. On(d, S) = SumFunction(d) /\ On(f, S) = SumFunction(f) /\ On(g, S) = SumFunction(g)
    <2>1. [x \in S |-> d[x]] = d /\ [x \in S |-> f[x]] = f /\ [x \in S |-> g[x]] = g
      OBVIOUS
    <2> QED
      BY <2>1
  <1>2. ASSUME NEW T \in SUBSET S, NEW x \in T, NEW e \in [S -> Int]
        PROVE  /\ On(e, T) = e[x] + On(e, T \ {x})
               /\ e[x] \in Int /\ On(e, T \ {x}) \in Int
    <2> DEFINE part == [y \in T |-> e[y]]
    <2>1. IsFiniteSet(T) /\ part \in [T -> Int] /\ part[x] = e[x] /\ e[x] \in Int
      BY FS_Subset
    <2>2. Without(part, x) = [y \in T \ {x} |-> e[y]]
      BY DEF Without
    <2> HIDE DEF part
    <2>3. /\ SumFunction(Without(part, x)) \in Int
          /\ SumFunction(part) = part[x] + SumFunction(Without(part, x))
      BY <2>1, SumWithout
    <2> QED
      BY <2>1, <2>2, <2>3 DEF part
  <1>3. \A e : On(e, {}) = 0
    <2> TAKE e
    <2>1. DOMAIN [x \in {} |-> e[x]] = {}
      OBVIOUS
    <2> QED
      BY <2>1, SumEmpty
  <1> HIDE DEF On
  <1> SUFFICES ASSUME D # {} PROVE FALSE
    BY <1>1
  <1>4. D \subseteq SUBSET S /\ \A T \in SUBSET S : T \in D <=> On(d, T) # On(f, T) - On(g, T)
    OBVIOUS
  <1> HIDE DEF D
  <1>5. PICK T \in D : \A U \in SUBSET T : U # T => U \notin D
    BY <1>4, Smallest
  <1>6. T \in SUBSET S /\ T # {}
    <2>1. On(d, {}) = On(f, {}) - On(g, {})
      BY <1>3
    <2> QED
      BY <1>4, <1>5, <2>1
  <1>7. PICK x \in T : TRUE
    BY <1>6
  <1>8. /\ On(d, T) = d[x] + On(d, T \ {x}) /\ d[x] \in Int /\ On(d, T \ {x}) \in Int
        /\ On(f, T) = f[x] + On(f, T \ {x}) /\ f[x] \in Int /\ On(f, T \ {x}) \in Int
        /\ On(g, T) = g[x] + On(g, T \ {x}) /\ g[x] \in Int /\ On(g, T \ {x}) \in Int
    BY <1>2, <1>6, <1>7
  <1>9. On(d, T \ {x}) = On(f, T \ {x}) - On(g, T \ {x})
    <2>1. T \ {x} \in SUBSET T /\ T \ {x} # T /\ T \ {x} \in SUBSET S
      BY <1>6, <1>7
    <2> QED
      BY <1>4, <1>5, <2>1
  <1>10. d[x] = f[x] - g[x]
    BY <1>6, <1>7
  <1> QED
    BY <1>4, <1>5, <1>8, <1>9, <1>10

\* The sum of nothing but zeros.
LEMMA SumZero == SumFunction(Zero) = 0
  <1>1. /\ IsFiniteSet(Warehouse) /\ Zero \in [Warehouse -> Int] /\ DOMAIN Zero = Warehouse
        /\ \A w \in Warehouse : Zero[w] = 0
    BY InventoryAssumption DEF Zero
  <1>2. PICK h : Sums(Zero, Warehouse, h) /\ SumFunction(Zero) = h[Warehouse]
    BY <1>1, SumsIsSum
  <1>3. Steps(Zero, Warehouse, h)
    BY <1>2, SumsAt
  <1> DEFINE D == {s \in SUBSET Warehouse : h[s] # 0}
  <1> SUFFICES ASSUME D # {} PROVE FALSE
    BY <1>2
  <1>4. D \subseteq SUBSET Warehouse /\ \A s \in SUBSET Warehouse : s \in D <=> h[s] # 0
    OBVIOUS
  <1> HIDE DEF D
  <1>5. PICK s \in D : \A u \in SUBSET s : u # s => u \notin D
    BY <1>1, <1>4, Smallest
  <1>6. s \in SUBSET Warehouse /\ h[s] # 0 /\ s # {}
    BY <1>3, <1>4 DEF Steps
  <1>7. /\ Chosen(s) \in s /\ s \ {Chosen(s)} \in SUBSET s /\ s \ {Chosen(s)} # s
        /\ h[s] = Zero[Chosen(s)] + h[s \ {Chosen(s)}]
    BY <1>3, <1>6 DEF Steps
  <1>8. h[s \ {Chosen(s)}] = 0
    BY <1>4, <1>5, <1>6, <1>7
  <1>9. Zero[Chosen(s)] = 0
    BY <1>1, <1>6, <1>7
  <1> QED
    BY <1>6, <1>7, <1>8, <1>9

\* What the balances of an item add up to, and its movements of each sort.
Balances(i) == SumFunction(balance[i])
AllUnlocated(i) == UnlocatedAt(i, Len(ledger[i]))
AllLocated(i) == LocatedAt(i, Len(ledger[i]))

\* The balances of an item are what was located, and its stock is what was moved.
Adds(i) ==
  /\ Balances(i) = AllLocated(i)
  /\ stock[i] = Opening[i] + AllUnlocated(i) + AllLocated(i)

\* What an attempt that is not stale has read of the balances it writes is what they
\* hold, and the lines it does not adjust agree with theirs.
Exact(r) ==
  /\ Kind(r) = "transfer" => input[r].to \in Warehouse /\ input[r].from # input[r].to
  /\ pc[r] = "tx" /\ ~tx[r].stale =>
       \A i \in Item, w \in Warehouse : <<i, w>> \in BalancesWritten(r) =>
         balance[i][w] = IF i \in tx[r].moved THEN FoundIn(r, i, w) ELSE Counted(r).lines[i]

SumsInv == (\A i \in Item : Adds(i)) /\ \A r \in Req : Exact(r)

\* What movements add up to, and how one more or later ones change that.
LEMMA MovedTypes ==
  ASSUME NEW row \in Row
  PROVE  Unlocated(row) \in Int /\ Located(row) \in Int
  BY DEF Row, Unlocated, Located

LEMMA MovementsAdd ==
  ASSUME IInv, NEW i \in Item, NEW n \in 0..Len(ledger[i])
  PROVE  UnlocatedAt(i, n) \in Int /\ LocatedAt(i, n) \in Int
  <1>1. n \in Nat /\ \A m \in 1..n : ledger[i][m] \in Row
    BY DEF IInv, TypeOK
  <1>2. /\ [m \in 1..n |-> Unlocated(ledger[i][m])] \in [1..n -> Int]
        /\ [m \in 1..n |-> Located(ledger[i][m])] \in [1..n -> Int]
    BY <1>1, MovedTypes
  <1>3. IsFiniteSet(1..n)
    BY <1>1, FS_Interval
  <1> QED
    BY <1>2, <1>3, SumInt DEF UnlocatedAt, LocatedAt

LEMMA OneMoreMovement ==
  ASSUME IInv, NEW i \in Item, NEW row \in Row, ledger'[i] = Append(ledger[i], row)
  PROVE  /\ AllUnlocated(i)' = AllUnlocated(i) + Unlocated(row)
         /\ AllLocated(i)' = AllLocated(i) + Located(row)
  <1> DEFINE n == Len(ledger[i])
  <1>1. /\ n \in Nat /\ Len(ledger'[i]) = n + 1 /\ n + 1 \in 1..(n + 1)
        /\ \A m \in 1..n : m \in 1..(n + 1) /\ ledger[i][m] \in Row /\ ledger'[i][m] = ledger[i][m]
        /\ \A m \in 1..(n + 1) : ledger'[i][m] \in Row
        /\ ledger'[i][n + 1] = row
    BY DEF IInv, TypeOK
  <1>2. /\ AllUnlocated(i) = SumFunction([m \in 1..n |-> Unlocated(ledger[i][m])])
        /\ AllLocated(i) = SumFunction([m \in 1..n |-> Located(ledger[i][m])])
    BY DEF AllUnlocated, AllLocated, UnlocatedAt, LocatedAt
  <1>3. /\ AllUnlocated(i)' = SumFunction([m \in 1..(n + 1) |-> Unlocated(ledger'[i][m])])
        /\ AllLocated(i)' = SumFunction([m \in 1..(n + 1) |-> Located(ledger'[i][m])])
    BY <1>1 DEF AllUnlocated, AllLocated, UnlocatedAt, LocatedAt
  <1> HIDE DEF n
  <1>4. AllUnlocated(i)' = AllUnlocated(i) + Unlocated(row)
    <2> DEFINE a == [m \in 1..n |-> Unlocated(ledger[i][m])]
               b == [m \in 1..(n + 1) |-> Unlocated(ledger'[i][m])]
    <2>1. /\ a \in [1..n -> Int] /\ b \in [1..(n + 1) -> Int]
          /\ (\A m \in 1..n : b[m] = a[m]) /\ b[n + 1] = Unlocated(row)
      BY <1>1, MovedTypes
    <2> HIDE DEF a, b
    <2>2. SumFunction(b) = SumFunction(a) + b[n + 1]
      BY <1>1, <2>1, SumMore
    <2> QED
      BY <1>2, <1>3, <2>1, <2>2 DEF a, b
  <1>5. AllLocated(i)' = AllLocated(i) + Located(row)
    <2> DEFINE a == [m \in 1..n |-> Located(ledger[i][m])]
               b == [m \in 1..(n + 1) |-> Located(ledger'[i][m])]
    <2>1. /\ a \in [1..n -> Int] /\ b \in [1..(n + 1) -> Int]
          /\ (\A m \in 1..n : b[m] = a[m]) /\ b[n + 1] = Located(row)
      BY <1>1, MovedTypes
    <2> HIDE DEF a, b
    <2>2. SumFunction(b) = SumFunction(a) + b[n + 1]
      BY <1>1, <2>1, SumMore
    <2> QED
      BY <1>2, <1>3, <2>1, <2>2 DEF a, b
  <1> QED
    BY <1>4, <1>5

\* A commit that writes one balance of an item.
LEMMA OneBalance ==
  ASSUME IInv, IInv', NEW i \in Item, NEW w \in Warehouse,
         \A v \in Warehouse \ {w} : balance'[i][v] = balance[i][v]
  PROVE  Balances(i)' = Balances(i) + balance'[i][w] - balance[i][w]
  <1>1. balance[i] \in [Warehouse -> Int] /\ balance'[i] \in [Warehouse -> Int]
    BY DEF IInv, TypeOK
  <1>2. IsFiniteSet(Warehouse)
    BY InventoryAssumption
  <1> QED
    BY <1>1, <1>2, SumExcept DEF Balances

\* A commit that moves a quantity from one balance of an item to another.
LEMMA TwoBalances ==
  ASSUME IInv, IInv', NEW i \in Item, NEW v \in Warehouse, NEW w \in Warehouse, v # w,
         NEW n \in Int, balance'[i][v] = balance[i][v] - n, balance'[i][w] = balance[i][w] + n,
         \A u \in Warehouse \ {v, w} : balance'[i][u] = balance[i][u]
  PROVE  Balances(i)' = Balances(i)
  <1> DEFINE b == balance[i]
             c == balance'[i]
             m == [b EXCEPT ![v] = c[v]]
  <1>1. b \in [Warehouse -> Int] /\ c \in [Warehouse -> Int] /\ IsFiniteSet(Warehouse)
    BY InventoryAssumption DEF IInv, TypeOK
  <1>2. /\ c[v] = b[v] - n /\ c[w] = b[w] + n
        /\ \A u \in Warehouse \ {v, w} : c[u] = b[u]
    OBVIOUS
  <1>9. Balances(i) = SumFunction(b) /\ Balances(i)' = SumFunction(c)
    BY DEF Balances
  <1> HIDE DEF b, c
  <1>3. /\ m \in [Warehouse -> Int] /\ m[v] = c[v] /\ m[w] = b[w]
        /\ \A u \in Warehouse \ {v} : m[u] = b[u]
        /\ \A u \in Warehouse \ {w} : c[u] = m[u]
    BY <1>1, <1>2
  <1> HIDE DEF m
  <1>4. SumFunction(m) = SumFunction(b) + m[v] - b[v]
    BY <1>1, <1>3, SumExcept
  <1>5. SumFunction(c) = SumFunction(m) + c[w] - m[w]
    BY <1>1, <1>3, SumExcept
  <1>6. SumFunction(b) \in Int /\ SumFunction(m) \in Int /\ SumFunction(c) \in Int
    BY <1>1, <1>3, SumInt
  <1>7. b[v] \in Int /\ b[w] \in Int
    BY <1>1
  <1>8. SumFunction(c) = SumFunction(b)
    BY <1>2, <1>3, <1>4, <1>5, <1>6, <1>7
  <1> QED
    BY <1>8, <1>9

\* A commit moves what its movements say.
LEMMA CommitAdds ==
  ASSUME IInv, IInv', SumsInv, NEW r \in Req, Commit(r), NEW i \in Item
  PROVE  Adds(i)'
  <1> DEFINE row == Movement(r, i)
  <1>1. /\ AllUnlocated(i) \in Int /\ AllLocated(i) \in Int
        /\ stock[i] \in Int /\ Opening[i] \in Int
    <2>1. Len(ledger[i]) \in 0..Len(ledger[i]) /\ stock[i] \in Nat
      BY DEF IInv, TypeOK
    <2> QED
      BY <2>1, MovementsAdd, InventoryAssumption DEF AllUnlocated, AllLocated
  <1>2. Balances(i) = AllLocated(i) /\ stock[i] = Opening[i] + AllUnlocated(i) + AllLocated(i)
    BY DEF SumsInv, Adds
  <1>3. /\ pc[r] = "tx" /\ ~tx[r].stale /\ Checked(r) /\ Fresh(r) /\ Fits(r) /\ Exact(r)
        /\ tx[r] \in Attempt /\ input[r] \in Input
    BY DEF Commit, At, IInv, TypeOK, RequestOK, SumsInv
  <1>4. input[r].quantity \in Int
    <2>1. Quantity \cup {0} \subseteq Int
      BY InventoryAssumption
    <2> QED
      BY <1>3, <2>1 DEF Input
  <1>5. /\ stock'[i] = IF i \in ItemsWritten(r) THEN NewStock(r, i) ELSE stock[i]
        /\ \A w \in Warehouse : balance'[i][w] =
             IF <<i, w>> \in BalancesWritten(r) THEN NewBalance(r, i, w) ELSE balance[i][w]
        /\ ledger'[i] = IF i \in tx[r].moved THEN Append(ledger[i], row) ELSE ledger[i]
    BY DEF Commit
  <1>6. \A w \in Warehouse : <<i, w>> \in BalancesWritten(r) =>
          balance[i][w] = IF i \in tx[r].moved THEN FoundIn(r, i, w) ELSE Counted(r).lines[i]
    BY <1>3 DEF Exact
  <1>7. i \in tx[r].moved =>
          /\ AllUnlocated(i)' = AllUnlocated(i) + Unlocated(row)
          /\ AllLocated(i)' = AllLocated(i) + Located(row)
    <2>1. i \in tx[r].moved => row \in Row
      BY <1>3, Results
    <2> QED
      BY <1>5, <2>1, OneMoreMovement
  <1>8. (\A w \in Warehouse : balance'[i][w] = balance[i][w]) => Balances(i)' = Balances(i)
    <2>1. balance[i] \in [Warehouse -> Nat] /\ balance'[i] \in [Warehouse -> Nat]
      BY DEF IInv, TypeOK
    <2> SUFFICES ASSUME \A w \in Warehouse : balance'[i][w] = balance[i][w]
                 PROVE  balance'[i] = balance[i]
      BY DEF Balances
    <2> QED
      BY <2>1
  <1>9. CASE i \notin tx[r].moved
    <2>1. stock'[i] = stock[i] /\ ledger'[i] = ledger[i]
      BY <1>5, <1>9 DEF ItemsWritten
    <2>2. ASSUME NEW w \in Warehouse, <<i, w>> \in BalancesWritten(r)
          PROVE  NewBalance(r, i, w) = balance[i][w]
      <3>1. Kind(r) = "apply"
        BY <1>3, <1>9, <2>2 DEF BalancesWritten, Checked
      <3> QED
        BY <1>6, <1>9, <2>2, <3>1 DEF NewBalance
    <2>3. Balances(i)' = Balances(i)
      BY <1>5, <1>8, <2>2
    <2>4. AllUnlocated(i)' = AllUnlocated(i) /\ AllLocated(i)' = AllLocated(i)
      BY <2>1 DEF AllUnlocated, AllLocated, UnlocatedAt, LocatedAt
    <2> QED
      BY <1>2, <2>1, <2>3, <2>4 DEF Adds
  <1> HIDE DEF row
  <1>10. ASSUME i \in tx[r].moved, Kind(r) \in {"in", "out"}
         PROVE  Adds(i)'
    <2>1. Found(r, i) = stock[i] /\ stock'[i] = NewStock(r, i) /\ NewStock(r, i) \in Int
      BY <1>3, <1>5, <1>10, Results DEF Fresh, ItemsWritten
    <2>2. Unlocated(row) = NewStock(r, i) - Found(r, i) /\ Located(row) = 0
      BY <1>10 DEF Unlocated, Located, Movement, row
    <2>3. Balances(i)' = Balances(i)
      <3>1. BalancesWritten(r) = {}
        BY <1>10 DEF BalancesWritten
      <3> QED
        BY <1>5, <1>8, <3>1
    <2> QED
      BY <1>1, <1>2, <1>7, <1>10, <2>1, <2>2, <2>3 DEF Adds
  <1>11. ASSUME Kind(r) \in {"exit", "transfer", "apply"}
         PROVE  Unlocated(row) = 0 /\ Located(row) = NewStock(r, i) - Found(r, i)
    BY <1>11 DEF Unlocated, Located, Movement, row
  <1>12. ASSUME i \in tx[r].moved, Kind(r) = "exit"
         PROVE  Adds(i)'
    <2> DEFINE w == input[r].from
    <2>1. i = ItemOf(r) /\ w \in Warehouse
      BY <1>3, <1>12 DEF Checked, Fits
    <2>2. Found(r, i) = stock[i] /\ stock'[i] = NewStock(r, i)
          /\ NewStock(r, i) = stock[i] - input[r].quantity
      BY <1>3, <1>5, <1>12 DEF Fresh, ItemsWritten, NewStock
    <2>3. BalancesWritten(r) = {<<i, w>>}
      BY <1>12, <2>1 DEF BalancesWritten
    <2>4. balance'[i][w] = balance[i][w] - input[r].quantity
      BY <1>5, <1>6, <1>12, <2>1, <2>3 DEF NewBalance
    <2>5. \A v \in Warehouse \ {w} : balance'[i][v] = balance[i][v]
      BY <1>5, <2>3
    <2>6. balance[i][w] \in Int
      BY <2>1 DEF IInv, TypeOK
    <2> HIDE DEF w
    <2>7. Balances(i)' = Balances(i) - input[r].quantity
      <3>1. Balances(i)' = Balances(i) + balance'[i][w] - balance[i][w]
        BY <2>1, <2>5, OneBalance
      <3> QED
        BY <1>1, <1>2, <1>4, <2>4, <2>6, <3>1
    <2> QED
      BY <1>1, <1>2, <1>4, <1>7, <1>11, <1>12, <2>2, <2>7 DEF Adds
  <1>13. ASSUME i \in tx[r].moved, Kind(r) = "transfer"
         PROVE  Adds(i)'
    <2> DEFINE v == input[r].from
               w == input[r].to
    <2>1. i = ItemOf(r) /\ v \in Warehouse /\ w \in Warehouse /\ v # w
      BY <1>3, <1>13 DEF Checked, Fits, Exact
    <2>2. stock'[i] = stock[i] /\ NewStock(r, i) = Found(r, i) /\ Found(r, i) \in Int
      BY <1>3, <1>5, <1>13 DEF ItemsWritten, NewStock, Found, Attempt
    <2>3. BalancesWritten(r) = {<<i, v>>, <<i, w>>}
      BY <1>13, <2>1 DEF BalancesWritten
    <2>4. balance'[i][v] = balance[i][v] - input[r].quantity
      BY <1>5, <1>6, <1>13, <2>1, <2>3 DEF NewBalance
    <2>5. balance'[i][w] = balance[i][w] + input[r].quantity
      BY <1>5, <1>6, <1>13, <2>1, <2>3 DEF NewBalance
    <2>6. \A u \in Warehouse \ {v, w} : balance'[i][u] = balance[i][u]
      BY <1>5, <2>3
    <2> HIDE DEF v, w
    <2>7. Balances(i)' = Balances(i)
      BY <1>4, <2>1, <2>4, <2>5, <2>6, TwoBalances
    <2> QED
      BY <1>1, <1>2, <1>7, <1>11, <1>13, <2>2, <2>7 DEF Adds
  <1>14. ASSUME i \in tx[r].moved, Kind(r) = "apply"
         PROVE  Adds(i)'
    <2> DEFINE w == Counted(r).warehouse
               n == Counted(r).lines[i]
    <2>1. w \in Warehouse /\ n \in Nat /\ i \in DOMAIN Counted(r).lines
      BY <1>3, <1>14, StocktakeTypes DEF Fits, Fresh, Counted
    <2>2. BalancesWritten(r) = (DOMAIN Counted(r).lines) \X {w}
      BY <1>14 DEF BalancesWritten
    <2>3. balance[i][w] = FoundIn(r, i, w)
      BY <1>6, <1>14, <2>1, <2>2
    <2>4. Found(r, i) = stock[i] /\ stock'[i] = NewStock(r, i)
          /\ NewStock(r, i) = stock[i] + n - balance[i][w]
      BY <1>3, <1>5, <1>14, <2>3 DEF Fresh, ItemsWritten, NewStock
    <2>5. balance'[i][w] = n
      BY <1>5, <1>14, <2>1, <2>2 DEF NewBalance
    <2>6. \A v \in Warehouse \ {w} : balance'[i][v] = balance[i][v]
      BY <1>5, <2>2
    <2>7. balance[i][w] \in Int
      BY <2>1 DEF IInv, TypeOK
    <2> HIDE DEF w, n
    <2>8. Balances(i)' = Balances(i) + n - balance[i][w]
      BY <2>1, <2>5, <2>6, OneBalance
    <2> QED
      BY <1>1, <1>2, <1>7, <1>11, <1>14, <2>1, <2>4, <2>7, <2>8 DEF Adds
  <1> QED
    BY <1>3, <1>9, <1>10, <1>12, <1>13, <1>14 DEF Checked

\* A request that took no step stays exact, when the balances and the stocktake its
\* attempt writes were left alone or the attempt became stale.
LEMMA ExactKept ==
  ASSUME IInv, NEW q \in Req, Exact(q), pc'[q] = pc[q], input'[q] = input[q],
         tx'[q].moved = tx[q].moved, tx'[q].balance = tx[q].balance,
         pc[q] = "tx" /\ ~tx'[q].stale =>
           /\ ~tx[q].stale
           /\ \A i \in Item, w \in Warehouse :
                <<i, w>> \in BalancesWritten(q) => balance'[i][w] = balance[i][w]
           /\ Kind(q) = "apply" => /\ stocktake'[StocktakeOf(q)].lines = Counted(q).lines
                                   /\ stocktake'[StocktakeOf(q)].warehouse = Counted(q).warehouse
  PROVE  Exact(q)'
  <1>1. Kind(q)' = Kind(q) /\ \A i \in Item, w \in Warehouse : FoundIn(q, i, w)' = FoundIn(q, i, w)
    BY DEF Kind, FoundIn
  <1>2. ASSUME pc[q] = "tx", ~tx'[q].stale, NEW i \in Item, NEW w \in Warehouse,
               <<i, w>> \in BalancesWritten(q)'
        PROVE  balance'[i][w] = IF i \in tx[q].moved THEN FoundIn(q, i, w)
                                ELSE Counted(q)'.lines[i]
    <2>1. Kind(q) = "apply" => /\ Counted(q)'.lines = Counted(q).lines
                               /\ Counted(q)'.warehouse = Counted(q).warehouse
      BY <1>2 DEF Counted, StocktakeOf
    <2>2. <<i, w>> \in BalancesWritten(q)
      BY <1>1, <1>2, <2>1 DEF BalancesWritten, ItemOf
    <2>3. balance[i][w] = IF i \in tx[q].moved THEN FoundIn(q, i, w) ELSE Counted(q).lines[i]
      BY <1>2, <2>2 DEF Exact
    <2>4. i \notin tx[q].moved => Kind(q) = "apply"
      <3>1. Checked(q)
        BY <1>2 DEF IInv, RequestOK
      <3> QED
        BY <2>2, <3>1 DEF Checked, BalancesWritten
    <2> QED
      BY <1>2, <2>1, <2>2, <2>3, <2>4
  <1> QED
    BY <1>1, <1>2 DEF Exact

\* An attempt that starts has read the balances it writes.
LEMMA BeginExact ==
  ASSUME IInv, NEW r \in Req, Exact(r),
         MoveBegin(r) \/ ExitBegin(r) \/ TransferBegin(r) \/ ApplyBegin(r)
  PROVE  Exact(r)'
  <1>1. PICK items \in SUBSET Item : /\ Attempts(r, items)
                                     /\ Kind(r) = "apply" => /\ items = Differing(StocktakeOf(r))
                                                             /\ StocktakeOf(r) \in Stocktake
                                                             /\ Counted(r).status \in Open
                                     /\ Kind(r) # "apply" => items = {ItemOf(r)}
    <2>1. Fits(r)
      BY DEF IInv, RequestOK
    <2>2. CASE MoveBegin(r) \/ ExitBegin(r) \/ TransferBegin(r)
      <3>1. Attempts(r, {ItemOf(r)}) /\ Kind(r) \in {"in", "out", "exit", "transfer"}
        BY <2>2 DEF MoveBegin, ExitBegin, TransferBegin
      <3> QED
        BY <2>1, <3>1 DEF Fits
    <2>3. CASE ApplyBegin(r)
      <3>1. /\ Attempts(r, Differing(StocktakeOf(r))) /\ Kind(r) = "apply"
            /\ StocktakeOf(r) \in Stocktake /\ stocktake[StocktakeOf(r)].status \in Open
        BY <2>1, <2>3 DEF ApplyBegin, Fits
      <3>2. Differing(StocktakeOf(r)) \in SUBSET Item
        BY <3>1, StocktakeTypes DEF Differing
      <3> QED
        BY <3>1, <3>2 DEF Counted
    <2> QED
      BY <2>2, <2>3
  <1>2. /\ tx'[r].moved = items
        /\ \A i \in items : tx'[r].balance[i] = balance[i]
        /\ input' = input /\ balance' = balance /\ stocktake' = stocktake
    BY <1>1 DEF Attempts, docs, IInv, TypeOK
  <1>3. /\ Kind(r)' = Kind(r) /\ Counted(r)' = Counted(r)
        /\ BalancesWritten(r)' = BalancesWritten(r)
    BY <1>2 DEF Kind, Counted, StocktakeOf, BalancesWritten, ItemOf
  <1>4. ASSUME NEW i \in Item, NEW w \in Warehouse, <<i, w>> \in BalancesWritten(r), i \notin items
        PROVE  balance[i][w] = Counted(r).lines[i]
    <2>1. Kind(r) = "apply"
      BY <1>1, <1>4 DEF BalancesWritten
    <2>2. i \in DOMAIN Counted(r).lines /\ w = Counted(r).warehouse
      BY <1>4, <2>1 DEF BalancesWritten
    <2>3. Counted(r).lines[i] - balance[i][w] = 0
      BY <1>1, <1>4, <2>1, <2>2 DEF Differing, Delta, Counted
    <2>4. Counted(r).lines[i] \in Nat /\ balance[i][w] \in Nat
      BY <1>1, <2>1, <2>2, StocktakeTypes DEF Counted
    <2> QED
      BY <2>3, <2>4
  <1>5. \A i \in items, w \in Warehouse : FoundIn(r, i, w)' = balance[i][w]
    BY <1>2 DEF FoundIn
  <1>6. \A i \in Item, w \in Warehouse : <<i, w>> \in BalancesWritten(r)' =>
          balance'[i][w] = IF i \in tx'[r].moved THEN FoundIn(r, i, w)' ELSE Counted(r)'.lines[i]
    BY <1>2, <1>3, <1>4, <1>5
  <1> QED
    BY <1>2, <1>3, <1>6 DEF Exact

\* A request that arrives has no attempt.
LEMMA ArriveExact ==
  ASSUME IInv, \A q \in Req : Exact(q), NEW r \in Req, Arrive(r)
  PROVE  \A q \in Req : Exact(q)'
  <1>1. /\ pc[r] = "idle" /\ UNCHANGED <<balance, stocktake, tx>>
        /\ \A q \in Req \ {r} : pc'[q] = pc[q] /\ input'[q] = input[q]
    <2>1. ASSUME NEW request, Ask(r, request)
          PROVE  /\ pc[r] = "idle" /\ UNCHANGED <<balance, stocktake, tx>>
                 /\ \A q \in Req \ {r} : pc'[q] = pc[q] /\ input'[q] = input[q]
      BY <2>1 DEF Ask, At, Goto, docs, IInv, TypeOK
    <2>2. ASSUME NEW kind, NEW s, Load(r, kind, s)
          PROVE  /\ pc[r] = "idle" /\ UNCHANGED <<balance, stocktake, tx>>
                 /\ \A q \in Req \ {r} : pc'[q] = pc[q] /\ input'[q] = input[q]
      BY <2>2 DEF Load, At, Goto, docs, IInv, TypeOK
    <2> QED
      BY <2>1, <2>2, Zenon DEF Arrive
  <1>2. ASSUME NEW q \in Req \ {r} PROVE Exact(q)'
    <2>1. Kind(q) = "apply" => stocktake'[StocktakeOf(q)] = Counted(q)
      BY <1>1 DEF Counted
    <2> QED
      BY <1>1, <1>2, <2>1, ExactKept
  <1>3. ASSUME NEW request \in Input, Ask(r, request),
               request.kind = "transfer" =>
                 request.to \in Warehouse /\ request.from # request.to
        PROVE  Exact(r)'
    <2>1. \/ pc'[r] = pc[r] /\ input'[r] = input[r]
          \/ pc'[r] = "begin" /\ input'[r] = request
      BY <1>3 DEF Ask, Goto, IInv, TypeOK
    <2>2. CASE pc'[r] = pc[r] /\ input'[r] = input[r]
      BY <1>1, <2>2 DEF Exact, Kind
    <2>3. CASE pc'[r] = "begin" /\ input'[r] = request
      BY <1>3, <2>3 DEF Exact, Kind
    <2> QED
      BY <2>1, <2>2, <2>3
  <1>4. ASSUME NEW kind \in {"count", "cancel"}, NEW s \in Stocktake, Load(r, kind, s)
        PROVE  Exact(r)'
    <2>1. pc'[r] = "save" /\ input'[r] = [NoInput EXCEPT !.kind = kind, !.stocktake = s]
      BY <1>4 DEF Load, Goto, IInv, TypeOK
    <2> QED
      BY <2>1 DEF Exact, Kind, NoInput
  <1>5. ASSUME NEW i \in Item, NEW kind \in {"in", "out"}, NEW n \in Quantity,
               Ask(r, [NoInput EXCEPT !.kind = kind, !.item = i, !.quantity = n])
        PROVE  Exact(r)'
    <2> DEFINE request == [NoInput EXCEPT !.kind = kind, !.item = i, !.quantity = n]
    <2>1. request \in Input /\ request.kind # "transfer"
      BY Nulls DEF NoInput, Input, AllKinds
    <2>2. Ask(r, request)
      BY <1>5
    <2> HIDE DEF request
    <2> QED
      BY <1>3, <2>1, <2>2
  <1>6. ASSUME NEW i \in Item, NEW kind \in {"exit", "receive"}, NEW n \in Quantity,
               NEW w \in Warehouse, NEW k \in Key \cup {NoKey},
               Ask(r, [NoInput EXCEPT !.kind = kind, !.item = i, !.quantity = n,
                                      !.from = w, !.key = k])
        PROVE  Exact(r)'
    <2> DEFINE request == [NoInput EXCEPT !.kind = kind, !.item = i, !.quantity = n,
                                          !.from = w, !.key = k]
    <2>1. request \in Input /\ request.kind # "transfer"
      BY Nulls DEF NoInput, Input, AllKinds
    <2>2. Ask(r, request)
      BY <1>6
    <2> HIDE DEF request
    <2> QED
      BY <1>3, <2>1, <2>2
  <1>7. ASSUME NEW i \in Item, NEW n \in Quantity, NEW v \in Warehouse, NEW w \in Warehouse,
               NEW k \in Key \cup {NoKey}, v # w,
               Ask(r, [NoInput EXCEPT !.kind = "transfer", !.item = i, !.quantity = n,
                                      !.from = v, !.to = w, !.key = k])
        PROVE  Exact(r)'
    <2> DEFINE request == [NoInput EXCEPT !.kind = "transfer", !.item = i, !.quantity = n,
                                          !.from = v, !.to = w, !.key = k]
    <2>1. request \in Input /\ request.from = v /\ request.to = w
      BY Nulls DEF NoInput, Input, AllKinds
    <2>2. Ask(r, request)
      BY <1>7
    <2> HIDE DEF request
    <2> QED
      BY <1>3, <1>7, <2>1, <2>2
  <1>8. ASSUME NEW s \in Stocktake, Ask(r, [NoInput EXCEPT !.kind = "apply", !.stocktake = s])
        PROVE  Exact(r)'
    <2> DEFINE request == [NoInput EXCEPT !.kind = "apply", !.stocktake = s]
    <2>1. request \in Input /\ request.kind # "transfer"
      BY Nulls DEF NoInput, Input, AllKinds
    <2>2. Ask(r, request)
      BY <1>8
    <2> HIDE DEF request
    <2> QED
      BY <1>3, <2>1, <2>2
  <1>9. Exact(r)'
    BY <1>4, <1>5, <1>6, <1>7, <1>8, Zenon DEF Arrive
  <1> QED
    BY <1>2, <1>9

\* A commit makes the attempts stale whose balances it writes.
LEMMA CommitExact ==
  ASSUME IInv, \A q \in Req : Exact(q), NEW r \in Req, Commit(r)
  PROVE  \A q \in Req : Exact(q)'
  <1> DEFINE hit == {p \in Req : Clash(p, r)}
  <1>0. Stale(hit) \in [Req -> Attempt]
    BY StaleType
  <1>1. tx' = [Stale(hit) EXCEPT ![r] = NoAttempt]
    BY DEF Commit
  <1>2. /\ pc'[r] = "idle" /\ input'[r] = NoInput
        /\ \A q \in Req \ {r} : pc'[q] = pc[q] /\ input'[q] = input[q]
    BY DEF Commit, Goto, IInv, TypeOK
  <1>3. \A q \in Req : q \notin hit => ~Clash(q, r)
    OBVIOUS
  <1> HIDE DEF hit
  <1>4. Exact(r)'
    BY <1>2 DEF Exact, Kind, NoInput
  <1>5. ASSUME NEW q \in Req \ {r} PROVE Exact(q)'
    <2>1. tx'[q] = Stale(hit)[q]
      BY <1>0, <1>1
    <2>2. /\ tx'[q].moved = tx[q].moved /\ tx'[q].balance = tx[q].balance
          /\ pc[q] = "tx" /\ ~tx'[q].stale => ~tx[q].stale /\ q \notin hit
      BY <2>1, StaleType
    <2>3. ASSUME ~Clash(q, r), NEW i \in Item, NEW w \in Warehouse, <<i, w>> \in BalancesWritten(q)
          PROVE  balance'[i][w] = balance[i][w]
      <3>1. <<i, w>> \notin BalancesWritten(r)
        BY <2>3 DEF Clash
      <3> QED
        BY <3>1 DEF Commit
    <2>4. ASSUME pc[q] = "tx", Kind(q) = "apply"
          PROVE  /\ stocktake'[StocktakeOf(q)].lines = Counted(q).lines
                 /\ stocktake'[StocktakeOf(q)].warehouse = Counted(q).warehouse
      <3>1. StocktakeOf(q) \in Stocktake
        BY <2>4 DEF IInv, RequestOK, Fits
      <3> QED
        BY <3>1, CommitStocktakes DEF Counted
    <2> QED
      BY <1>2, <1>3, <1>5, <2>2, <2>3, <2>4, ExactKept
  <1> QED
    BY <1>4, <1>5

\* A save makes the applications stale that read what it changes.
LEMMA SaveExact ==
  ASSUME IInv, \A q \in Req : Exact(q), NEW r \in Req, NEW status, NEW lines,
         pc[r] = "save", Save(r, status, lines)
  PROVE  \A q \in Req : Exact(q)'
  <1> DEFINE s == StocktakeOf(r)
             readers == {q \in Req : Kind(q) = "apply" /\ StocktakeOf(q) = s}
             written == lines # view[r].lines \/ status # view[r].status
             new == Saved(stocktake[s], view[r], status, lines)
  <1>1. s \in Stocktake /\ stocktake[s] \in StocktakeDoc
    BY DEF IInv, TypeOK, RequestOK, Fits
  <1>2. /\ tx' = IF written THEN Stale(readers) ELSE tx
        /\ pc'[r] = "idle" /\ input'[r] = NoInput
        /\ \A q \in Req \ {r} : pc'[q] = pc[q] /\ input'[q] = input[q]
        /\ balance' = balance
    BY DEF Save, Goto, IInv, TypeOK
  <1>3. stocktake' = [stocktake EXCEPT ![s] = new]
    BY DEF Save
  <1>4. ~written => new.lines = stocktake[s].lines
    BY <1>1 DEF Saved, StocktakeDoc
  <1>5. new.warehouse = stocktake[s].warehouse
    BY <1>1 DEF Saved, StocktakeDoc
  <1>6. \A q \in Req : q \notin readers => ~(Kind(q) = "apply" /\ StocktakeOf(q) = s)
    OBVIOUS
  <1> HIDE DEF readers, written, new, s
  <1>7. Exact(r)'
    BY <1>2 DEF Exact, Kind, NoInput
  <1>8. ASSUME NEW q \in Req \ {r} PROVE Exact(q)'
    <2>1. /\ tx'[q].moved = tx[q].moved /\ tx'[q].balance = tx[q].balance
          /\ pc[q] = "tx" /\ ~tx'[q].stale => ~tx[q].stale /\ (written => q \notin readers)
      BY <1>2, StaleType
    <2>2. ASSUME pc[q] = "tx", Kind(q) = "apply", written => q \notin readers
          PROVE  /\ stocktake'[StocktakeOf(q)].lines = Counted(q).lines
                 /\ stocktake'[StocktakeOf(q)].warehouse = Counted(q).warehouse
      <3>1. StocktakeOf(q) \in Stocktake /\ stocktake \in [Stocktake -> StocktakeDoc]
        BY <2>2 DEF IInv, TypeOK, RequestOK, Fits
      <3>2. CASE StocktakeOf(q) = s
        BY <1>1, <1>3, <1>4, <1>5, <1>6, <2>2, <3>1, <3>2 DEF Counted
      <3>3. CASE StocktakeOf(q) # s
        BY <1>3, <3>1, <3>3 DEF Counted
      <3> QED
        BY <3>2, <3>3
    <2> QED
      BY <1>2, <1>8, <2>1, <2>2, ExactKept
  <1> QED
    BY <1>7, <1>8

\* The other steps write no balance.
LEMMA OthersExact ==
  ASSUME IInv, \A q \in Req : Exact(q), IInv',
         \/ \E r \in Req : Begin(r) \/ Retry(r) \/ Fail(r)
         \/ \E s \in Stocktake, w \in Warehouse, lines \in Lines : CreateStocktake(s, w, lines)
         \/ \E i \in Item : DeleteItem(i)
         \/ \E w \in Warehouse, isActive \in BOOLEAN : SetWarehouse(w, isActive)
         \/ UNCHANGED vars
  PROVE  \A q \in Req : Exact(q)'
  <1>1. ASSUME NEW q \in Req, pc'[q] = pc[q], input'[q] = input[q], tx'[q] = tx[q],
               balance' = balance, stocktake' = stocktake
        PROVE  Exact(q)'
    BY <1>1, ExactKept DEF Counted
  <1>2. ASSUME NEW r \in Req, Begin(r) PROVE \A q \in Req : Exact(q)'
    <2>1. /\ balance' = balance /\ stocktake' = stocktake
          /\ \A q \in Req \ {r} : pc'[q] = pc[q] /\ input'[q] = input[q] /\ tx'[q] = tx[q]
      BY <1>2 DEF Begin, MoveBegin, ExitBegin, TransferBegin, Receive, ApplyBegin, Attempts, Goto,
         docs, IInv, TypeOK
    <2>2. CASE Receive(r)
      <3>1. pc'[r] = "idle" /\ input'[r] = NoInput
        BY <2>2 DEF Receive, Goto, IInv, TypeOK
      <3>2. Exact(r)'
        BY <3>1 DEF Exact, Kind, NoInput
      <3> QED
        BY <1>1, <2>1, <3>2
    <2>3. CASE MoveBegin(r) \/ ExitBegin(r) \/ TransferBegin(r) \/ ApplyBegin(r)
      BY <1>1, <2>1, <2>3, BeginExact
    <2> QED
      BY <1>2, <2>2, <2>3 DEF Begin
  <1>3. ASSUME NEW r \in Req, Retry(r) \/ Fail(r) PROVE \A q \in Req : Exact(q)'
    <2>1. /\ balance' = balance /\ stocktake' = stocktake
          /\ \A q \in Req \ {r} : pc'[q] = pc[q] /\ input'[q] = input[q] /\ tx'[q] = tx[q]
          /\ pc'[r] # "tx" /\ input'[r] \in {NoInput, input[r]}
      BY <1>3 DEF Retry, Fail, Goto, docs, IInv, TypeOK
    <2>2. Exact(r)'
      BY <2>1 DEF Exact, Kind, NoInput
    <2> QED
      BY <1>1, <2>1, <2>2
  <1>4. ASSUME NEW s \in Stocktake, NEW w \in Warehouse, NEW lines \in Lines,
               CreateStocktake(s, w, lines), NEW q \in Req
        PROVE  Exact(q)'
    <2>1. UNCHANGED <<pc, input, tx, balance>>
      BY <1>4 DEF CreateStocktake
    <2>2. ASSUME pc[q] = "tx", ~tx[q].stale, Kind(q) = "apply"
          PROVE  stocktake'[StocktakeOf(q)] = Counted(q)
      <3>1. StocktakeOf(q) \in Stocktake /\ Counted(q).status \in Open
        BY <2>2 DEF IInv, RequestOK, Fits, Fresh
      <3> QED
        BY <1>4, <3>1 DEF CreateStocktake, Counted, Open, IInv, TypeOK
    <2> QED
      BY <2>1, <2>2, ExactKept
  <1>5. ASSUME NEW i \in Item, DeleteItem(i), NEW q \in Req PROVE Exact(q)'
    <2> DEFINE hit == {p \in Req : i \in ItemsWritten(p)}
    <2>1. tx' = Stale(hit) /\ UNCHANGED <<pc, input, balance, stocktake>>
      BY <1>5 DEF DeleteItem
    <2> HIDE DEF hit
    <2>2. /\ tx'[q].moved = tx[q].moved /\ tx'[q].balance = tx[q].balance
          /\ pc[q] = "tx" /\ ~tx'[q].stale => ~tx[q].stale
      BY <2>1, StaleType
    <2> QED
      BY <2>1, <2>2, ExactKept DEF Counted
  <1>6. ASSUME NEW w \in Warehouse, NEW isActive \in BOOLEAN, SetWarehouse(w, isActive)
        PROVE  \A q \in Req : Exact(q)'
    BY <1>1, <1>6 DEF SetWarehouse
  <1>7. CASE UNCHANGED vars
    BY <1>1, <1>7 DEF vars
  <1> QED
    BY <1>2, <1>3, <1>4, <1>5, <1>6, <1>7

LEMMA InitSums == Init => SumsInv
  <1> SUFFICES ASSUME Init PROVE SumsInv
    OBVIOUS
  <1>1. ASSUME NEW i \in Item PROVE Adds(i)
    <2>1. AllUnlocated(i) = 0 /\ AllLocated(i) = 0
      <3>1. 1..Len(ledger[i]) = {}
        BY DEF Init
      <3> QED
        BY <3>1, SumEmpty DEF AllUnlocated, AllLocated, UnlocatedAt, LocatedAt
    <2>2. Balances(i) = 0
      <3>1. balance[i] = Zero
        BY DEF Init
      <3> QED
        BY <3>1, SumZero DEF Balances
    <2>3. stock[i] = Opening[i] /\ Opening[i] \in Int
      BY InventoryAssumption DEF Init
    <2> QED
      BY <2>1, <2>2, <2>3 DEF Adds
  <1>2. \A r \in Req : Exact(r)
    BY DEF Init, Exact, Kind, NoInput
  <1> QED
    BY <1>1, <1>2 DEF SumsInv

LEMMA StepSums == IInv /\ IInv' /\ SumsInv /\ [Next]_vars => SumsInv'
  <1> SUFFICES ASSUME IInv, IInv', SumsInv, [Next]_vars PROVE SumsInv'
    OBVIOUS
  <1>1. \A q \in Req : Exact(q)
    BY DEF SumsInv
  <1>2. \A q \in Req : Exact(q)'
    <2>1. ASSUME NEW r \in Req, NEW lines \in Lines, CountSave(r, lines)
          PROVE  \A q \in Req : Exact(q)'
      BY <1>1, <2>1, SaveExact DEF CountSave, At
    <2>2. ASSUME NEW r \in Req, CancelSave(r) PROVE \A q \in Req : Exact(q)'
      BY <1>1, <2>2, SaveExact DEF CancelSave, At
    <2> QED
      BY <1>1, <2>1, <2>2, ArriveExact, CommitExact, OthersExact DEF Next
  <1>3. ASSUME NEW i \in Item PROVE Adds(i)'
    <2>1. CASE UNCHANGED <<stock, balance, ledger>>
      BY <2>1 DEF SumsInv, Adds, Balances, AllUnlocated, AllLocated, UnlocatedAt, LocatedAt
    <2>2. ASSUME NEW r \in Req, Commit(r) PROVE Adds(i)'
      BY <2>2, CommitAdds
    <2> QED
      BY <2>1, <2>2, OnlyCommitsMove DEF vars
  <1> QED
    BY <1>2, <1>3 DEF SumsInv

-----------------------------------------------------------------------------
(* The report.                                                              *)

\* What a read has summed, told by the movements that were in the ledgers then.
StockRead(i) ==
  IF i \in report.counted
  THEN Opening[i] + UnlocatedAt(i, report.itemsAt[i]) + LocatedAt(i, report.itemsAt[i])
  ELSE 0

ReadOK ==
  /\ "items" \in report.read =>
       /\ \A i \in Item : report.itemsAt[i] \in 0..Len(ledger[i])
       /\ report.itemStockTotal = SumFunction([i \in Item |-> StockRead(i)])
  /\ "balances" \in report.read =>
       /\ \A i \in Item : report.balancesAt[i] \in 0..Len(ledger[i])
       /\ report.balanceTotal
          = SumFunction([i \in Item |-> LocatedAt(i, report.balancesAt[i])])

ReportInv == IInv /\ SumsInv /\ report \in Report /\ ReadOK

\* Being served changes nothing of the other requests.
LEMMA ServeKeeps ==
  ASSUME IInv, SumsInv, Serve
  PROVE  IInv' /\ SumsInv'
  <1> USE DEF Serve, docs
  <1>1. TypeOK' /\ StocktakesLocated'
    <2>1. asked' \in Nat
      BY DEF IInv, TypeOK
    <2> QED
      BY <2>1 DEF IInv, TypeOK, StocktakesLocated
  <1>2. ASSUME NEW q \in Req PROVE RequestOK(q)'
    <2>1. Recorded(KeyOf(q))' => Recorded(KeyOf(q))
      BY DEF Recorded, KeyOf
    <2> QED
      BY <2>1, OtherKept
  <1>3. ASSUME NEW i \in Item PROVE Adds(i)'
    BY DEF SumsInv, Adds, Balances, AllUnlocated, AllLocated, UnlocatedAt, LocatedAt
  <1>4. ASSUME NEW q \in Req PROVE Exact(q)'
    BY ExactKept DEF SumsInv, Counted
  <1> QED
    BY <1>1, <1>2, <1>3, <1>4 DEF IInv, SumsInv

\* A ledger grows at its end: the sums over its first movements stay.
LEMMA LedgersGrow ==
  ASSUME IInv, [Next]_vars, NEW i \in Item, NEW n \in 0..Len(ledger[i])
  PROVE  /\ n \in 0..Len(ledger'[i])
         /\ UnlocatedAt(i, n)' = UnlocatedAt(i, n)
         /\ LocatedAt(i, n)' = LocatedAt(i, n)
  <1>1. \/ ledger'[i] = ledger[i]
        \/ \E row \in Row : ledger'[i] = Append(ledger[i], row)
    <2>1. ASSUME NEW r \in Req, Commit(r)
          PROVE  \/ ledger'[i] = ledger[i]
                 \/ \E row \in Row : ledger'[i] = Append(ledger[i], row)
      <3>1. pc[r] = "tx" /\ ~tx[r].stale
        BY <2>1 DEF Commit, At
      <3> QED
        BY <2>1, <3>1, Results DEF Commit
    <2> QED
      BY <2>1, OnlyCommitsMove DEF vars
  <1>2. ledger[i] \in Seq(Row)
    BY DEF IInv, TypeOK
  <1>3. n \in 0..Len(ledger'[i]) /\ \A m \in 1..n : ledger'[i][m] = ledger[i][m]
    BY <1>1, <1>2
  <1>4. /\ [m \in 1..n |-> Unlocated(ledger'[i][m])] = [m \in 1..n |-> Unlocated(ledger[i][m])]
        /\ [m \in 1..n |-> Located(ledger'[i][m])] = [m \in 1..n |-> Located(ledger[i][m])]
    BY <1>3
  <1> QED
    BY <1>3, <1>4 DEF UnlocatedAt, LocatedAt

LEMMA ReadsStay ==
  ASSUME ReportInv, [Next]_vars, UNCHANGED report
  PROVE  ReadOK'
  <1>0. IInv /\ ReadOK /\ report \in Report
    BY DEF ReportInv
  <1>1. ASSUME "items" \in report.read
        PROVE  /\ \A i \in Item : report.itemsAt[i] \in 0..Len(ledger'[i])
               /\ report.itemStockTotal = SumFunction([i \in Item |-> StockRead(i)'])
    <2>1. \A i \in Item : report.itemsAt[i] \in 0..Len(ledger[i])
      BY <1>0, <1>1 DEF ReadOK
    <2>2. \A i \in Item : StockRead(i)' = StockRead(i)
      BY <1>0, <2>1, LedgersGrow DEF StockRead
    <2>3. [i \in Item |-> StockRead(i)'] = [i \in Item |-> StockRead(i)]
      BY <2>2
    <2> QED
      BY <1>0, <1>1, <2>1, <2>3, LedgersGrow DEF ReadOK
  <1>2. ASSUME "balances" \in report.read
        PROVE  /\ \A i \in Item : report.balancesAt[i] \in 0..Len(ledger'[i])
               /\ report.balanceTotal
                  = SumFunction([i \in Item |-> LocatedAt(i, report.balancesAt[i])'])
    <2>1. \A i \in Item : report.balancesAt[i] \in 0..Len(ledger[i])
      BY <1>0, <1>2 DEF ReadOK
    <2>2. \A i \in Item :
            LocatedAt(i, report.balancesAt[i])' = LocatedAt(i, report.balancesAt[i])
      BY <1>0, <2>1, LedgersGrow
    <2>3. [i \in Item |-> LocatedAt(i, report.balancesAt[i])']
          = [i \in Item |-> LocatedAt(i, report.balancesAt[i])]
      BY <2>2
    <2> QED
      BY <1>0, <1>2, <2>1, <2>3, LedgersGrow DEF ReadOK
  <1> QED
    BY <1>1, <1>2 DEF ReadOK

\* A read sums what the movements so far add up to.
LEMMA ReadItemsKeeps ==
  ASSUME ReportInv, ReadItems
  PROVE  report' \in Report /\ ReadOK'
  <1>0. /\ IInv /\ SumsInv /\ ReadOK /\ report \in Report
        /\ UNCHANGED <<stock, active, balance, ledger>>
    BY DEF ReportInv, ReadItems, Serve, docs
  <1> DEFINE f == [i \in Item |-> IF i \in active THEN stock[i] ELSE 0]
  <1>1. IsFiniteSet(Item) /\ f \in [Item -> Int] /\ Lengths \in [Item -> Nat]
    BY <1>0, InventoryAssumption DEF IInv, TypeOK, Lengths
  <1>2. SumFunction(f) \in Int
    BY <1>1, SumInt
  <1>3. /\ report'.read = report.read \cup {"items"}
        /\ report'.itemStockTotal = SumFunction(f)
        /\ report'.counted = active \cap Item /\ report'.itemsAt = Lengths
        /\ report'.balanceTotal = report.balanceTotal /\ report'.balancesAt = report.balancesAt
    BY <1>0 DEF ReadItems, Report
  <1>4. report' \in Report
    BY <1>0, <1>1, <1>2 DEF ReadItems, Report, Collections
  <1>5. \A i \in Item : StockRead(i)' = f[i] /\ Lengths[i] \in 0..Len(ledger'[i])
    <2> SUFFICES ASSUME NEW i \in Item
                 PROVE  StockRead(i)' = f[i] /\ Lengths[i] \in 0..Len(ledger'[i])
      OBVIOUS
    <2>1. Lengths[i] = Len(ledger[i]) /\ Len(ledger[i]) \in Nat
      BY <1>0 DEF Lengths, IInv, TypeOK
    <2>2. stock[i] = Opening[i] + UnlocatedAt(i, Len(ledger[i])) + LocatedAt(i, Len(ledger[i]))
      BY <1>0 DEF SumsInv, Adds, AllUnlocated, AllLocated
    <2>3. /\ UnlocatedAt(i, Lengths[i])' = UnlocatedAt(i, Len(ledger[i]))
          /\ LocatedAt(i, Lengths[i])' = LocatedAt(i, Len(ledger[i]))
      BY <1>0, <2>1 DEF UnlocatedAt, LocatedAt, Lengths
    <2>4. report'.itemsAt[i] = Len(ledger[i])
      BY <1>3, <2>1
    <2>5. /\ UnlocatedAt(i, report.itemsAt[i])' = UnlocatedAt(i, Len(ledger[i]))
          /\ LocatedAt(i, report.itemsAt[i])' = LocatedAt(i, Len(ledger[i]))
      BY <1>0, <2>4 DEF UnlocatedAt, LocatedAt
    <2> QED
      BY <1>0, <1>3, <2>1, <2>2, <2>5 DEF StockRead
  <1>6. [i \in Item |-> StockRead(i)'] = f
    BY <1>5
  <1>7. "balances" \in report'.read =>
          /\ \A i \in Item : report'.balancesAt[i] \in 0..Len(ledger'[i])
          /\ report'.balanceTotal
             = SumFunction([i \in Item |-> LocatedAt(i, report.balancesAt[i])'])
    <2>1. ASSUME NEW i \in Item
          PROVE  LocatedAt(i, report.balancesAt[i])' = LocatedAt(i, report.balancesAt[i])
      BY <1>0, <1>3 DEF LocatedAt
    <2>2. [i \in Item |-> LocatedAt(i, report.balancesAt[i])']
          = [i \in Item |-> LocatedAt(i, report.balancesAt[i])]
      BY <2>1
    <2> QED
      BY <1>0, <1>3, <2>2 DEF ReadOK
  <1> HIDE DEF f
  <1> QED
    BY <1>3, <1>4, <1>5, <1>6, <1>7 DEF ReadOK

LEMMA ReadBalancesKeeps ==
  ASSUME ReportInv, ReadBalances
  PROVE  report' \in Report /\ ReadOK'
  <1>0. /\ IInv /\ SumsInv /\ ReadOK /\ report \in Report
        /\ UNCHANGED <<stock, active, balance, ledger>>
    BY DEF ReportInv, ReadBalances, Serve, docs
  <1> DEFINE f == [i \in Item |-> SumFunction(balance[i])]
  <1>1. ASSUME NEW i \in Item
        PROVE  f[i] \in Int /\ f[i] = LocatedAt(i, Len(ledger[i])) /\ Len(ledger[i]) \in Nat
    <2>1. /\ balance[i] \in [Warehouse -> Int] /\ IsFiniteSet(Warehouse)
          /\ Len(ledger[i]) \in Nat
      BY <1>0, InventoryAssumption DEF IInv, TypeOK
    <2>2. SumFunction(balance[i]) \in Int
      BY <2>1, SumInt
    <2> QED
      BY <1>0, <2>1, <2>2 DEF SumsInv, Adds, Balances, AllLocated
  <1>2. SumFunction(f) \in Int /\ Lengths \in [Item -> Nat]
    <2>1. f \in [Item -> Int] /\ IsFiniteSet(Item)
      BY <1>1, InventoryAssumption
    <2> QED
      BY <1>1, <2>1, SumInt DEF Lengths
  <1>3. /\ report'.read = report.read \cup {"balances"}
        /\ report'.balanceTotal = SumFunction(f) /\ report'.balancesAt = Lengths
        /\ report'.itemStockTotal = report.itemStockTotal
        /\ report'.counted = report.counted /\ report'.itemsAt = report.itemsAt
    BY <1>0 DEF ReadBalances, Report
  <1>4. report' \in Report
    BY <1>0, <1>2 DEF ReadBalances, Report, Collections
  <1>5. \A i \in Item : LocatedAt(i, report.balancesAt[i])' = f[i]
    <2> SUFFICES ASSUME NEW i \in Item PROVE LocatedAt(i, report.balancesAt[i])' = f[i]
      OBVIOUS
    <2>1. report'.balancesAt[i] = Len(ledger[i])
      BY <1>3 DEF Lengths
    <2>2. LocatedAt(i, report.balancesAt[i])' = LocatedAt(i, Len(ledger[i]))
      BY <1>0, <2>1 DEF LocatedAt
    <2> QED
      BY <1>1, <2>2
  <1>6. [i \in Item |-> LocatedAt(i, report.balancesAt[i])'] = f
    BY <1>5
  <1>7. "items" \in report'.read =>
          /\ \A i \in Item : report'.itemsAt[i] \in 0..Len(ledger'[i])
          /\ report'.itemStockTotal = SumFunction([i \in Item |-> StockRead(i)'])
    <2>1. ASSUME NEW i \in Item PROVE StockRead(i)' = StockRead(i)
      BY <1>0, <1>3 DEF StockRead, UnlocatedAt, LocatedAt
    <2>2. [i \in Item |-> StockRead(i)'] = [i \in Item |-> StockRead(i)]
      BY <2>1
    <2> QED
      BY <1>0, <1>3, <2>2 DEF ReadOK
  <1>8. \A i \in Item : report'.balancesAt[i] \in 0..Len(ledger'[i])
    BY <1>0, <1>1, <1>3 DEF Lengths
  <1> HIDE DEF f
  <1> QED
    BY <1>3, <1>4, <1>6, <1>7, <1>8 DEF ReadOK

LEMMA ReportInitInv == ReportInit => ReportInv
  <1> SUFFICES ASSUME ReportInit PROVE ReportInv
    OBVIOUS
  <1>1. IInv /\ SumsInv
    BY InitIInv, InitSums DEF ReportInit
  <1>2. report \in Report /\ ReadOK
    BY DEF ReportInit, NoReport, Report, ReadOK
  <1> QED
    BY <1>1, <1>2 DEF ReportInv

LEMMA ReportStepInv == ReportInv /\ [ReportNext]_<<vars, report>> => ReportInv'
  <1> SUFFICES ASSUME ReportInv, [ReportNext]_<<vars, report>> PROVE ReportInv'
    OBVIOUS
  <1>0. IInv /\ SumsInv /\ report \in Report
    BY DEF ReportInv
  <1>1. CASE [Next]_vars /\ UNCHANGED report
    <2>1. IInv' /\ SumsInv'
      BY <1>0, <1>1, StepKeeps, StepSums
    <2> QED
      BY <1>0, <1>1, <2>1, ReadsStay DEF ReportInv
  <1>2. CASE ReadItems
    BY <1>0, <1>2, ServeKeeps, ReadItemsKeeps DEF ReadItems, ReportInv
  <1>3. CASE ReadBalances
    BY <1>0, <1>3, ServeKeeps, ReadBalancesKeeps DEF ReadBalances, ReportInv
  <1>4. CASE Answer
    <2>1. IInv' /\ SumsInv'
      BY <1>0, <1>4, StepKeeps, StepSums DEF Answer
    <2>2. report' \in Report /\ ReadOK'
      BY <1>4 DEF Answer, NoReport, Report, ReadOK
    <2> QED
      BY <2>1, <2>2 DEF ReportInv
  <1> QED
    BY <1>1, <1>2, <1>3, <1>4 DEF ReportNext

\* The types of Inventory and of the report hold for any number of items, warehouses,
\* stocktakes and requests: no interleaving of movements, transfers and stocktakes
\* makes a stock or a balance negative (InventoryService, the underflow checks).
THEOREM ReportTypeCorrect == ReportSpec => []ReportTypeOK
  <1>1. ReportInv => ReportTypeOK
    BY DEF ReportInv, ReportTypeOK, IInv
  <1> QED
    BY <1>1, ReportInitInv, ReportStepInv, PTL DEF ReportSpec

\* The drift getReconciliation reports is explained to the unit by the initial stock
\* and direct movements of the active items, the balances of the deleted ones, and
\* what was committed between its two reads, for any number of items, warehouses and
\* requests.
THEOREM DriftsAreExplained == ReportSpec => []DriftIsExplained
  <1>1. ReportInv => DriftIsExplained
    <2> SUFFICES ASSUME ReportInv, report.read = Collections PROVE DriftIsExplained
      BY DEF DriftIsExplained
    <2> DEFINE f == [i \in Item |-> StockRead(i)]
               g == [i \in Item |-> LocatedAt(i, report.balancesAt[i])]
               d == [i \in Item |->
                 IF i \in report.counted
                 THEN Opening[i] + UnlocatedAt(i, report.itemsAt[i])
                      + (LocatedAt(i, report.itemsAt[i]) - LocatedAt(i, report.balancesAt[i]))
                 ELSE 0 - LocatedAt(i, report.balancesAt[i])]
    <2>1. /\ \A i \in Item : report.itemsAt[i] \in 0..Len(ledger[i])
                             /\ report.balancesAt[i] \in 0..Len(ledger[i])
          /\ report.itemStockTotal = SumFunction(f) /\ report.balanceTotal = SumFunction(g)
      BY DEF ReportInv, ReadOK, Collections
    <2>2. ASSUME NEW i \in Item
          PROVE  f[i] \in Int /\ g[i] \in Int /\ d[i] \in Int /\ d[i] = f[i] - g[i]
      <3>1. /\ UnlocatedAt(i, report.itemsAt[i]) \in Int
            /\ LocatedAt(i, report.itemsAt[i]) \in Int
            /\ LocatedAt(i, report.balancesAt[i]) \in Int /\ Opening[i] \in Int
        BY <2>1, MovementsAdd, InventoryAssumption DEF ReportInv
      <3> QED
        BY <3>1 DEF StockRead
    <2>3. /\ IsFiniteSet(Item)
          /\ f \in [Item -> Int] /\ g \in [Item -> Int] /\ d \in [Item -> Int]
          /\ \A i \in Item : d[i] = f[i] - g[i]
      BY <2>2, InventoryAssumption
    <2> HIDE DEF f, g, d
    <2>4. SumFunction(d) = SumFunction(f) - SumFunction(g)
      BY <2>3, SumMinus
    <2>5. Drift = SumFunction(d)
      BY <2>1, <2>4 DEF Drift
    <2> QED
      BY <2>5 DEF DriftIsExplained, d
  <1> QED
    BY <1>1, ReportInitInv, ReportStepInv, PTL DEF ReportSpec
=============================================================================
