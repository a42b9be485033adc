\* Two requests at a time, three in all, of every kind: two items, two warehouses.
SPECIFICATION ReportSpec
CONSTANTS
  Item = {i1, i2}
  Opening <- OneInitially
  Warehouse = {w1, w2}
  Stocktake = {s1}
  Key = {k1}
  Req = {r1, r2}
  Kinds <- AllKinds
  Quantity = {1}
  Count = {2}
  NoItem = NoItem  NoWarehouse = NoWarehouse
  NoStocktake = NoStocktake  NoKey = NoKey
  MaxRequests = 3
INVARIANTS ReportTypeOK LedgerExplainsStock DriftIsExplained KeyMovesOnce
PROPERTY AdjustsOpenStocktakes
SYMMETRY InventorySymmetry
CHECK_DEADLOCK FALSE
