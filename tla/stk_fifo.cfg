SPECIFICATION Spec
CONSTANTS
  c1 = c1  c2 = c2  w1 = w1  w2 = w2  f1 = f1  i1 = i1  d1 = d1  None = None
  Need <- MCNeed
  From <- MCFrom
  Clients = {c1}
  Warehouses = {w1, w2, f1}
  Recipes <- MCRecipes
  Invoices = {i1}
  Docs = {d1}
  Kinds = {"INVENTORY_COUNT"}
  Quantities = {2}
  Prices = {1, 3}
  Requests = {"BUY", "SALE", "MOVE", "OUT", "POST", "RELEASE"}
  Fifo = TRUE
  AllowNegative = FALSE
  Receiving = {w1}
  MaxDate = 1
  MaxMoves = 5
INVARIANTS
  TypeOK
  QtyIsMovements
  LayersAreStock
  LedgerIsLayers
PROPERTIES
  CountIsApplied
CHECK_DEADLOCK FALSE
