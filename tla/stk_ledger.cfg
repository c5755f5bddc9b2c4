SPECIFICATION Spec
CONSTANTS
  c1 = c1  c2 = c2  w1 = w1  w2 = w2  f1 = f1  i1 = i1  d1 = d1  None = None
  Need <- MCNeed
  From <- MCFrom
  Clients = {c1, c2}
  Warehouses = {w1, w2, f1}
  Recipes <- MCPlainOnly
  Invoices = {}
  Docs = {d1}
  Kinds = {"AUDIT", "WRITE_OFF", "SURPLUS"}
  Quantities = {1}
  Prices = {1, 2}
  Requests = {"MOVE", "IN", "OUT", "POST", "APPROVE", "RELEASE"}
  Fifo = FALSE
  AllowNegative = TRUE
  Receiving = {w1}
  MaxDate = 0
  MaxMoves = 3
INVARIANTS
  LedgerFollowsMovements
SYMMETRY Symmetry
CHECK_DEADLOCK FALSE
