SPECIFICATION Spec
CONSTANTS
  c1 = c1  c2 = c2  i1 = i1  i2 = i2  l1 = l1  l2 = l2  None = None
  Clients = {c1, c2}
  Invoices = {i1, i2}
  Total <- MCUnit
  Rank <- MCRank
  Foreign = {}
  DebitAccount <- MCCash
  Lines = {}
  LineAmount <- MCNoLine
  Amounts = {1, 2}
  Accounts = {"221"}
  Roles = {"ACCOUNTANT"}
  Requests = {"SENT", "PAY", "ALLOC", "NET"}
  Tolerance = 1
  Payable = 2
  MaxRows = 2
  MaxPending = 2
SYMMETRY Symmetry
INVARIANTS
  Subledger211
  RevenueBeforeMoney
  RecognizedIsPosted
