SPECIFICATION Spec
CONSTANTS
  c1 = c1  c2 = c2  i1 = i1  i2 = i2  l1 = l1  l2 = l2  None = None
  Clients = {c1}
  Invoices = {i1, i2}
  Total <- MCTotal
  Rank <- MCRank
  Foreign = {}
  DebitAccount <- MCCash
  Lines = {l1}
  LineAmount <- MCLine
  Amounts = {1, 2}
  Accounts = {"221"}
  Roles = {"ACCOUNTANT"}
  Requests = {"SENT", "PAY", "NET"}
  Tolerance = 1
  Payable = 2
  MaxRows = 4
  MaxPending = 2
INVARIANTS
  PaidIsSumOfPayments
