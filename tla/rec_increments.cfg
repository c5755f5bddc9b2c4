SPECIFICATION Spec
CONSTANTS
  c1 = c1  c2 = c2  i1 = i1  i2 = i2  l1 = l1  l2 = l2  None = None
  Clients = {c1, c2}
  Invoices = {i1}
  Total <- MCOneTotal
  Rank <- MCOneRank
  Foreign = {i1}
  DebitAccount <- MCCash
  Lines = {l1}
  LineAmount <- MCLine
  Amounts = {1, 2}
  Accounts = {"101", "221"}
  Roles = {"ACCOUNTANT"}
  Requests = {"SENT", "PAID", "PAY", "BANK", "SIGN"}
  Tolerance = 1
  Payable = 0
  MaxRows = 4
  MaxPending = 1
SYMMETRY Symmetry
INVARIANTS
  PaidIsSumOfPayments
  CashHasOrders
  MoneyIsRegistered
PROPERTIES
  PaidNeverShrinks
