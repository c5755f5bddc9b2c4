SPECIFICATION Spec
CONSTANTS
  c1 = c1  c2 = c2  i1 = i1  i2 = i2  l1 = l1  l2 = l2  None = None
  Clients = {c1}
  Invoices = {i1, i2}
  Total <- MCTotal
  Rank <- MCRank
  Foreign = {i1}
  DebitAccount <- MCCash
  Lines = {l1}
  LineAmount <- MCLine
  Amounts = {1, 2, 3}
  Accounts = {"101", "221"}
  Roles = {"USER", "ACCOUNTANT"}
  Requests = {"SENT", "PAID", "PAY", "ALLOC", "BANK", "SIGN"}
  Tolerance = 1
  Payable = 0
  MaxRows = 4
  MaxPending = 2
INVARIANTS
  TypeOK
  Subledger211
  RevenueOnce
  PaidIsSumOfPayments
  StatusFollowsMoney
  RoundingBounded
  LineBookedOnce
  SignedOnce
PROPERTIES
  ImplementsOpenItems
