SPECIFICATION Spec
CONSTANTS
  a1 = a1  a2 = a2  k1 = k1  x1 = x1  x2 = x2  y1 = y1  r1 = r1  g1 = g1  g2 = g2  p1 = p1  l1 = l1  l2 = l2
  e1 = e1  e2 = e2  e3 = e3  q1 = q1  q2 = q2  d1 = d1  d2 = d2  d3 = d3  b1 = b1  b2 = b2  None = None
  c1 = c1  c2 = c2
  Clients = {c1, c2}
  MaxRequests = 4
  LastMonth = 2
  MonthDays = 2
  Assets = {a1, a2}
  MaxDep <- MCMaxDep
  Monthly <- MCMonthly
  Locks = {0, 2, None}
  Orders = {k1, x1, x2, r1, y1}
  Kind <- MCKind
  CashAmount <- MCCashAmount
  Registries = {g1, g2}
  Drafts = {p1}
  Lines = {l1, l2}
  Wages <- MCWages
  PayAmount <- MCPayAmount
  Employees = {e1, e2, e3}
  Positions = {q1, q2}
  Departments = {d1, d2, d3}
  MaxSlots = 2
  Companies = {b1, b2}
  Established = {b1}
  LastBill = 3
  MaxDrafts = 1
  DraftDays = {1, 2}
  Scenes = {{"BILL"}}
INVARIANT LastMonthBilled
\* The number of requests is bounded: the model stops, the system does not.
CHECK_DEADLOCK FALSE
SYMMETRY Symmetry
