SPECIFICATION Spec
CONSTANTS
  h1 = h1  h2 = h2  o1 = o1  o2 = o2  None = None
  Handlers = {h1, h2}
  Orders = {o1, o2}
  Months <- MCMonths
  MaxMonth = 1
  MaxAborts = 0
PROPERTIES
  MonthsAreAdded
