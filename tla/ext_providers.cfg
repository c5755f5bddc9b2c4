SPECIFICATION ProvidersSpec
CONSTANTS
  h1 = h1  h2 = h2  o1 = o1  o2 = o2  None = None
  d1 = d1  d2 = d2  g1 = g1  g2 = g2  k1 = k1  k2 = k2  k3 = k3  Balances = Balances
  Sides = {"orders", "calls"}
  Handlers = {h1, h2}
  Orders = {o1, o2}
  Months <- MCMonths
  MaxMonth = 1
  MaxAborts = 1
  Callers = {h1, h2}
  Uses <- MCUses
  Drafts = {d1, d2}
  Transfers = {g1, g2}
  KeyOf <- MCKeyOf
  MaxTries = 2
  Threshold = 2
  OpenTime = 2
  KeyTime = 3
INVARIANTS
  ProvidersTypeOK
  AppliedOnce
  InstructedOnce
PROPERTIES
  OutcomeIsFinal
  CollectedIsApplied
  ProbedAgain
