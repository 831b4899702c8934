SPECIFICATION MCSpec
CONSTANTS
  widget = widget
  invA = invA
  invB = invB
  k1 = k1
  k2 = k2
  line1 = line1
  line2 = line2
  adjustment = adjustment
  p1 = p1
  p2 = p2
  NoDoc = NoDoc
  NoKey = NoKey
  NoLine = NoLine
  Idle = Idle
  Items <- MCItems
  Docs <- MCDocs
  Lines <- MCLines
  Keys = {adjustment}
  Requests = {}
  Workers = {w1}
  Quantities = {2}
  Costs = {3}
  MaxCents = 20
  MaxMoves = 3
  Totals <- MCTotals
  RateUnit = 2
  Payers = {p1, p2}
  PayKeys = {k1, k2}
  BankLines = {line1, line2}
  LineAmount <- MCLineAmount
  Settlements <- MCSettlements
CHECK_DEADLOCK FALSE
INVARIANT
  PaidIsReceived
