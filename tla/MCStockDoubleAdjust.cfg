SPECIFICATION MCSpec
CONSTANTS
  widget = widget
  gadget = gadget
  one = one
  both = both
  k1 = k1
  k2 = k2
  w1 = w1
  w2 = w2
  NoDoc = NoDoc
  NoKey = NoKey
  Idle = Idle
  Keys = {k1, k2}
  Docs = {one, both}
  Items <- MCItems
  Lines <- MCLines
  Requests <- MCRequests
  Workers = {w1, w2}
  Quantities = {3}
  Costs = {2}
  MaxCents = 20
  MaxMoves = 4
CHECK_DEADLOCK FALSE
INVARIANTS
  InventoryReconciles
