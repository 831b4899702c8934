SPECIFICATION MCSpec
CONSTANTS
  widget = widget
  gadget = gadget
  one = one
  both = both
  k1 = k1
  k2 = k2
  w1 = w1
  w2 = w2
  NoDoc = NoDoc
  NoKey = NoKey
  Idle = Idle
  Keys = {k1, k2}
  Docs = {one, both}
  Items <- MCItems
  Lines <- MCLines
  Requests <- MCRequests
  Workers = {w1, w2}
  Quantities = {1, 3}
  Costs = {0, 2, 5}
  MaxCents = 20
  MaxMoves = 5
SYMMETRY Alike
CHECK_DEADLOCK FALSE
INVARIANTS
  StockSound
  ReconcilesInTurn
  
  KeyMovesOnce
