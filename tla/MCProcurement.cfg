SPECIFICATION ProcurementSpec
CONSTANTS
  bolt = bolt
  nut = nut
  ann = ann
  ben = ben
  eve = eve
  o1 = o1
  o2 = o2
  k1 = k1
  k2 = k2
  b1 = b1
  b2 = b2
  n1 = n1
  n2 = n2
  NoDoc = NoDoc
  NoKey = NoKey
  Idle = Idle
  None = None
  Items <- MCItems
  Docs = {}
  Lines <- MCNoLines
  Keys = {}
  Requests = {}
  Workers = {}
  Quantities = {}
  Costs = {}
  MaxCents = 50
  MaxMoves = 4
  Users = {ann, ben, eve}
  Suppliers = {s1}
  Requisitions = {r1}
  Orders = {o1, o2}
  Receipts = {k1, k2}
  Bills = {b1, b2}
  BillNumbers = {n1, n2}
  Baskets <- MCBaskets
  PriceLists <- MCPriceLists
  Rates = {1, 3}
  RateUnit = 2
SYMMETRY Alike
CONSTRAINTS
  OneOrderInDepth
  PricesInDepth
CHECK_DEADLOCK FALSE
INVARIANTS
  NobodyBuysAlone
  OrdersMatch
  
