--------------------------- MODULE MCProcurement ---------------------------
(* One requisition, two orders, two items, deliveries and bills in parts.  *)
EXTENDS SupplierAnalytics, TLC

CONSTANTS bolt, nut, ann, ben, eve, o1, o2, k1, k2, b1, b2, n1, n2

MCItems == {bolt, nut}
Of(b, n) == (bolt :> b) @@ (nut :> n)
MCBaskets == {Of(1, 0), Of(1, 1), Of(2, 1)}
MCPriceLists == {Of(1, 3), Of(1, 2)}
MCNoLines == [d \in {} |-> 0]
Alike ==
  Permutations({ann, ben, eve}) \cup Permutations({o1, o2}) \cup Permutations({k1, k2})
    \cup Permutations({b1, b2}) \cup Permutations({n1, n2})

\* Bounds on prices: orders are placed at the usual ones, a bill asks others
\* while it is the only one, and two bills come at different rates.
Usual(p) == p = Of(1, 3)
Alone(b) == \A c \in Bills \ {b} : bill[c].status = "ABSENT"
PricesInDepth ==
  /\ \A o \in Orders : order[o].status = "ABSENT" \/ Usual(order[o].cost)
  /\ \A b \in Bills : bill[b].status = "ABSENT" \/ Usual(bill[b].price)
       \/ (Alone(b) /\ bill[b].qty = Of(1, 1) /\ bill[b].rate = 1)
  /\ \A b \in Bills : Alone(b) \/ bill[b1].rate # bill[b2].rate

\* Bound of the run: a delivery is split and billed while there is one order;
\* two orders of one content compete for the requisition and for one receipt.
OneOrderInDepth ==
  Cardinality({o \in Orders : order[o].status # "ABSENT"}) > 1
    => /\ \A o \in Orders : order[o].rate = 1 /\ order[o].qty = Of(1, 1)
       /\ Cardinality({k \in Receipts : receipt[k].order # None}) <= 1
       /\ \A b \in Bills : bill[b].status = "ABSENT"
=============================================================================
