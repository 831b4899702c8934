---------------------------- MODULE StockLedger ----------------------------
(***************************************************************************)
(* The stock ledger of server/src/inventory.ts and its general-ledger      *)
(* shadow.  A tracked product in a warehouse (an item) has a cached        *)
(* balance (stock_levels), a weighted-average cost layer                   *)
(* (inventory_valuation_layers) and an append-only history of movements    *)
(* with immutable valuation evidence.  Every movement with a value posts   *)
(* to the INVENTORY account in the transaction that makes it.              *)
(*                                                                         *)
(* A transaction that locks the stock row and then the layer row, in that  *)
(* order and until it commits, is one action.  The manual adjustment is    *)
(* two: its idempotency look-up runs before any lock is taken.             *)
(***************************************************************************)
EXTENDS Integers, Sequences, FiniteSets, FiniteSetsExt

CONSTANTS
  Items,        \* product and warehouse pairs
  Docs,         \* invoices that sell tracked products
  Lines,        \* Lines[d][i]: quantity of item i that invoice d sells
  Keys,         \* idempotency keys of adjustments
  Requests,     \* adjustments a user may send: [key, item, delta]
  Workers,      \* server processes that handle adjustments at the same time
  Quantities,   \* quantities of an opening balance or a receipt
  Costs,        \* costs, in cents, of a receipt or of one adjusted unit
  MaxCents,     \* MAX_VALUATION_CENTS
  MaxMoves,     \* bound of the model: movements of one item
  NoDoc, NoKey, \* absent source document, absent idempotency key
  Idle          \* a worker that handles no adjustment

VARIABLES
  level,        \* stock_levels.quantity_on_hand
  layer,        \* inventory_valuation_layers: quantity and total cost
  history,      \* stock_movements with their valuation evidence
  inventoryGL,  \* INVENTORY debits less credits posted for the item's movements
  worker        \* the adjustment a worker found no earlier movement for

stockVars == <<level, layer, history, inventoryGL, worker>>

ASSUME ConstantsAreSane ==
  /\ IsFiniteSet(Items)
  /\ Lines \in [Docs -> [Items -> Nat]]
  /\ Requests \subseteq [key : Keys, item : Items, delta : Int \ {0}]
  /\ Quantities \subseteq Nat \ {0}
  /\ Costs \subseteq Nat
  /\ MaxCents \in Nat
  /\ MaxMoves \in Nat
  /\ NoDoc \notin Docs
  /\ NoKey \notin Keys
  /\ Idle \notin Requests

Layer == [qty : Nat, cost : Nat]

Movement ==
  [delta : Int, cost : Nat, qtyBefore : Nat, costBefore : Nat,
   doc : Docs \cup {NoDoc}, key : Keys \cup {NoKey}]

StockTypeOK ==
  /\ level \in [Items -> Nat]
  /\ layer \in [Items -> Layer]
  /\ history \in [Items -> Seq(Movement)]
  /\ inventoryGL \in [Items -> Int]
  /\ worker \in [Workers -> Requests \cup {Idle}]

StockInit ==
  /\ level = [i \in Items |-> 0]
  /\ layer = [i \in Items |-> [qty |-> 0, cost |-> 0]]
  /\ history = [i \in Items |-> <<>>]
  /\ inventoryGL = [i \in Items |-> 0]
  /\ worker = [w \in Workers |-> Idle]

----------------------------------------------------------------------------
(* The arithmetic of recordStockMovement.                                  *)

RoundHalfUp(n, d) == (n + (d \div 2)) \div d

\* Cost of issuing n units: the last units take whatever cost is left.
IssueCost(l, n) ==
  IF n = l.qty THEN l.cost ELSE RoundHalfUp(l.cost * n, l.qty)

\* Faulty variant: a receipt that costs nothing never reaches the layer.
ReceivedIfValued(l, n, c) ==
  IF c = 0 THEN l ELSE [qty |-> l.qty + n, cost |-> l.cost + c]

\* The layer after a receipt of n units that cost c, after an issue of n.
Received(l, n, c) == [qty |-> l.qty + n, cost |-> l.cost + c]
Issued(l, n) == [qty |-> l.qty - n, cost |-> l.cost - IssueCost(l, n)]

\* The two guards of recordStockMovement that look at the outcome: the layer
\* agrees with the balance, and the new cost is in range and zero when empty.
InSync(i) == level[i] = layer[i].qty
Consistent(l) ==
  /\ l.cost >= 0
  /\ l.cost <= MaxCents
  /\ l.qty = 0 => l.cost = 0

CanReceive(i, n, c) == InSync(i) /\ n > 0 /\ c >= 0 /\ Consistent(Received(layer[i], n, c))

CanIssue(i, n) ==
  /\ InSync(i)
  /\ n > 0
  /\ n <= level[i]
  /\ Consistent(Issued(layer[i], n))

Moved(i, d, c, doc, key) ==
  Append(history[i], [delta |-> d, cost |-> c, qtyBefore |-> layer[i].qty,
                      costBefore |-> layer[i].cost, doc |-> doc, key |-> key])

Room(i) == Len(history[i]) < MaxMoves

\* One receipt of item i, with its debit of the INVENTORY account.
Receive(i, n, c, doc, key) ==
  /\ Room(i)
  /\ CanReceive(i, n, c)
  /\ level' = [level EXCEPT ![i] = @ + n]
  /\ layer' = [layer EXCEPT ![i] = Received(@, n, c)]
  /\ history' = [history EXCEPT ![i] = Moved(i, n, c, doc, key)]
  /\ inventoryGL' = [inventoryGL EXCEPT ![i] = @ + c]

\* Faulty variant: the journal rounds down, the layer to the nearest cent.
IssueTruncated(i, n, doc, key) ==
  /\ Room(i)
  /\ CanIssue(i, n)
  /\ level' = [level EXCEPT ![i] = @ - n]
  /\ layer' = [layer EXCEPT ![i] = Issued(@, n)]
  /\ history' = [history EXCEPT ![i] = Moved(i, -n, IssueCost(layer[i], n), doc, key)]
  /\ inventoryGL' = [inventoryGL EXCEPT ![i] = @ - ((layer[i].cost * n) \div layer[i].qty)]

\* One issue of item i, with its credit of the INVENTORY account.
Issue(i, n, doc, key) ==
  /\ Room(i)
  /\ CanIssue(i, n)
  /\ level' = [level EXCEPT ![i] = @ - n]
  /\ layer' = [layer EXCEPT ![i] = Issued(@, n)]
  /\ history' = [history EXCEPT ![i] = Moved(i, -n, IssueCost(layer[i], n), doc, key)]
  /\ inventoryGL' = [inventoryGL EXCEPT ![i] = @ - IssueCost(layer[i], n)]

----------------------------------------------------------------------------
(* Opening balances and goods receipts.                                    *)

\* recordOpeningStock: no earlier movement and a positive value, because
\* postJournal refuses a journal of zero.
OpeningStock(i, n, c) ==
  /\ level[i] = 0
  /\ history[i] = <<>>
  /\ n * c > 0
  /\ Receive(i, n, n * c, NoDoc, NoKey)
  /\ UNCHANGED worker

\* The stock half of postGoodsReceipt for one line: the receipt brings its
\* own total; a receipt of no value posts no journal.
GoodsReceipt(i, n, c) ==
  /\ Receive(i, n, c, NoDoc, NoKey)
  /\ UNCHANGED worker

----------------------------------------------------------------------------
(* Sales and their reversal, the stock half of issueInvoice / voidInvoice. *)

\* The movements of item i that carry invoice d as their source.
Sales(d, i) == {k \in DOMAIN history[i] : history[i][k].doc = d /\ history[i][k].delta < 0}
Returns(d, i) == {k \in DOMAIN history[i] : history[i][k].doc = d /\ history[i][k].delta > 0}

Sold(d) == {i \in Items : Sales(d, i) # {}}
Wanted(d) == {i \in Items : Lines[d][i] > 0}

\* All the lines or none: one line short of stock rolls the invoice back.
IssueStock(d) ==
  /\ Sold(d) = {}
  /\ \A i \in Wanted(d) : Room(i) /\ CanIssue(i, Lines[d][i])
  /\ level' = [i \in Items |-> level[i] - Lines[d][i]]
  /\ layer' = [i \in Items |->
       IF i \in Wanted(d) THEN Issued(layer[i], Lines[d][i]) ELSE layer[i]]
  /\ history' = [i \in Items |->
       IF i \in Wanted(d)
       THEN Moved(i, -Lines[d][i], IssueCost(layer[i], Lines[d][i]), d, NoKey)
       ELSE history[i]]
  /\ inventoryGL' = [i \in Items |->
       IF i \in Wanted(d)
       THEN inventoryGL[i] - IssueCost(layer[i], Lines[d][i])
       ELSE inventoryGL[i]]
  /\ UNCHANGED worker

\* Faulty variant: what comes back is valued at today's average cost.
SaleAtAverage(d, i) ==
  LET m == history[i][CHOOSE k \in Sales(d, i) : TRUE] IN
  [m EXCEPT !.cost = IF layer[i].qty = 0 THEN @
                     ELSE RoundHalfUp(layer[i].cost * (-m.delta), layer[i].qty)]

\* The valuation evidence of what invoice d took from item i.
SaleOf(d, i) == history[i][CHOOSE k \in Sales(d, i) : TRUE]

\* Every sale movement of d returns at the cost it was issued at, whatever
\* the average cost has become; the COGS journal is reversed with it.
ReturnStock(d) ==
  /\ Sold(d) # {}
  /\ \A i \in Sold(d) :
       /\ Returns(d, i) = {}
       /\ Room(i)
       /\ CanReceive(i, -SaleOf(d, i).delta, SaleOf(d, i).cost)
  /\ level' = [i \in Items |->
       IF i \in Sold(d) THEN level[i] - SaleOf(d, i).delta ELSE level[i]]
  /\ layer' = [i \in Items |->
       IF i \in Sold(d)
       THEN Received(layer[i], -SaleOf(d, i).delta, SaleOf(d, i).cost)
       ELSE layer[i]]
  /\ history' = [i \in Items |->
       IF i \in Sold(d)
       THEN Moved(i, -SaleOf(d, i).delta, SaleOf(d, i).cost, d, NoKey)
       ELSE history[i]]
  /\ inventoryGL' = [i \in Items |->
       IF i \in Sold(d) THEN inventoryGL[i] + SaleOf(d, i).cost ELSE inventoryGL[i]]
  /\ UNCHANGED worker

----------------------------------------------------------------------------
(* Manual adjustments.                                                     *)

KeyUsed(key) == \E i \in Items : \E k \in DOMAIN history[i] : history[i][k].key = key

\* The first statement of adjustStock.  A used key answers with the earlier
\* movement, or with a conflict, and changes nothing.
AdjustCheck(w, r) ==
  /\ worker[w] = Idle
  /\ ~KeyUsed(r.key)
  /\ worker' = [worker EXCEPT ![w] = r]
  /\ UNCHANGED <<level, layer, history, inventoryGL>>

Done(w) == worker' = [worker EXCEPT ![w] = Idle]

\* Faulty variant: the look-up before the locks is taken for an answer.
AdjustApplyUnchecked(w) ==
  LET r == worker[w] IN
  /\ r # Idle
  /\ \/ r.delta > 0 /\ \E c \in Costs : Receive(r.item, r.delta, r.delta * c, NoDoc, r.key)
     \/ r.delta < 0 /\ Issue(r.item, -r.delta, NoDoc, r.key)
  /\ worker' = [worker EXCEPT ![w] = Idle]

\* The key is still free under the row locks: move the stock, post its value.
AdjustApply(w) ==
  LET r == worker[w] IN
  /\ r # Idle
  /\ ~KeyUsed(r.key)
  /\ \/ r.delta > 0 /\ \E c \in Costs : Receive(r.item, r.delta, r.delta * c, NoDoc, r.key)
     \/ r.delta < 0 /\ Issue(r.item, -r.delta, NoDoc, r.key)
  /\ Done(w)

\* recordStockMovement finds the key under the lock and answers with the
\* earlier movement; adjustStock posts that movement's value a second time.
SameMovement(r, k) ==
  /\ history[r.item][k].key = r.key
  /\ history[r.item][k].delta = r.delta

AdjustReplay(w) ==
  LET r == worker[w] IN
  /\ r # Idle
  /\ \E k \in DOMAIN history[r.item] :
       /\ SameMovement(r, k)
       /\ inventoryGL' = [inventoryGL EXCEPT ![r.item] =
            IF r.delta > 0 THEN @ + history[r.item][k].cost
                           ELSE @ - history[r.item][k].cost]
  /\ Done(w)
  /\ UNCHANGED <<level, layer, history>>

\* Every other outcome is an error, which rolls the transaction back.
AdjustRefuse(w) ==
  /\ worker[w] # Idle
  /\ Done(w)
  /\ UNCHANGED <<level, layer, history, inventoryGL>>

----------------------------------------------------------------------------

\* The movements that no invoice makes.
WarehouseStep ==
  \/ \E i \in Items, n \in Quantities, c \in Costs : OpeningStock(i, n, c)
  \/ \E i \in Items, n \in Quantities, c \in Costs : GoodsReceipt(i, n, c)
  \/ \E w \in Workers, r \in Requests : AdjustCheck(w, r)
  \/ \E w \in Workers : AdjustApply(w)
  \/ \E w \in Workers : AdjustReplay(w)
  \/ \E w \in Workers : AdjustRefuse(w)

StockNext ==
  \/ WarehouseStep
  \/ \E d \in Docs : IssueStock(d)
  \/ \E d \in Docs : ReturnStock(d)

StockSpec == StockInit /\ [][StockNext]_stockVars

----------------------------------------------------------------------------
(* rebuildValuationLayerFromHistory: the cache recomputed from history.    *)

\* The layer after the first k movements of item i, each at the cost its
\* evidence carries.
Rebuilt(i) ==
  LET after[k \in 0 .. Len(history[i])] ==
        IF k = 0 THEN [qty |-> 0, cost |-> 0]
        ELSE LET m == history[i][k] IN
             [qty  |-> after[k - 1].qty + m.delta,
              cost |-> IF m.delta > 0 THEN after[k - 1].cost + m.cost
                                      ELSE after[k - 1].cost - m.cost]
  IN  after

\* "Immutable stock valuation evidence is inconsistent" is not thrown.
EvidenceMatches(i) ==
  \A k \in DOMAIN history[i] :
    /\ history[i][k].qtyBefore = Rebuilt(i)[k - 1].qty
    /\ history[i][k].costBefore = Rebuilt(i)[k - 1].cost
    /\ Consistent(Rebuilt(i)[k])

----------------------------------------------------------------------------
(* The tie-out.                                                            *)

PositionStatus(i) == IF level[i] = layer[i].qty THEN "ALIGNED" ELSE "QUANTITY_MISMATCH"

\* inventoryValuationReconciliation: totals against the control account, and
\* quantities position by position.  Every item has its stock level and layer.
Reconciliation ==
  LET balance == SumFunction(inventoryGL)
      valuation == SumFunction([i \in Items |-> layer[i].cost])
      mismatches == {i \in Items : PositionStatus(i) # "ALIGNED"}
  IN [difference |-> balance - valuation, mismatches |-> mismatches,
      status |-> IF balance = valuation /\ mismatches = {} THEN "RECONCILED" ELSE "NEEDS_REVIEW"]

----------------------------------------------------------------------------
(* Properties.                                                             *)

\* What recordStockMovement assumes of the two rows it locks, and keeps: the
\* balance and the layer agree, the cost is in range, and an empty shelf is
\* worth nothing.  No stock is ever oversold, because both are naturals.
ValuationSound == \A i \in Items : InSync(i) /\ Consistent(layer[i])

\* Both of these, of states of the right types: quantities and costs are naturals.
StockSound == StockTypeOK /\ ValuationSound

\* The cached layer is what the append-only history and its evidence add up
\* to, so rebuilding a lost layer never refuses and never changes a balance.
HistoryReplays ==
  \A i \in Items : EvidenceMatches(i) /\ Rebuilt(i)[Len(history[i])] = layer[i]

\* The INVENTORY control account carries exactly the cost of the stock on
\* hand: inventory.ts promises that Inventory and Accounting never disagree.
InventoryReconciles == \A i \in Items : inventoryGL[i] = layer[i].cost

\* However often a client retries an adjustment, and however many servers
\* take it up at once, its key moves the stock once.
KeyMovesOnce ==
  \A i, j \in Items : \A k \in DOMAIN history[i], l \in DOMAIN history[j] :
    (history[i][k].key = history[j][l].key /\ history[i][k].key # NoKey)
      => (i = j /\ k = l)

\* A voided invoice gives back the quantity and the cost it took, item by
\* item, even when the average cost moved between its issue and its void.
VoidRestoresCost ==
  \A d \in Docs, i \in Items : \A k \in Sales(d, i), l \in Returns(d, i) :
    /\ history[i][l].delta = -history[i][k].delta
    /\ history[i][l].cost = history[i][k].cost

\* The append-only history tells everything: what is on the shelf, and what a
\* void gives back.
HistoryTells == HistoryReplays /\ VoidRestoresCost
=============================================================================
