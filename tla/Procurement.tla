---------------------------- MODULE Procurement ----------------------------
(***************************************************************************)
(* From a purchase requisition to a posted supplier bill:                  *)
(* server/src/procurement.ts and server/src/supplier-bills.ts, over the    *)
(* stock ledger the goods receipt shares a transaction with.               *)
(*                                                                         *)
(* Every handler locks the row of the requisition, request for quotes,     *)
(* order or bill it decides about before it reads anything else of it, and *)
(* a receipt and a bill of one order both hold the order's row: each       *)
(* handler is one action.  A retry of a posted receipt or bill finds its   *)
(* idempotency key under that lock and changes nothing.                    *)
(***************************************************************************)
EXTENDS StockLedger

CONSTANTS
  Users, Suppliers,
  Requisitions,   \* purchase requisitions; each has at most one RFQ
  Orders,         \* purchase orders
  Receipts,       \* goods receipts, each with its idempotency key
  Bills,          \* supplier bills
  BillNumbers,    \* invoice numbers suppliers write on their bills
  Baskets,        \* quantities per item a document may ask for
  PriceLists,     \* unit costs per item, in cents of the document currency
  Rates,          \* exchange rates to the base currency
  RateUnit,       \* a rate of RateUnit converts one to one (1_000_000 in mulRate)
  None            \* no user, no supplier, no requisition, no order, no number

VARIABLES
  requisition,    \* purchase_requisitions
  rfq,            \* request_for_quotes and the suppliers invited, by requisition
  order,          \* purchase_orders with their lines
  receipt,        \* goods_receipts with their lines
  bill,           \* supplier_bills with their lines
  account         \* GRNI and AP credits less debits, FX debits less credits

procurementVars == <<requisition, rfq, order, receipt, bill, account>>
vars == <<stockVars, procurementVars>>

ASSUME ProcurementConstants ==
  /\ RateUnit \in Nat \ {0}
  /\ Rates \subseteq Nat \ {0}
  /\ Baskets \subseteq [Items -> Nat]
  /\ PriceLists \subseteq [Items -> Nat \ {0}]
  /\ \A q \in Baskets : \E i \in Items : q[i] > 0
  /\ \A S \in {Items, Suppliers, Orders, Receipts, Bills} : IsFiniteSet(S)
  /\ None \notin Users \cup Suppliers \cup Requisitions \cup Orders \cup BillNumbers

Quantity == [Items -> Nat]
Nothing == [i \in Items |-> 0]

Requisition ==
  [status : {"ABSENT", "SUBMITTED", "APPROVED", "REJECTED"},
   by : Users \cup {None}, decidedBy : Users \cup {None}, qty : Quantity]

Rfq == [status : {"ABSENT", "ISSUED", "AWARDED"}, invited : SUBSET Suppliers]

Order ==
  [status : {"ABSENT", "DRAFT", "ORDERED", "RECEIVED"}, of : Requisitions \cup {None},
   vendor : Suppliers \cup {None}, by : Users \cup {None}, approvedBy : Users \cup {None},
   qty : Quantity, cost : Quantity, rate : Nat \ {0}]

Receipt == [order : Orders \cup {None}, qty : Quantity]

Bill ==
  [status : {"ABSENT", "DRAFT", "POSTED"}, order : Orders \cup {None},
   number : BillNumbers \cup {None}, qty : Quantity, price : Quantity, rate : Nat \ {0}]

ProcurementTypeOK ==
  /\ StockTypeOK
  /\ requisition \in [Requisitions -> Requisition]
  /\ rfq \in [Requisitions -> Rfq]
  /\ order \in [Orders -> Order]
  /\ receipt \in [Receipts -> Receipt]
  /\ bill \in [Bills -> Bill]
  /\ account \in [grni : Int, ap : Nat, fx : Int]

ProcurementInit ==
  /\ StockInit
  /\ requisition = [r \in Requisitions |->
       [status |-> "ABSENT", by |-> None, decidedBy |-> None, qty |-> Nothing]]
  /\ rfq = [r \in Requisitions |-> [status |-> "ABSENT", invited |-> {}]]
  /\ order = [o \in Orders |->
       [status |-> "ABSENT", of |-> None, vendor |-> None, by |-> None, approvedBy |-> None,
        qty |-> Nothing, cost |-> Nothing, rate |-> RateUnit]]
  /\ receipt = [k \in Receipts |-> [order |-> None, qty |-> Nothing]]
  /\ bill = [b \in Bills |->
       [status |-> "ABSENT", order |-> None, number |-> None, qty |-> Nothing,
        price |-> Nothing, rate |-> RateUnit]]
  /\ account = [grni |-> 0, ap |-> 0, fx |-> 0]

----------------------------------------------------------------------------
(* Requisitions and requests for quotes.                                   *)

SubmitRequisition(r, u, q) ==
  /\ requisition[r].status = "ABSENT"
  /\ requisition' = [requisition EXCEPT ![r] =
       [status |-> "SUBMITTED", by |-> u, decidedBy |-> None, qty |-> q]]
  /\ UNCHANGED <<stockVars, rfq, order, receipt, bill, account>>

\* The status decideApproval answers a decision with.
Outcome(decision) == IF decision = "APPROVE" THEN "APPROVED" ELSE "REJECTED"

DecideRequisition(r, u, decision) ==
  /\ requisition[r].status = "SUBMITTED"
  /\ u # requisition[r].by
  /\ requisition' = [requisition EXCEPT ![r].status = Outcome(decision), ![r].decidedBy = u]
  /\ UNCHANGED <<stockVars, rfq, order, receipt, bill, account>>

IssueRfq(r, invited) ==
  /\ requisition[r].status = "APPROVED"
  /\ rfq[r].status = "ABSENT"
  /\ invited # {}
  /\ rfq' = [rfq EXCEPT ![r] = [status |-> "ISSUED", invited |-> invited]]
  /\ UNCHANGED <<stockVars, requisition, order, receipt, bill, account>>

----------------------------------------------------------------------------
(* Purchase orders.                                                        *)

\* insertDraftPurchaseOrder.
DraftOrder(o, u, r, vendor, q, cost, rate) ==
  /\ order[o].status = "ABSENT"
  /\ order' = [order EXCEPT ![o] =
       [status |-> "DRAFT", of |-> r, vendor |-> vendor, by |-> u, approvedBy |-> None,
        qty |-> q, cost |-> cost, rate |-> rate]]

DirectOrder(o, u, vendor, q, cost, rate) ==
  /\ DraftOrder(o, u, None, vendor, q, cost, rate)
  /\ UNCHANGED <<stockVars, requisition, rfq, receipt, bill, account>>

\* The order takes its quantities from the requisition, its costs from the quote.
AwardRfq(r, o, u, vendor, cost, rate) ==
  /\ rfq[r].status = "ISSUED"
  /\ vendor \in rfq[r].invited
  /\ DraftOrder(o, u, r, vendor, requisition[r].qty, cost, rate)
  /\ rfq' = [rfq EXCEPT ![r].status = "AWARDED"]
  /\ UNCHANGED <<stockVars, requisition, receipt, bill, account>>

\* Faulty variant: only the one who drew the order up is kept from approving it.
MayApproveOthers(u, o) == u # order[o].by

\* Neither the one who drew the order up nor the one who asked for the goods.
MayApprove(u, o) ==
  /\ u # order[o].by
  /\ order[o].of # None => u # requisition[order[o].of].by

ApproveOrder(o, u) ==
  /\ order[o].status = "DRAFT"
  /\ MayApprove(u, o)
  /\ order' = [order EXCEPT ![o].status = "ORDERED", ![o].approvedBy = u]
  /\ UNCHANGED <<stockVars, requisition, rfq, receipt, bill, account>>

----------------------------------------------------------------------------
(* Goods receipts.                                                         *)

\* mulRate: cents of a document in the base currency, to the nearest cent.
AtRate(cents, rate) == RoundHalfUp(cents * rate, RateUnit)

Delivered(o, i) ==
  SumFunction([k \in {k \in Receipts : receipt[k].order = o} |-> receipt[k].qty[i]])

\* Base value of n units of item i at the order's cost and rate.
Value(o, i, n) == AtRate(order[o].cost[i] * n, order[o].rate)

\* The GRNI credit of a receipt, line by line.
ReceiptCredit(o, q) == SumFunction([i \in Items |-> Value(o, i, q[i])])

\* The stock half: every line or none.
TakeIn(o, q) ==
  LET came == {i \in Items : q[i] > 0} IN
  /\ \A i \in came : Room(i) /\ CanReceive(i, q[i], Value(o, i, q[i]))
  /\ level' = [i \in Items |-> level[i] + q[i]]
  /\ layer' = [i \in Items |->
       IF i \in came THEN Received(layer[i], q[i], Value(o, i, q[i])) ELSE layer[i]]
  /\ history' = [i \in Items |->
       IF i \in came THEN Moved(i, q[i], Value(o, i, q[i]), NoDoc, NoKey) ELSE history[i]]
  /\ inventoryGL' = [i \in Items |->
       IF i \in came THEN inventoryGL[i] + Value(o, i, q[i]) ELSE inventoryGL[i]]
  /\ UNCHANGED worker

FullyReceived(o, q) == \A i \in Items : Delivered(o, i) + q[i] = order[o].qty[i]

PostGoodsReceipt(k, o, q) ==
  /\ receipt[k].order = None
  /\ order[o].status = "ORDERED"
  /\ \A i \in Items : q[i] > 0 => Delivered(o, i) + q[i] <= order[o].qty[i]
  /\ TakeIn(o, q)
  /\ receipt' = [receipt EXCEPT ![k] = [order |-> o, qty |-> q]]
  /\ account' = [account EXCEPT !.grni = @ + ReceiptCredit(o, q)]
  /\ order' = IF FullyReceived(o, q) THEN [order EXCEPT ![o].status = "RECEIVED"] ELSE order
  /\ UNCHANGED <<requisition, rfq, bill>>

----------------------------------------------------------------------------
(* Supplier bills.                                                         *)

NumberFree(b, o, n) ==
  \A c \in Bills \ {b} :
    bill[c].status # "ABSENT" /\ order[bill[c].order].vendor = order[o].vendor
      => bill[c].number # n

\* What createSupplierBill and updateSupplierBill accept: a bill of an approved
\* order, a number the supplier has not used, and only lines of the order.
Draftable(b, o, n, q) ==
  /\ order[o].status \in {"ORDERED", "RECEIVED"}
  /\ NumberFree(b, o, n)
  /\ \A i \in Items : q[i] > 0 => order[o].qty[i] > 0

WriteBill(b, o, n, q, price, rate) ==
  /\ Draftable(b, o, n, q)
  /\ bill' = [bill EXCEPT ![b] =
       [status |-> "DRAFT", order |-> o, number |-> n, qty |-> q, price |-> price, rate |-> rate]]
  /\ UNCHANGED <<stockVars, requisition, rfq, order, receipt, account>>

CreateSupplierBill(b, o, n, q, price, rate) ==
  bill[b].status = "ABSENT" /\ WriteBill(b, o, n, q, price, rate)

UpdateSupplierBill(b, n, q, price, rate) ==
  bill[b].status = "DRAFT" /\ WriteBill(b, bill[b].order, n, q, price, rate)

Billed(o, i) ==
  SumFunction([b \in {b \in Bills : bill[b].order = o /\ bill[b].status = "POSTED"} |->
                 bill[b].qty[i]])

\* Faulty variant: each bill is matched as if it were the first of its order.
MatchesAlone(b) ==
  LET o == bill[b].order IN
  \A i \in Items : bill[b].qty[i] > 0 =>
    /\ bill[b].price[i] = order[o].cost[i]
    /\ bill[b].qty[i] <= order[o].qty[i]
    /\ bill[b].qty[i] <= Delivered(o, i)

\* The three-way match: price of the order, and with what earlier bills took
\* no more than was ordered and no more than was received.
Matches(b) ==
  LET o == bill[b].order IN
  /\ NumberFree(b, o, bill[b].number)
  /\ \A i \in Items : bill[b].qty[i] > 0 =>
       /\ bill[b].price[i] = order[o].cost[i]
       /\ Billed(o, i) + bill[b].qty[i] <= order[o].qty[i]
       /\ Billed(o, i) + bill[b].qty[i] <= Delivered(o, i)

\* The lines of a bill in the base currency, each rounded by itself.
BillAt(b, rate) == SumFunction([i \in Items |-> AtRate(bill[b].price[i] * bill[b].qty[i], rate)])

\* Faulty variant: the receipt is cleared at the rate of the bill.
ClearedAtBillRate(b) == BillAt(b, bill[b].rate)

\* The GRNI debit: the goods at the rate they were received at.
Cleared(b) == BillAt(b, order[bill[b].order].rate)

Payable(b) == BillAt(b, bill[b].rate)

\* Input VAT is debited and owed in equal amounts and left out.  A journal
\* line of zero is refused.
PostSupplierBill(b) ==
  /\ bill[b].status = "DRAFT"
  /\ Matches(b)
  /\ Cleared(b) > 0 /\ Payable(b) > 0
  /\ bill' = [bill EXCEPT ![b].status = "POSTED"]
  /\ account' = [grni |-> account.grni - Cleared(b),
                 ap   |-> account.ap + Payable(b),
                 fx   |-> account.fx + (Payable(b) - Cleared(b))]
  /\ UNCHANGED <<stockVars, requisition, rfq, order, receipt>>

----------------------------------------------------------------------------

ProcurementNext ==
  \/ \E r \in Requisitions, u \in Users, q \in Baskets : SubmitRequisition(r, u, q)
  \/ \E r \in Requisitions, u \in Users, d \in {"APPROVE", "REJECT"} : DecideRequisition(r, u, d)
  \/ \E r \in Requisitions, invited \in SUBSET Suppliers : IssueRfq(r, invited)
  \/ \E o \in Orders, u \in Users, s \in Suppliers, q \in Baskets, c \in PriceLists, x \in Rates :
       DirectOrder(o, u, s, q, c, x)
  \/ \E r \in Requisitions, o \in Orders, u \in Users, s \in Suppliers, c \in PriceLists, x \in Rates :
       AwardRfq(r, o, u, s, c, x)
  \/ \E o \in Orders, u \in Users : ApproveOrder(o, u)
  \/ \E k \in Receipts, o \in Orders, q \in Baskets : PostGoodsReceipt(k, o, q)
  \/ \E b \in Bills, o \in Orders, n \in BillNumbers, q \in Baskets, p \in PriceLists, x \in Rates :
       CreateSupplierBill(b, o, n, q, p, x)
  \/ \E b \in Bills, n \in BillNumbers, q \in Baskets, p \in PriceLists, x \in Rates :
       UpdateSupplierBill(b, n, q, p, x)
  \/ \E b \in Bills : PostSupplierBill(b)

ProcurementSpec == ProcurementInit /\ [][ProcurementNext]_vars

----------------------------------------------------------------------------
(* Properties.                                                             *)

\* However an order is delivered and billed in parts, no line is ever paid for
\* that did not arrive, nor taken in that was not ordered: postGoodsReceipt and
\* evaluateMatchInTx each add up the documents before theirs.
ThreeWayMatch ==
  \A o \in Orders, i \in Items :
    Billed(o, i) <= Delivered(o, i) /\ Delivered(o, i) <= order[o].qty[i]

\* An order reads RECEIVED exactly when every one of its lines has arrived in
\* full, so the last delivery closes it and no partial one does.
StatusTellsDelivery ==
  \A o \in Orders :
    order[o].status \in {"ORDERED", "RECEIVED"} =>
      (order[o].status = "RECEIVED" <=> \A i \in Items : Delivered(o, i) = order[o].qty[i])

\* Lines of receipts and of posted bills: each rounds once.
Roundings ==
  Cardinality({l \in Receipts \X Items : receipt[l[1]].qty[l[2]] > 0})
    + Cardinality({l \in Bills \X Items : bill[l[1]].status = "POSTED" /\ bill[l[1]].qty[l[2]] > 0})

\* RateUnit times what is received and not billed, without any rounding.
OpenExactly ==
  SumFunction([l \in Orders \X Items |->
    order[l[1]].cost[l[2]] * order[l[1]].rate * (Delivered(l[1], l[2]) - Billed(l[1], l[2]))])

\* Goods received and not invoiced stay within half a cent per document line of
\* what is really open, so a fully billed order leaves only rounding behind,
\* whatever rate its bills came at.
GrniWithinRounding ==
  LET off == RateUnit * account.grni - OpenExactly IN
  2 * off <= RateUnit * Roundings /\ -(2 * off) <= RateUnit * Roundings

\* The cost on the shelves is what suppliers are owed for it, invoiced or not,
\* less what moved with the exchange rate: the valuation layers the receipts
\* fed and the journals of receipts and bills tell one story.
ShelfIsOwed ==
  SumFunction([i \in Items |-> layer[i].cost]) + account.fx = account.grni + account.ap

\* Nothing is received that one person asked for, ordered and approved alone:
\* behind every receipt stands an approver who neither drew the order up nor
\* asked for the goods, and a requisition that someone else approved, its one
\* request for quotes awarded to one order.
NobodyBuysAlone ==
  \A k \in Receipts : receipt[k].order # None =>
    LET p == order[receipt[k].order] IN
    /\ p.approvedBy \notin {None, p.by}
    /\ p.of # None =>
         /\ requisition[p.of].status = "APPROVED"
         /\ requisition[p.of].by \notin {p.approvedBy, requisition[p.of].decidedBy}
         /\ p.vendor \in rfq[p.of].invited
         /\ \A o \in Orders : order[o].of = p.of => order[o] = p
=============================================================================
