------------------------ MODULE Procurement_proofs ------------------------
(***************************************************************************)
(* Segregation of duties in procurement, and the stock it receives, for    *)
(* every set of users, suppliers, requisitions, orders and receipts.       *)
(***************************************************************************)
EXTENDS SupplierAnalytics, StockLedger_proofs

Documents == <<requisition, rfq, order, receipt>>

DocumentsTypeOK ==
  /\ requisition \in [Requisitions -> Requisition]
  /\ rfq \in [Requisitions -> Rfq]
  /\ order \in [Orders -> Order]
  /\ receipt \in [Receipts -> Receipt]

\* A requisition is decided by someone else than who asked, and only an
\* approved one goes out for quotes.
Decided ==
  \A r \in Requisitions :
    /\ requisition[r].status = "APPROVED" => requisition[r].by # requisition[r].decidedBy
    /\ rfq[r].status # "ABSENT" => requisition[r].status = "APPROVED"

\* An order of a requisition is the award of its request for quotes, and the
\* only one.
Awarded ==
  \A o \in Orders : order[o].of # None =>
    /\ order[o].status # "ABSENT"
    /\ rfq[order[o].of].status = "AWARDED"
    /\ order[o].vendor \in rfq[order[o].of].invited
    /\ \A p \in Orders : order[p].of = order[o].of => p = o

\* An order past its draft was approved by a user who may approve it, and
\* goods are received for no other.
Approved ==
  /\ \A o \in Orders : order[o].status \in {"ORDERED", "RECEIVED"} =>
       order[o].approvedBy \in Users /\ MayApprove(order[o].approvedBy, o)
  /\ \A k \in Receipts : receipt[k].order # None =>
       order[receipt[k].order].status \in {"ORDERED", "RECEIVED"}

DutyInv == DocumentsTypeOK /\ Decided /\ Awarded /\ Approved

LEMMA BasketsArePlain ==
  /\ Baskets \subseteq Quantity
  /\ PriceLists \subseteq Quantity
  /\ Rates \subseteq Nat \ {0}
  /\ None \notin Users
  /\ None \notin Requisitions
  /\ None \notin Orders
BY ProcurementConstants DEF Quantity

LEMMA DutyInvInit == ProcurementInit => DutyInv
<1> SUFFICES ASSUME ProcurementInit PROVE DutyInv
  OBVIOUS
<1>1. Nothing \in Quantity /\ RateUnit \in Nat \ {0}
  BY ProcurementConstants DEF Nothing, Quantity
<1>2. DocumentsTypeOK
  BY <1>1 DEF ProcurementInit, DocumentsTypeOK, Requisition, Rfq, Order, Receipt
<1>3. Decided /\ Awarded /\ Approved
  BY DEF ProcurementInit, Decided, Awarded, Approved
<1> QED
  BY <1>2, <1>3 DEF DutyInv

----------------------------------------------------------------------------
(* One lemma per handler that writes one of the documents.                 *)

LEMMA SubmitKeepsDuty ==
  ASSUME DutyInv, NEW r \in Requisitions, NEW u \in Users, NEW q \in Baskets,
         SubmitRequisition(r, u, q)
  PROVE  DutyInv'
<1>1. DocumentsTypeOK'
  BY BasketsArePlain DEF DutyInv, DocumentsTypeOK, SubmitRequisition, Requisition
<1>2. \A s \in Requisitions : s # r => requisition'[s] = requisition[s]
  BY DEF DutyInv, DocumentsTypeOK, SubmitRequisition
<1>3. requisition'[r].status = "SUBMITTED" /\ rfq[r].status = "ABSENT"
  BY DEF DutyInv, DocumentsTypeOK, Decided, SubmitRequisition
<1>4. Decided'
  BY <1>2, <1>3 DEF DutyInv, Decided, SubmitRequisition
<1>5. \A o \in Orders : order[o].of # r
  BY <1>3, BasketsArePlain DEF DutyInv, Awarded
<1>6. \A o \in Orders : order[o].of # None => order[o].of \in Requisitions
  BY DEF DutyInv, DocumentsTypeOK, Order
<1>7. Awarded'
  BY DEF DutyInv, Awarded, SubmitRequisition
<1>8. Approved'
  BY <1>2, <1>5, <1>6 DEF DutyInv, Approved, MayApprove, SubmitRequisition
<1> QED
  BY <1>1, <1>4, <1>7, <1>8 DEF DutyInv

LEMMA DecideKeepsDuty ==
  ASSUME DutyInv, NEW r \in Requisitions, NEW u \in Users, NEW d \in {"APPROVE", "REJECT"},
         DecideRequisition(r, u, d)
  PROVE  DutyInv'
<1> DEFINE decided == [requisition[r] EXCEPT !.status = Outcome(d), !.decidedBy = u]
<1>a. Outcome(d) \in {"APPROVED", "REJECTED"}
  BY DEF Outcome
<1>b. decided \in Requisition
  BY <1>a DEF DutyInv, DocumentsTypeOK, Requisition
<1>c. requisition' = [requisition EXCEPT ![r] = decided]
  BY DEF DutyInv, DocumentsTypeOK, DecideRequisition
<1>1. DocumentsTypeOK'
  BY <1>b, <1>c DEF DutyInv, DocumentsTypeOK, DecideRequisition
<1>2. \A s \in Requisitions : s # r => requisition'[s] = requisition[s]
  BY DEF DutyInv, DocumentsTypeOK, DecideRequisition
<1>3. /\ requisition'[r].by = requisition[r].by
      /\ requisition'[r].decidedBy = u
      /\ u # requisition[r].by
  BY DEF DutyInv, DocumentsTypeOK, DecideRequisition, Requisition
<1>4. rfq[r].status = "ABSENT"
  BY DEF DutyInv, Decided, DecideRequisition
<1>5. Decided'
  BY <1>2, <1>3, <1>4 DEF DutyInv, Decided, DecideRequisition
<1>6. Awarded'
  BY DEF DutyInv, Awarded, DecideRequisition
<1>7. \A o \in Orders : order[o].of # None => order[o].of \in Requisitions
  BY DEF DutyInv, DocumentsTypeOK, Order
<1>8. \A o \in Orders : order[o].of # None =>
        requisition'[order[o].of].by = requisition[order[o].of].by
  BY <1>2, <1>3, <1>7
<1>9. Approved'
  BY <1>8 DEF DutyInv, Approved, MayApprove, DecideRequisition
<1> QED
  BY <1>1, <1>5, <1>6, <1>9 DEF DutyInv

LEMMA IssueRfqKeepsDuty ==
  ASSUME DutyInv, NEW r \in Requisitions, NEW invited \in SUBSET Suppliers,
         IssueRfq(r, invited)
  PROVE  DutyInv'
<1>1. DocumentsTypeOK'
  BY DEF DutyInv, DocumentsTypeOK, IssueRfq, Rfq
<1>2. \A s \in Requisitions : s # r => rfq'[s] = rfq[s]
  BY DEF DutyInv, DocumentsTypeOK, IssueRfq
<1>3. Decided'
  BY <1>2 DEF DutyInv, Decided, IssueRfq
<1>4. \A o \in Orders : order[o].of # None => order[o].of \in Requisitions
  BY DEF DutyInv, DocumentsTypeOK, Order
<1>5. \A o \in Orders : order[o].of # r
  BY BasketsArePlain DEF DutyInv, Awarded, IssueRfq
<1>6. Awarded'
  BY <1>2, <1>4, <1>5 DEF DutyInv, Awarded, IssueRfq
<1>7. Approved'
  BY DEF DutyInv, Approved, MayApprove, IssueRfq
<1> QED
  BY <1>1, <1>3, <1>6, <1>7 DEF DutyInv

\* What drawing up an order does to the orders table.
LEMMA DraftFacts ==
  ASSUME DutyInv, NEW o \in Orders, NEW u \in Users, NEW r \in Requisitions \cup {None},
         NEW s \in Suppliers, NEW q \in Quantity, NEW c \in PriceLists, NEW x \in Rates,
         DraftOrder(o, u, r, s, q, c, x)
  PROVE  /\ order' \in [Orders -> Order]
         /\ \A p \in Orders : p # o => order'[p] = order[p]
         /\ order[o].status = "ABSENT" /\ order[o].of = None
         /\ order'[o].status = "DRAFT"
         /\ order'[o].of = r
         /\ order'[o].vendor = s
<1>1. order \in [Orders -> Order]
  BY DEF DutyInv, DocumentsTypeOK
<1>2. [status |-> "DRAFT", of |-> r, vendor |-> s, by |-> u, approvedBy |-> None,
       qty |-> q, cost |-> c, rate |-> x] \in Order
  BY BasketsArePlain DEF Order
<1> QED
  BY <1>1, <1>2 DEF DraftOrder, DutyInv, Awarded

LEMMA DirectKeepsDuty ==
  ASSUME DutyInv, NEW o \in Orders, NEW u \in Users, NEW s \in Suppliers,
         NEW q \in Baskets, NEW c \in PriceLists, NEW x \in Rates,
         DirectOrder(o, u, s, q, c, x)
  PROVE  DutyInv'
<1>1. q \in Quantity /\ DraftOrder(o, u, None, s, q, c, x)
  BY BasketsArePlain DEF DirectOrder
<1>2. /\ order' \in [Orders -> Order]
      /\ \A p \in Orders : p # o => order'[p] = order[p]
      /\ order[o].status = "ABSENT" /\ order[o].of = None
      /\ order'[o].status = "DRAFT" /\ order'[o].of = None
  BY <1>1, DraftFacts
<1>3. DocumentsTypeOK'
  BY <1>2 DEF DutyInv, DocumentsTypeOK, DirectOrder
<1>4. Decided'
  BY DEF DutyInv, Decided, DirectOrder
<1>5. Awarded'
  BY <1>2 DEF DutyInv, Awarded, DirectOrder
<1>6. \A k \in Receipts : receipt[k].order # None => receipt[k].order \in Orders
  BY DEF DutyInv, DocumentsTypeOK, Receipt
<1>7. Approved'
  BY <1>2, <1>6 DEF DutyInv, Approved, MayApprove, DirectOrder
<1> QED
  BY <1>3, <1>4, <1>5, <1>7 DEF DutyInv

LEMMA AwardKeepsDuty ==
  ASSUME DutyInv, NEW r \in Requisitions, NEW o \in Orders, NEW u \in Users,
         NEW s \in Suppliers, NEW c \in PriceLists, NEW x \in Rates,
         AwardRfq(r, o, u, s, c, x)
  PROVE  DutyInv'
<1>1. requisition[r].qty \in Quantity
  BY DEF DutyInv, DocumentsTypeOK, Requisition
<1>2. DraftOrder(o, u, r, s, requisition[r].qty, c, x)
  BY DEF AwardRfq
<1>3. /\ order' \in [Orders -> Order]
      /\ \A p \in Orders : p # o => order'[p] = order[p]
      /\ order[o].status = "ABSENT" /\ order[o].of = None
      /\ order'[o].status = "DRAFT" /\ order'[o].of = r /\ order'[o].vendor = s
  BY <1>1, <1>2, DraftFacts
<1>4. DocumentsTypeOK'
  BY <1>3 DEF DutyInv, DocumentsTypeOK, AwardRfq, Rfq
<1>5. /\ rfq[r].status = "ISSUED" /\ s \in rfq[r].invited
      /\ rfq'[r].status = "AWARDED" /\ rfq'[r].invited = rfq[r].invited
      /\ \A t \in Requisitions : t # r => rfq'[t] = rfq[t]
  BY DEF DutyInv, DocumentsTypeOK, Rfq, AwardRfq
<1>6. Decided'
  BY <1>5 DEF DutyInv, Decided, AwardRfq
<1>7. \A p \in Orders : order[p].of # r
  BY <1>5, BasketsArePlain DEF DutyInv, Awarded
<1>8. \A p \in Orders : order[p].of # None => order[p].of \in Requisitions
  BY DEF DutyInv, DocumentsTypeOK, Order
<1>9. Awarded'
  <2> SUFFICES ASSUME NEW p \in Orders, order'[p].of # None
               PROVE  /\ order'[p].status # "ABSENT"
                      /\ rfq'[order'[p].of].status = "AWARDED"
                      /\ order'[p].vendor \in rfq'[order'[p].of].invited
                      /\ \A t \in Orders : order'[t].of = order'[p].of => t = p
    BY DEF Awarded
  <2>1. CASE p = o
    BY <2>1, <1>3, <1>5, <1>7
  <2>2. CASE p # o
    BY <2>2, <1>3, <1>5, <1>7, <1>8 DEF DutyInv, Awarded
  <2> QED
    BY <2>1, <2>2
<1>10. \A k \in Receipts : receipt[k].order # None => receipt[k].order \in Orders
  BY DEF DutyInv, DocumentsTypeOK, Receipt
<1>11. Approved'
  BY <1>3, <1>10 DEF DutyInv, Approved, MayApprove, AwardRfq
<1> QED
  BY <1>4, <1>6, <1>9, <1>11 DEF DutyInv

LEMMA ApproveKeepsDuty ==
  ASSUME DutyInv, NEW o \in Orders, NEW u \in Users, ApproveOrder(o, u)
  PROVE  DutyInv'
<1> DEFINE approved == [order[o] EXCEPT !.status = "ORDERED", !.approvedBy = u]
<1>a. approved \in Order
  BY DEF DutyInv, DocumentsTypeOK, Order
<1>b. order' = [order EXCEPT ![o] = approved]
  BY DEF DutyInv, DocumentsTypeOK, ApproveOrder
<1>1. DocumentsTypeOK'
  BY <1>a, <1>b DEF DutyInv, DocumentsTypeOK, ApproveOrder
<1>2. /\ order'[o].status = "ORDERED" /\ order'[o].approvedBy = u
      /\ order'[o].of = order[o].of /\ order'[o].by = order[o].by
      /\ order'[o].vendor = order[o].vendor
      /\ order[o].status = "DRAFT"
      /\ \A p \in Orders : p # o => order'[p] = order[p]
  BY DEF DutyInv, DocumentsTypeOK, Order, ApproveOrder
<1>3. Decided'
  BY DEF DutyInv, Decided, ApproveOrder
<1>c. ASSUME NEW p \in Orders
      PROVE  /\ order'[p].of = order[p].of
             /\ order'[p].vendor = order[p].vendor
             /\ order[p].status # "ABSENT" => order'[p].status # "ABSENT"
  BY <1>2
<1>d. rfq' = rfq
  BY DEF ApproveOrder
<1>4. Awarded'
  <2> SUFFICES ASSUME NEW p \in Orders, order'[p].of # None
               PROVE  /\ order'[p].status # "ABSENT"
                      /\ rfq'[order'[p].of].status = "AWARDED"
                      /\ order'[p].vendor \in rfq'[order'[p].of].invited
                      /\ \A t \in Orders : order'[t].of = order'[p].of => t = p
    BY DEF Awarded
  <2>1. order[p].of # None
    BY <1>c
  <2>2. /\ order[p].status # "ABSENT"
        /\ rfq[order[p].of].status = "AWARDED"
        /\ order[p].vendor \in rfq[order[p].of].invited
    BY <2>1 DEF DutyInv, Awarded
  <2>3. ASSUME NEW t \in Orders, order'[t].of = order'[p].of
        PROVE  t = p
    BY <2>1, <2>3, <1>c DEF DutyInv, Awarded
  <2>4. order'[p].status # "ABSENT"
    BY <2>2, <1>c
  <2>5. rfq'[order'[p].of].status = "AWARDED" /\ order'[p].vendor \in rfq'[order'[p].of].invited
    BY <2>2, <1>c, <1>d
  <2> QED
    BY <2>3, <2>4, <2>5
<1>5. \A k \in Receipts : receipt[k].order # None => receipt[k].order \in Orders
  BY DEF DutyInv, DocumentsTypeOK, Receipt
<1>6. Approved'
  BY <1>2, <1>5 DEF DutyInv, Approved, MayApprove, ApproveOrder
<1> QED
  BY <1>1, <1>3, <1>4, <1>6 DEF DutyInv

LEMMA ReceiptKeepsDuty ==
  ASSUME DutyInv, NEW k \in Receipts, NEW o \in Orders, NEW q \in Baskets,
         PostGoodsReceipt(k, o, q)
  PROVE  DutyInv'
<1>1. q \in Quantity /\ o # None
  BY BasketsArePlain
<1>2. receipt' = [receipt EXCEPT ![k] = [order |-> o, qty |-> q]]
  BY DEF PostGoodsReceipt
<1>3. /\ order' \in [Orders -> Order]
      /\ order'[o].status \in {"ORDERED", "RECEIVED"} /\ order[o].status = "ORDERED"
      /\ order'[o].of = order[o].of /\ order'[o].by = order[o].by
      /\ order'[o].vendor = order[o].vendor /\ order'[o].approvedBy = order[o].approvedBy
      /\ \A p \in Orders : p # o => order'[p] = order[p]
  <2>1. order \in [Orders -> Order] /\ order[o].status = "ORDERED"
    BY DEF DutyInv, DocumentsTypeOK, PostGoodsReceipt
  <2>2. CASE order' = order
    BY <2>1, <2>2
  <2>3. CASE order' = [order EXCEPT ![o].status = "RECEIVED"]
    BY <2>1, <2>3 DEF Order
  <2> QED
    BY <2>2, <2>3 DEF PostGoodsReceipt
<1>4. DocumentsTypeOK'
  BY <1>1, <1>2, <1>3 DEF DutyInv, DocumentsTypeOK, Receipt, PostGoodsReceipt
<1>5. Decided'
  BY DEF DutyInv, Decided, PostGoodsReceipt
<1>6. Awarded'
  BY <1>3 DEF DutyInv, Awarded, PostGoodsReceipt
<1>7. \A j \in Receipts : receipt'[j].order # None =>
        j = k \/ (receipt'[j] = receipt[j] /\ receipt[j].order \in Orders)
  BY <1>2 DEF DutyInv, DocumentsTypeOK, Receipt
<1>8. receipt'[k].order = o
  BY <1>2 DEF DutyInv, DocumentsTypeOK
<1>9. Approved'
  BY <1>3, <1>7, <1>8 DEF DutyInv, Approved, MayApprove, PostGoodsReceipt
<1> QED
  BY <1>4, <1>5, <1>6, <1>9 DEF DutyInv

----------------------------------------------------------------------------

LEMMA DutyInvStep == DutyInv /\ [ProcurementNext]_vars => DutyInv'
<1> SUFFICES ASSUME DutyInv, [ProcurementNext]_vars PROVE DutyInv'
  OBVIOUS
<1>1. ASSUME NEW r \in Requisitions, NEW u \in Users, NEW q \in Baskets,
             SubmitRequisition(r, u, q)
      PROVE  DutyInv'
  BY <1>1, SubmitKeepsDuty
<1>2. ASSUME NEW r \in Requisitions, NEW u \in Users, NEW d \in {"APPROVE", "REJECT"},
             DecideRequisition(r, u, d)
      PROVE  DutyInv'
  BY <1>2, DecideKeepsDuty
<1>3. ASSUME NEW r \in Requisitions, NEW invited \in SUBSET Suppliers, IssueRfq(r, invited)
      PROVE  DutyInv'
  BY <1>3, IssueRfqKeepsDuty
<1>4. ASSUME NEW o \in Orders, NEW u \in Users, NEW s \in Suppliers, NEW q \in Baskets,
             NEW c \in PriceLists, NEW x \in Rates, DirectOrder(o, u, s, q, c, x)
      PROVE  DutyInv'
  BY <1>4, DirectKeepsDuty
<1>5. ASSUME NEW r \in Requisitions, NEW o \in Orders, NEW u \in Users, NEW s \in Suppliers,
             NEW c \in PriceLists, NEW x \in Rates, AwardRfq(r, o, u, s, c, x)
      PROVE  DutyInv'
  BY <1>5, AwardKeepsDuty
<1>6. ASSUME NEW o \in Orders, NEW u \in Users, ApproveOrder(o, u)
      PROVE  DutyInv'
  BY <1>6, ApproveKeepsDuty
<1>7. ASSUME NEW k \in Receipts, NEW o \in Orders, NEW q \in Baskets, PostGoodsReceipt(k, o, q)
      PROVE  DutyInv'
  BY <1>7, ReceiptKeepsDuty
<1>8. ASSUME UNCHANGED Documents
      PROVE  DutyInv'
  BY <1>8 DEF Documents, DutyInv, DocumentsTypeOK, Decided, Awarded, Approved, MayApprove
<1>9. ASSUME NEW b \in Bills, NEW o, NEW n, NEW q, NEW p, NEW x,
             CreateSupplierBill(b, o, n, q, p, x)
      PROVE  DutyInv'
  BY <1>8, <1>9 DEF CreateSupplierBill, WriteBill, Documents
<1>10. ASSUME NEW b \in Bills, NEW n, NEW q, NEW p, NEW x, UpdateSupplierBill(b, n, q, p, x)
       PROVE  DutyInv'
  BY <1>8, <1>10 DEF UpdateSupplierBill, WriteBill, Documents
<1>11. ASSUME NEW b \in Bills, PostSupplierBill(b)
       PROVE  DutyInv'
  BY <1>8, <1>11 DEF PostSupplierBill, Documents
<1>12. ASSUME UNCHANGED vars
       PROVE  DutyInv'
  BY <1>8, <1>12 DEF vars, procurementVars, Documents
<1> QED
  BY <1>1, <1>2, <1>3, <1>4, <1>5, <1>6, <1>7, <1>9, <1>10, <1>11, <1>12 DEF ProcurementNext

LEMMA DutyInvMeansNobody == DutyInv => NobodyBuysAlone
<1> SUFFICES ASSUME DutyInv, NEW k \in Receipts, receipt[k].order # None
             PROVE  LET p == order[receipt[k].order] IN
                    /\ p.approvedBy \notin {None, p.by}
                    /\ p.of # None =>
                         /\ requisition[p.of].status = "APPROVED"
                         /\ requisition[p.of].by \notin {p.approvedBy, requisition[p.of].decidedBy}
                         /\ p.vendor \in rfq[p.of].invited
                         /\ \A o \in Orders : order[o].of = p.of => order[o] = p
  BY DEF NobodyBuysAlone
<1> DEFINE o == receipt[k].order
<1>1. o \in Orders
  BY DEF DutyInv, DocumentsTypeOK, Receipt
<1>2. order[o].approvedBy \in Users /\ MayApprove(order[o].approvedBy, o)
  BY <1>1 DEF DutyInv, Approved
<1>3. order[o].approvedBy \notin {None, order[o].by}
  BY <1>2, BasketsArePlain DEF MayApprove
<1>4. ASSUME order[o].of # None
      PROVE  /\ requisition[order[o].of].status = "APPROVED"
             /\ requisition[order[o].of].by
                  \notin {order[o].approvedBy, requisition[order[o].of].decidedBy}
             /\ order[o].vendor \in rfq[order[o].of].invited
             /\ \A p \in Orders : order[p].of = order[o].of => order[p] = order[o]
  <2>1. order[o].of \in Requisitions
    BY <1>1, <1>4 DEF DutyInv, DocumentsTypeOK, Order
  <2>2. /\ rfq[order[o].of].status = "AWARDED"
        /\ order[o].vendor \in rfq[order[o].of].invited
        /\ \A p \in Orders : order[p].of = order[o].of => p = o
    BY <1>1, <1>4 DEF DutyInv, Awarded
  <2>3. /\ requisition[order[o].of].status = "APPROVED"
        /\ requisition[order[o].of].by # requisition[order[o].of].decidedBy
    BY <2>1, <2>2 DEF DutyInv, Decided
  <2> QED
    BY <1>2, <1>4, <2>2, <2>3 DEF MayApprove
<1> QED
  BY <1>3, <1>4

\* However requisitions, quotes, orders, receipts and bills interleave, goods
\* are received only of an order that a second person approved, and of a
\* requisition that a second person approved.
THEOREM NobodyEverBuysAlone == ProcurementSpec => []NobodyBuysAlone
<1>1. ProcurementSpec => []DutyInv
  BY DutyInvInit, DutyInvStep, PTL DEF ProcurementSpec
<1> QED
  BY <1>1, DutyInvMeansNobody, PTL

----------------------------------------------------------------------------
(* The stock a receipt takes in.                                           *)

ShelfInv == LedgerInv /\ InventoryReconciles

LEMMA ValueType ==
  ASSUME DocumentsTypeOK, NEW o \in Orders, NEW i \in Items, NEW n \in Nat
  PROVE  Value(o, i, n) \in Nat
<1>1. order[o].cost[i] \in Nat /\ order[o].rate \in Nat
  BY DEF DocumentsTypeOK, Order, Quantity
<1>2. (order[o].cost[i] * n) * order[o].rate \in Nat
  BY <1>1
<1> QED
  BY <1>2, RoundHalfUpType, ProcurementConstants DEF Value, AtRate

\* Line by line, what arrives enters balance, layer, history and control
\* account with one and the same value.
LEMMA TakeInKeepsShelf ==
  ASSUME ShelfInv, DocumentsTypeOK, NEW o \in Orders, NEW q \in Quantity, TakeIn(o, q)
  PROVE  ShelfInv'
<1> DEFINE came == {i \in Items : q[i] > 0}
<1>1. ASSUME NEW i \in Items
      PROVE  /\ layer[i] \in Layer /\ level[i] \in Nat /\ inventoryGL[i] \in Int
             /\ history[i] \in Seq(Movement) /\ q[i] \in Nat /\ Value(o, i, q[i]) \in Nat
             /\ level[i] = layer[i].qty /\ Consistent(layer[i]) /\ inventoryGL[i] = layer[i].cost
  <2>1. q[i] \in Nat
    BY DEF Quantity
  <2>2. Value(o, i, q[i]) \in Nat
    BY <2>1, ValueType
  <2> QED
    BY <2>1, <2>2 DEF ShelfInv, LedgerInv, StockTypeOK, ValuationSound, InSync, InventoryReconciles
<1>2. ASSUME NEW i \in came
      PROVE  /\ i \in Items
             /\ Received(layer[i], q[i], Value(o, i, q[i])) \in Layer
             /\ Consistent(Received(layer[i], q[i], Value(o, i, q[i])))
             /\ Moved(i, q[i], Value(o, i, q[i]), NoDoc, NoKey) \in Seq(Movement)
  <2>1. Received(layer[i], q[i], Value(o, i, q[i])) \in Layer
    BY <1>1, ReceivedType
  <2>2. Consistent(Received(layer[i], q[i], Value(o, i, q[i])))
    BY DEF TakeIn, CanReceive
  <2>3. q[i] \in Int
    BY <1>1
  <2>4. Moved(i, q[i], Value(o, i, q[i]), NoDoc, NoKey) \in Seq(Movement)
    BY <1>1, <2>3, MovedType DEF ShelfInv, LedgerInv
  <2> QED
    BY <2>1, <2>2, <2>4
<1>3. ASSUME NEW i \in Items
      PROVE  /\ level'[i] = level[i] + q[i]
             /\ layer'[i] = IF i \in came THEN Received(layer[i], q[i], Value(o, i, q[i]))
                            ELSE layer[i]
             /\ inventoryGL'[i] = IF i \in came THEN inventoryGL[i] + Value(o, i, q[i])
                                  ELSE inventoryGL[i]
  BY DEF TakeIn
<1>4. StockTypeOK'
  <2>1. level' \in [Items -> Nat]
    BY <1>1 DEF TakeIn
  <2>2. layer' \in [Items -> Layer]
    BY <1>1, <1>2 DEF TakeIn
  <2>3. history' \in [Items -> Seq(Movement)]
    BY <1>1, <1>2 DEF TakeIn
  <2>4. inventoryGL' \in [Items -> Int]
    BY <1>1 DEF TakeIn
  <2>5. worker' \in [Workers -> Requests \cup {Idle}]
    BY DEF TakeIn, ShelfInv, LedgerInv, StockTypeOK
  <2> QED
    BY <2>1, <2>2, <2>3, <2>4, <2>5 DEF StockTypeOK
<1> HIDE DEF came
<1>5. ASSUME NEW i \in Items
      PROVE  (InSync(i) /\ Consistent(layer[i]))' /\ inventoryGL'[i] = layer'[i].cost
  <2>1. CASE i \in came
    <3>1. layer'[i] = Received(layer[i], q[i], Value(o, i, q[i]))
      BY <1>3, <2>1
    <3>2. layer'[i].qty = layer[i].qty + q[i] /\ layer'[i].cost = layer[i].cost + Value(o, i, q[i])
      BY <3>1 DEF Received
    <3>3. Consistent(layer[i])'
      BY <1>2, <2>1, <3>1 DEF Consistent
    <3> QED
      BY <1>1, <1>3, <2>1, <3>2, <3>3 DEF InSync
  <2>2. CASE i \notin came
    <3>1. q[i] = 0
      BY <1>1, <2>2 DEF came
    <3>2. level'[i] = level[i] /\ layer'[i] = layer[i] /\ inventoryGL'[i] = inventoryGL[i]
      BY <1>1, <1>3, <2>2, <3>1
    <3> QED
      BY <1>1, <3>2 DEF InSync, Consistent
  <2> QED
    BY <2>1, <2>2
<1> QED
  BY <1>4, <1>5 DEF ShelfInv, LedgerInv, ValuationSound, InventoryReconciles

LEMMA ShelfInvInit == ProcurementInit => ShelfInv
<1>1. StockInit => InventoryReconciles
  BY DEF StockInit, InventoryReconciles
<1> QED
  BY <1>1, LedgerInvInit DEF ProcurementInit, ShelfInv

LEMMA ShelfInvStep == ShelfInv /\ DutyInv /\ [ProcurementNext]_vars => ShelfInv'
<1> SUFFICES ASSUME ShelfInv, DutyInv, [ProcurementNext]_vars PROVE ShelfInv'
  OBVIOUS
<1>1. CASE \E k \in Receipts, o \in Orders, q \in Baskets : PostGoodsReceipt(k, o, q)
  BY <1>1, BasketsArePlain, TakeInKeepsShelf DEF PostGoodsReceipt, DutyInv
<1>2. ASSUME UNCHANGED stockVars PROVE ShelfInv'
  BY <1>2 DEF stockVars, ShelfInv, LedgerInv, StockTypeOK, ValuationSound, InSync, Consistent,
              InventoryReconciles
<1>3. CASE ~\E k \in Receipts, o \in Orders, q \in Baskets : PostGoodsReceipt(k, o, q)
  <2>1. UNCHANGED stockVars
    BY <1>3 DEF ProcurementNext, vars, SubmitRequisition, DecideRequisition, IssueRfq,
                DirectOrder, AwardRfq, ApproveOrder, WriteBill, CreateSupplierBill, UpdateSupplierBill,
                PostSupplierBill
  <2> QED
    BY <1>2, <2>1
<1> QED
  BY <1>1, <1>3

\* Whatever is received, and at whatever rate, balance and valuation layer
\* agree and the control account holds the cost on the shelf.
THEOREM ReceiptsKeepTheShelf == ProcurementSpec => [](ValuationSound /\ InventoryReconciles)
<1>1. ProcurementSpec => []DutyInv
  BY DutyInvInit, DutyInvStep, PTL DEF ProcurementSpec
<1>2. ProcurementSpec => []ShelfInv
  BY <1>1, ShelfInvInit, ShelfInvStep, PTL DEF ProcurementSpec
<1>3. ShelfInv => ValuationSound /\ InventoryReconciles
  BY DEF ShelfInv, LedgerInv
<1> QED
  BY <1>2, <1>3, PTL
----------------------------------------------------------------------------
(* Orders, receipts and bills.                                             *)

\* What was delivered of an order and what was billed, as sums of weights.
Came(o) == {k \in Receipts : receipt[k].order = o}
Paid(o) == {b \in Bills : bill[b].order = o /\ bill[b].status = "POSTED"}
InQty(o, i) == SumOf([k \in Receipts |-> receipt[k].qty[i]], Came(o))
OutQty(o, i) == SumOf([b \in Bills |-> bill[b].qty[i]], Paid(o))

LEMMA DocumentsFinite ==
  ASSUME NEW o
  PROVE  IsFiniteSet(Came(o)) /\ IsFiniteSet(Paid(o))
<1>1. Came(o) \subseteq Receipts /\ Paid(o) \subseteq Bills
  BY DEF Came, Paid
<1> QED
  BY <1>1, FS_Subset, ProcurementConstants

LEMMA DeliveredIs == ASSUME NEW o, NEW i PROVE Delivered(o, i) = InQty(o, i)
<1> DEFINE T == Came(o)
           v == [k \in T |-> receipt[k].qty[i]]
           w == [k \in Receipts |-> receipt[k].qty[i]]
<1>1. Delivered(o, i) = SumFunction(v) /\ InQty(o, i) = SumOf(w, T)
  BY Zenon DEF Delivered, InQty, Came
<1>2. IsFiniteSet(T) /\ DOMAIN v = T /\ \A k \in T : v[k] = w[k]
  BY DocumentsFinite DEF Came
<1> HIDE DEF T, v, w
<1> QED
  BY <1>1, <1>2, SumFunctionIs, SumSame

LEMMA BilledIs == ASSUME NEW o, NEW i PROVE Billed(o, i) = OutQty(o, i)
<1> DEFINE T == Paid(o)
           v == [b \in T |-> bill[b].qty[i]]
           w == [b \in Bills |-> bill[b].qty[i]]
<1>1. Billed(o, i) = SumFunction(v) /\ OutQty(o, i) = SumOf(w, T)
  BY Zenon DEF Billed, OutQty, Paid
<1>2. IsFiniteSet(T) /\ DOMAIN v = T /\ \A b \in T : v[b] = w[b]
  BY DocumentsFinite DEF Paid
<1> HIDE DEF T, v, w
<1> QED
  BY <1>1, <1>2, SumFunctionIs, SumSame

\* A bill is of an order that was approved.
BillsOfOrders ==
  \A b \in Bills : bill[b].status # "ABSENT" =>
    bill[b].order \in Orders /\ order[bill[b].order].status \in {"ORDERED", "RECEIVED"}

\* Something is asked for: an order just approved is not already complete.
Asked ==
  /\ \A r \in Requisitions : requisition[r].status # "ABSENT" =>
       \E i \in Items : requisition[r].qty[i] > 0
  /\ \A o \in Orders : order[o].status # "ABSENT" =>
       /\ \E i \in Items : order[o].qty[i] > 0
       /\ \A i \in Items : order[o].cost[i] > 0

\* What was posted was posted at the order's cost.
InFull ==
  \A b \in Bills, i \in Items : bill[b].status = "POSTED" /\ bill[b].qty[i] > 0 =>
    bill[b].price[i] = order[bill[b].order].cost[i]

Matched ==
  \A o \in Orders, i \in Items : OutQty(o, i) <= InQty(o, i) /\ InQty(o, i) <= order[o].qty[i]

Told ==
  \A o \in Orders :
    order[o].status \in {"ORDERED", "RECEIVED"} =>
      (order[o].status = "RECEIVED" <=> \A i \in Items : InQty(o, i) = order[o].qty[i])

MatchInv ==
  bill \in [Bills -> Bill] /\ BillsOfOrders /\ Asked /\ InFull /\ Matched /\ Told

LEMMA MatchedIs == (Matched <=> ThreeWayMatch) /\ (Told <=> StatusTellsDelivery)
BY DeliveredIs, BilledIs DEF Matched, ThreeWayMatch, Told, StatusTellsDelivery

LEMMA BasketsAsk ==
  /\ \A q \in Baskets : q \in Quantity /\ \E i \in Items : q[i] > 0
  /\ \A c \in PriceLists : c \in Quantity /\ \A i \in Items : c[i] > 0
BY ProcurementConstants DEF Quantity

LEMMA QuantitiesType ==
  ASSUME DutyInv, bill \in [Bills -> Bill], NEW o, NEW i \in Items
  PROVE  /\ \A k \in Receipts : receipt[k].qty[i] \in Nat
         /\ \A b \in Bills : bill[b].qty[i] \in Nat /\ bill[b].price[i] \in Nat
         /\ InQty(o, i) \in Nat /\ OutQty(o, i) \in Nat
<1>1. \A k \in Receipts : receipt[k].qty[i] \in Nat
  BY DEF DutyInv, DocumentsTypeOK, Receipt, Quantity
<1>2. \A b \in Bills : bill[b].qty[i] \in Nat /\ bill[b].price[i] \in Nat
  BY DEF Bill, Quantity
<1>3. InQty(o, i) \in Nat
  <2>1. \A k \in Came(o) : [j \in Receipts |-> receipt[j].qty[i]][k] \in Nat
    BY <1>1 DEF Came
  <2> QED
    BY <2>1, DocumentsFinite, SumType DEF InQty
<1>4. OutQty(o, i) \in Nat
  <2>1. \A b \in Paid(o) : [c \in Bills |-> bill[c].qty[i]][b] \in Nat
    BY <1>2 DEF Paid
  <2> QED
    BY <2>1, DocumentsFinite, SumType DEF OutQty
<1> QED
  BY <1>1, <1>2, <1>3, <1>4

\* Nothing came of an order that is not approved.
LEMMA NothingCame ==
  ASSUME DutyInv, NEW o \in Orders, order[o].status \notin {"ORDERED", "RECEIVED"}, NEW i
  PROVE  InQty(o, i) = 0
<1>1. Came(o) = {}
  BY BasketsArePlain DEF Came, DutyInv, Approved
<1> QED
  BY <1>1, SumEmpty DEF InQty

LEMMA MatchInvInit == ProcurementInit => MatchInv
<1> SUFFICES ASSUME ProcurementInit PROVE MatchInv
  OBVIOUS
<1>1. DutyInv
  BY DutyInvInit
<1>2. bill \in [Bills -> Bill]
  <2>1. Nothing \in Quantity /\ RateUnit \in Nat \ {0}
    BY ProcurementConstants DEF Nothing, Quantity
  <2> QED
    BY <2>1 DEF ProcurementInit, Bill
<1>3. /\ \A o \in Orders : order[o].status = "ABSENT" /\ \A i \in Items : order[o].qty[i] = 0
      /\ \A b \in Bills : bill[b].status = "ABSENT"
      /\ \A r \in Requisitions : requisition[r].status = "ABSENT"
  BY DEF ProcurementInit, Nothing
<1>4. ASSUME NEW o \in Orders, NEW i \in Items PROVE InQty(o, i) = 0 /\ OutQty(o, i) = 0
  <2>1. Paid(o) = {}
    BY <1>3 DEF Paid
  <2> QED
    BY <1>1, <1>3, <2>1, NothingCame, SumEmpty DEF OutQty
<1>5. Matched
  BY <1>3, <1>4 DEF Matched
<1> QED
  BY <1>2, <1>3, <1>5 DEF MatchInv, BillsOfOrders, Asked, InFull, Told

\* Documents of one order are not affected by a new document of another.
LEMMA SumsStay ==
  ASSUME receipt' = receipt, bill' = bill, NEW o, NEW i
  PROVE  InQty(o, i)' = InQty(o, i) /\ OutQty(o, i)' = OutQty(o, i)
BY DEF InQty, OutQty, Came, Paid

LEMMA RequisitionKeepsMatch ==
  ASSUME DutyInv, MatchInv,
         \/ \E r \in Requisitions, u \in Users, q \in Baskets : SubmitRequisition(r, u, q)
         \/ \E r \in Requisitions, u \in Users, d \in {"APPROVE", "REJECT"} :
              DecideRequisition(r, u, d)
  PROVE  MatchInv'
<1>1. order' = order /\ receipt' = receipt /\ bill' = bill
  BY DEF SubmitRequisition, DecideRequisition
<1>2. ASSUME NEW r \in Requisitions, requisition'[r].status # "ABSENT"
      PROVE  \E i \in Items : requisition'[r].qty[i] > 0
  <2>1. CASE requisition'[r] = requisition[r]
    BY <1>2, <2>1 DEF MatchInv, Asked
  <2>2. ASSUME NEW s \in Requisitions, NEW u \in Users, NEW q \in Baskets,
               SubmitRequisition(s, u, q), requisition'[r] # requisition[r]
        PROVE  requisition'[r].qty \in Baskets
    BY <2>2 DEF SubmitRequisition, DutyInv, DocumentsTypeOK
  <2>3. ASSUME NEW s \in Requisitions, NEW u \in Users, NEW d \in {"APPROVE", "REJECT"},
               DecideRequisition(s, u, d), requisition'[r] # requisition[r]
        PROVE  requisition'[r].qty = requisition[r].qty /\ requisition[r].status = "SUBMITTED"
    BY <2>3 DEF DecideRequisition, DutyInv, DocumentsTypeOK, Requisition
  <2> QED
    BY <2>1, <2>2, <2>3, BasketsAsk DEF MatchInv, Asked
<1>3. Asked'
  BY <1>1, <1>2 DEF MatchInv, Asked
<1>4. Matched' /\ Told'
  BY <1>1, SumsStay DEF MatchInv, Matched, Told
<1> QED
  BY <1>1, <1>3, <1>4 DEF MatchInv, BillsOfOrders, InFull

LEMMA DraftKeepsMatch ==
  ASSUME DutyInv, MatchInv, NEW o \in Orders, NEW u \in Users, NEW r \in Requisitions \cup {None},
         NEW s \in Suppliers, NEW q \in Quantity, NEW c \in PriceLists, NEW x \in Rates,
         \E i \in Items : q[i] > 0, DraftOrder(o, u, r, s, q, c, x),
         UNCHANGED <<requisition, receipt, bill>>
  PROVE  MatchInv'
<1>1. /\ order' \in [Orders -> Order]
      /\ \A p \in Orders : p # o => order'[p] = order[p]
      /\ order[o].status = "ABSENT" /\ order'[o].status = "DRAFT"
  BY DraftFacts
<1>2. order'[o].qty = q /\ order'[o].cost = c
  BY DEF DraftOrder, DutyInv, DocumentsTypeOK
<1>3. \A b \in Bills : bill[b].status # "ABSENT" =>
        bill[b].order \in Orders /\ order'[bill[b].order] = order[bill[b].order]
  BY <1>1 DEF MatchInv, BillsOfOrders
<1>4. BillsOfOrders' /\ InFull'
  BY <1>3 DEF MatchInv, BillsOfOrders, InFull
<1>5. Asked'
  BY <1>1, <1>2, BasketsAsk DEF MatchInv, Asked
<1>6. ASSUME NEW p \in Orders, NEW i \in Items
      PROVE  InQty(p, i)' = InQty(p, i) /\ OutQty(p, i)' = OutQty(p, i)
  BY SumsStay
<1>7. Matched'
  <2> SUFFICES ASSUME NEW p \in Orders, NEW i \in Items
               PROVE  OutQty(p, i)' <= InQty(p, i)' /\ InQty(p, i)' <= order'[p].qty[i]
    BY DEF Matched
  <2>1. CASE p # o
    BY <1>1, <1>6, <2>1 DEF MatchInv, Matched
  <2>2. CASE p = o
    <3>1. InQty(p, i) = 0 /\ q[i] \in Nat
      BY <1>1, <2>2, NothingCame DEF Quantity
    <3>2. 0 <= order'[p].qty[i]
      BY <1>2, <2>2, <3>1
    <3> QED
      BY <1>6, <3>1, <3>2 DEF MatchInv, Matched
  <2> QED
    BY <2>1, <2>2
<1>8. Told'
  <2> SUFFICES ASSUME NEW p \in Orders, order'[p].status \in {"ORDERED", "RECEIVED"}
               PROVE  order'[p].status = "RECEIVED" <=>
                        \A i \in Items : InQty(p, i)' = order'[p].qty[i]
    BY DEF Told
  <2>1. order'[p] = order[p]
    BY <1>1
  <2> QED
    BY <1>6, <2>1 DEF MatchInv, Told
<1> QED
  BY <1>4, <1>5, <1>7, <1>8 DEF MatchInv

\* Approving: nothing came of a draft, and something is ordered.
LEMMA ApproveKeepsMatch ==
  ASSUME DutyInv, MatchInv, NEW o \in Orders, NEW u \in Users, ApproveOrder(o, u)
  PROVE  MatchInv'
<1>1. /\ order'[o].qty = order[o].qty /\ order'[o].cost = order[o].cost
      /\ order[o].status = "DRAFT" /\ order'[o].status = "ORDERED"
      /\ \A p \in Orders : p # o => order'[p] = order[p]
  BY DEF DutyInv, DocumentsTypeOK, Order, ApproveOrder
<1>2. requisition' = requisition /\ receipt' = receipt /\ bill' = bill
  BY DEF ApproveOrder
<1>3. \A p \in Orders : order'[p].qty = order[p].qty /\ order'[p].cost = order[p].cost
  BY <1>1
<1>4. BillsOfOrders' /\ InFull' /\ Asked'
  <2>1. BillsOfOrders'
    BY <1>1, <1>2 DEF MatchInv, BillsOfOrders
  <2>2. InFull'
    BY <1>2, <1>3 DEF MatchInv, BillsOfOrders, InFull
  <2>3. Asked'
    BY <1>1, <1>2, <1>3 DEF MatchInv, Asked
  <2> QED
    BY <2>1, <2>2, <2>3
<1>5. \A p \in Orders, i \in Items :
        InQty(p, i)' = InQty(p, i) /\ OutQty(p, i)' = OutQty(p, i)
  BY <1>2, SumsStay
<1>6. Matched'
  BY <1>3, <1>5 DEF MatchInv, Matched
<1>7. Told'
  <2> SUFFICES ASSUME NEW p \in Orders, order'[p].status \in {"ORDERED", "RECEIVED"}
               PROVE  order'[p].status = "RECEIVED" <=>
                        \A i \in Items : InQty(p, i)' = order'[p].qty[i]
    BY DEF Told
  <2>1. CASE p # o
    BY <1>1, <1>5, <2>1 DEF MatchInv, Told
  <2>2. CASE p = o
    <3>1. PICK i \in Items : order[o].qty[i] > 0
      BY <1>1 DEF MatchInv, Asked
    <3>2. InQty(o, i)' = 0
      BY <1>1, <1>5, NothingCame
    <3>3. order'[o].qty[i] # 0
      <4>1. order[o].qty[i] \in Nat
        BY DEF DutyInv, DocumentsTypeOK, Order, Quantity
      <4> QED
        BY <1>3, <3>1, <4>1
    <3> QED
      BY <1>1, <2>2, <3>2, <3>3
  <2> QED
    BY <2>1, <2>2
<1> QED
  BY <1>2, <1>4, <1>6, <1>7 DEF MatchInv

\* A delivery adds to the order it is of, and to no other.
LEMMA ReceiptAdds ==
  ASSUME DutyInv, MatchInv, NEW k \in Receipts, NEW o \in Orders, NEW q \in Baskets,
         PostGoodsReceipt(k, o, q), NEW p \in Orders, NEW i \in Items
  PROVE  /\ InQty(p, i)' = InQty(p, i) + (IF p = o THEN q[i] ELSE 0)
         /\ OutQty(p, i)' = OutQty(p, i)
<1> DEFINE v == [j \in Receipts |-> receipt[j].qty[i]]
           w == [j \in Receipts |-> receipt'[j].qty[i]]
<1>1. /\ receipt[k].order = None /\ receipt'[k] = [order |-> o, qty |-> q]
      /\ \A j \in Receipts : j # k => receipt'[j] = receipt[j]
  BY DEF PostGoodsReceipt, DutyInv, DocumentsTypeOK
<1>2. q[i] \in Nat /\ InQty(p, i) \in Nat /\ \A j \in Receipts : receipt[j].qty[i] \in Nat
  BY BasketsArePlain, QuantitiesType DEF MatchInv, Quantity
<1>3. k \notin Came(p) /\ Came(p) \subseteq Receipts /\ IsFiniteSet(Came(p))
  BY <1>1, BasketsArePlain, DocumentsFinite DEF Came
<1>4. \A j \in Came(p) : v[j] = w[j] /\ w[j] \in Int
  BY <1>1, <1>2, <1>3
<1>5. w[k] = q[i]
  BY <1>1
<1>6. InQty(p, i) = SumOf(v, Came(p)) /\ InQty(p, i)' = SumOf(w, Came(p)')
  BY DEF InQty
<1> HIDE DEF v, w
<1>7. SumOf(w, Came(p)) = InQty(p, i)
  BY <1>3, <1>4, <1>6, SumSame
<1>8. CASE p = o
  <2>1. Came(p)' = Came(p) \cup {k}
    BY <1>1, <1>8 DEF Came
  <2>2. SumOf(w, Came(p) \cup {k}) = w[k] + SumOf(w, Came(p))
    BY <1>2, <1>3, <1>4, <1>5, SumAdd
  <2> QED
    BY <1>2, <1>5, <1>6, <1>7, <1>8, <2>1, <2>2 DEF PostGoodsReceipt, OutQty, Paid
<1>9. CASE p # o
  <2>1. Came(p)' = Came(p)
    BY <1>1, <1>9, BasketsArePlain DEF Came
  <2> QED
    BY <1>2, <1>6, <1>7, <1>9, <2>1 DEF PostGoodsReceipt, OutQty, Paid
<1> QED
  BY <1>8, <1>9

LEMMA ReceiptKeepsMatch ==
  ASSUME DutyInv, MatchInv, NEW k \in Receipts, NEW o \in Orders, NEW q \in Baskets,
         PostGoodsReceipt(k, o, q)
  PROVE  MatchInv'
<1>1. requisition' = requisition /\ bill' = bill /\ order[o].status = "ORDERED"
  BY DEF PostGoodsReceipt
<1>2. /\ \A p \in Orders : p # o => order'[p] = order[p]
      /\ order'[o].qty = order[o].qty /\ order'[o].cost = order[o].cost
      /\ order'[o].status = IF FullyReceived(o, q) THEN "RECEIVED" ELSE "ORDERED"
  BY <1>1 DEF PostGoodsReceipt, DutyInv, DocumentsTypeOK, Order
<1>3. \A p \in Orders : order'[p].qty = order[p].qty /\ order'[p].cost = order[p].cost
  BY <1>2
<1>4. BillsOfOrders'
  BY <1>1, <1>2 DEF MatchInv, BillsOfOrders
<1>5. InFull'
  BY <1>1, <1>3 DEF MatchInv, BillsOfOrders, InFull
<1>6. Asked'
  BY <1>1, <1>2, <1>3 DEF MatchInv, Asked
<1>7. ASSUME NEW p \in Orders, NEW i \in Items
      PROVE  /\ InQty(p, i) \in Nat /\ OutQty(p, i) \in Nat /\ q[i] \in Nat
             /\ order[p].qty[i] \in Nat
             /\ InQty(p, i)' = InQty(p, i) + (IF p = o THEN q[i] ELSE 0)
             /\ OutQty(p, i)' = OutQty(p, i)
             /\ OutQty(p, i) <= InQty(p, i) /\ InQty(p, i) <= order[p].qty[i]
  <2>1. q[i] \in Nat /\ order[p].qty[i] \in Nat
    BY BasketsArePlain DEF Quantity, DutyInv, DocumentsTypeOK, Order
  <2>2. InQty(p, i) \in Nat /\ OutQty(p, i) \in Nat
    BY QuantitiesType DEF MatchInv
  <2> QED
    BY <2>1, <2>2, ReceiptAdds DEF MatchInv, Matched
<1>8. Matched'
  <2> SUFFICES ASSUME NEW p \in Orders, NEW i \in Items
               PROVE  OutQty(p, i)' <= InQty(p, i)' /\ InQty(p, i)' <= order'[p].qty[i]
    BY DEF Matched
  <2>1. CASE p = o /\ q[i] > 0
    <3>1. InQty(o, i) + q[i] <= order[o].qty[i]
      BY <2>1, DeliveredIs DEF PostGoodsReceipt
    <3> QED
      BY <1>3, <1>7, <2>1, <3>1
  <2>2. CASE ~(p = o /\ q[i] > 0)
    <3>1. InQty(p, i)' = InQty(p, i)
      BY <1>7, <2>2
    <3> QED
      BY <1>3, <1>7, <3>1
  <2> QED
    BY <2>1, <2>2
<1>9. Told'
  <2> SUFFICES ASSUME NEW p \in Orders, order'[p].status \in {"ORDERED", "RECEIVED"}
               PROVE  order'[p].status = "RECEIVED" <=>
                        \A i \in Items : InQty(p, i)' = order'[p].qty[i]
    BY DEF Told
  <2>1. CASE p # o
    <3>1. \A i \in Items : InQty(p, i)' = InQty(p, i)
      BY <1>7, <2>1
    <3> QED
      BY <1>2, <2>1, <3>1 DEF MatchInv, Told
  <2>2. CASE p = o
    <3>1. FullyReceived(o, q) <=> \A i \in Items : InQty(o, i) + q[i] = order[o].qty[i]
      BY DeliveredIs DEF FullyReceived
    <3>2. \A i \in Items : InQty(o, i)' = InQty(o, i) + q[i]
      BY <1>7
    <3> QED
      BY <1>2, <2>2, <3>1, <3>2
  <2> QED
    BY <2>1, <2>2
<1> QED
  BY <1>1, <1>4, <1>5, <1>6, <1>8, <1>9 DEF MatchInv

\* Writing a draft leaves what is posted alone.
LEMMA WriteKeepsMatch ==
  ASSUME DutyInv, MatchInv, NEW b \in Bills, NEW o \in Orders, NEW n \in BillNumbers,
         NEW q \in Baskets, NEW p \in PriceLists, NEW x \in Rates,
         bill[b].status # "POSTED", WriteBill(b, o, n, q, p, x)
  PROVE  MatchInv'
<1>1. requisition' = requisition /\ receipt' = receipt /\ order' = order
  BY DEF WriteBill
<1> DEFINE row == [status |-> "DRAFT", order |-> o, number |-> n, qty |-> q, price |-> p, rate |-> x]
<1>2. row \in Bill
  BY BasketsArePlain DEF Bill
<1>3. bill' = [bill EXCEPT ![b] = row]
  BY DEF WriteBill
<1>4. bill'[b] = row /\ \A c \in Bills : c # b => bill'[c] = bill[c]
  BY <1>3 DEF MatchInv
<1>5. bill' \in [Bills -> Bill]
  BY <1>2, <1>3 DEF MatchInv
<1>6. BillsOfOrders' /\ InFull' /\ Asked'
  BY <1>1, <1>4 DEF MatchInv, BillsOfOrders, InFull, Asked, WriteBill, Draftable
<1>7. ASSUME NEW t \in Orders, NEW i \in Items
      PROVE  InQty(t, i)' = InQty(t, i) /\ OutQty(t, i)' = OutQty(t, i)
  <2>1. Paid(t)' = Paid(t)
    BY <1>4 DEF Paid
  <2>2. \A c \in Paid(t) : bill'[c] = bill[c] /\ c \in Bills
    BY <1>4 DEF Paid
  <2>3. SumOf([c \in Bills |-> bill'[c].qty[i]], Paid(t)) = SumOf([c \in Bills |-> bill[c].qty[i]], Paid(t))
    BY <2>2, DocumentsFinite, SumSame
  <2> QED
    BY <1>1, <2>1, <2>3 DEF InQty, OutQty, Came
<1>8. Matched' /\ Told'
  BY <1>1, <1>7 DEF MatchInv, Matched, Told
<1> QED
  BY <1>5, <1>6, <1>8 DEF MatchInv

LEMMA PostAdds ==
  ASSUME DutyInv, MatchInv, NEW b \in Bills, PostSupplierBill(b), NEW p \in Orders, NEW i \in Items
  PROVE  /\ InQty(p, i)' = InQty(p, i)
         /\ OutQty(p, i)' = OutQty(p, i) + (IF p = bill[b].order THEN bill[b].qty[i] ELSE 0)
<1> DEFINE v == [c \in Bills |-> bill[c].qty[i]]
           w == [c \in Bills |-> bill'[c].qty[i]]
<1>1. /\ bill[b].status = "DRAFT" /\ bill'[b].status = "POSTED"
      /\ bill'[b].order = bill[b].order /\ bill'[b].qty = bill[b].qty
      /\ \A c \in Bills : c # b => bill'[c] = bill[c]
  BY DEF PostSupplierBill, MatchInv, Bill
<1>2. OutQty(p, i) \in Nat /\ \A c \in Bills : bill[c].qty[i] \in Nat
  BY QuantitiesType DEF MatchInv
<1>3. v = w /\ v[b] = bill[b].qty[i] /\ \A c \in Bills : v[c] \in Int
  BY <1>1, <1>2
<1>4. b \notin Paid(p) /\ Paid(p) \subseteq Bills /\ IsFiniteSet(Paid(p))
  BY <1>1, DocumentsFinite DEF Paid
<1>5. OutQty(p, i) = SumOf(v, Paid(p)) /\ OutQty(p, i)' = SumOf(v, Paid(p)')
  BY <1>3 DEF OutQty
<1>6. InQty(p, i)' = InQty(p, i)
  BY DEF PostSupplierBill, InQty, Came
<1> HIDE DEF v, w
<1>7. CASE p = bill[b].order
  <2>1. Paid(p)' = Paid(p) \cup {b}
    BY <1>1, <1>7 DEF Paid
  <2>2. SumOf(v, Paid(p) \cup {b}) = v[b] + SumOf(v, Paid(p))
    BY <1>3, <1>4, SumAdd
  <2> QED
    BY <1>2, <1>3, <1>5, <1>6, <1>7, <2>1, <2>2
<1>8. CASE p # bill[b].order
  <2>1. Paid(p)' = Paid(p)
    BY <1>1, <1>8 DEF Paid
  <2> QED
    BY <1>2, <1>5, <1>6, <1>8, <2>1
<1> QED
  BY <1>7, <1>8

LEMMA PostKeepsMatch ==
  ASSUME DutyInv, MatchInv, NEW b \in Bills, PostSupplierBill(b)
  PROVE  MatchInv'
<1> DEFINE o == bill[b].order
           row == [bill[b] EXCEPT !.status = "POSTED"]
<1>1. requisition' = requisition /\ receipt' = receipt /\ order' = order
  BY DEF PostSupplierBill
<1>2. row \in Bill /\ bill' = [bill EXCEPT ![b] = row] /\ bill[b].status = "DRAFT"
  BY DEF PostSupplierBill, MatchInv, Bill
<1>3. bill' \in [Bills -> Bill]
  BY <1>2 DEF MatchInv
<1>4. /\ bill'[b].order = o /\ bill'[b].qty = bill[b].qty /\ bill'[b].price = bill[b].price
      /\ \A c \in Bills : c # b => bill'[c] = bill[c]
  BY <1>2 DEF MatchInv, Bill
<1>5. o \in Orders /\ order[o].status \in {"ORDERED", "RECEIVED"}
  BY <1>2 DEF MatchInv, BillsOfOrders
<1>6. BillsOfOrders'
  BY <1>1, <1>4, <1>5 DEF MatchInv, BillsOfOrders
<1>7. \A i \in Items : bill[b].qty[i] > 0 =>
        /\ bill[b].price[i] = order[o].cost[i]
        /\ OutQty(o, i) + bill[b].qty[i] <= InQty(o, i)
  BY BilledIs, DeliveredIs DEF PostSupplierBill, Matches
<1>8. InFull'
  BY <1>1, <1>4, <1>7 DEF MatchInv, InFull
<1>9. ASSUME NEW p \in Orders, NEW i \in Items
      PROVE  /\ InQty(p, i) \in Nat /\ OutQty(p, i) \in Nat /\ bill[b].qty[i] \in Nat
             /\ InQty(p, i)' = InQty(p, i)
             /\ OutQty(p, i)' = OutQty(p, i) + (IF p = o THEN bill[b].qty[i] ELSE 0)
             /\ OutQty(p, i) <= InQty(p, i) /\ InQty(p, i) <= order[p].qty[i]
  BY PostAdds, QuantitiesType DEF MatchInv, Matched
<1> HIDE DEF o, row
<1>10. Matched'
  <2> SUFFICES ASSUME NEW p \in Orders, NEW i \in Items
               PROVE  OutQty(p, i)' <= InQty(p, i)' /\ InQty(p, i)' <= order'[p].qty[i]
    BY DEF Matched
  <2>1. CASE p = o /\ bill[b].qty[i] > 0
    BY <1>1, <1>7, <1>9, <2>1
  <2>2. CASE ~(p = o /\ bill[b].qty[i] > 0)
    BY <1>1, <1>9, <2>2
  <2> QED
    BY <2>1, <2>2
<1>11. Told' /\ Asked'
  BY <1>1, <1>9 DEF MatchInv, Told, Asked
<1> QED
  BY <1>3, <1>6, <1>8, <1>10, <1>11 DEF MatchInv

LEMMA MatchInvStep == DutyInv /\ MatchInv /\ [ProcurementNext]_vars => MatchInv'
<1> SUFFICES ASSUME DutyInv, MatchInv, [ProcurementNext]_vars PROVE MatchInv'
  OBVIOUS
<1>1. ASSUME NEW o \in Orders, NEW u \in Users, NEW s \in Suppliers, NEW q \in Baskets,
             NEW c \in PriceLists, NEW x \in Rates, DirectOrder(o, u, s, q, c, x)
      PROVE  MatchInv'
  <2>1. DraftOrder(o, u, None, s, q, c, x) /\ UNCHANGED <<requisition, receipt, bill>>
    BY <1>1 DEF DirectOrder
  <2>2. q \in Quantity /\ \E i \in Items : q[i] > 0
    BY BasketsAsk
  <2> QED
    BY <2>1, <2>2, DraftKeepsMatch
<1>2. ASSUME NEW r \in Requisitions, NEW o \in Orders, NEW u \in Users, NEW s \in Suppliers,
             NEW c \in PriceLists, NEW x \in Rates, AwardRfq(r, o, u, s, c, x)
      PROVE  MatchInv'
  <2> DEFINE q == requisition[r].qty
  <2>1. DraftOrder(o, u, r, s, q, c, x) /\ UNCHANGED <<requisition, receipt, bill>>
    BY <1>2 DEF AwardRfq
  <2>2. q \in Quantity
    BY DEF DutyInv, DocumentsTypeOK, Requisition
  <2>3. requisition[r].status # "ABSENT"
    BY <1>2 DEF AwardRfq, DutyInv, Decided
  <2>4. \E i \in Items : q[i] > 0
    BY <2>3 DEF MatchInv, Asked
  <2> HIDE DEF q
  <2> QED
    BY <2>1, <2>2, <2>4, DraftKeepsMatch
<1>3. ASSUME UNCHANGED <<requisition, order, receipt, bill>>
      PROVE  MatchInv'
  <2>1. Matched' /\ Told'
    BY <1>3, SumsStay DEF MatchInv, Matched, Told
  <2> QED
    BY <1>3, <2>1 DEF MatchInv, BillsOfOrders, Asked, InFull
<1>4. ASSUME NEW r \in Requisitions, NEW invited \in SUBSET Suppliers, IssueRfq(r, invited)
      PROVE  MatchInv'
  BY <1>3, <1>4 DEF IssueRfq
<1>5. ASSUME NEW b \in Bills, NEW o \in Orders, NEW n \in BillNumbers, NEW q \in Baskets,
             NEW p \in PriceLists, NEW x \in Rates, CreateSupplierBill(b, o, n, q, p, x)
      PROVE  MatchInv'
  BY <1>5, WriteKeepsMatch DEF CreateSupplierBill
<1>6. ASSUME NEW b \in Bills, NEW n \in BillNumbers, NEW q \in Baskets,
             NEW p \in PriceLists, NEW x \in Rates, UpdateSupplierBill(b, n, q, p, x)
      PROVE  MatchInv'
  <2>1. bill[b].status = "DRAFT" /\ bill[b].order \in Orders
    BY <1>6 DEF UpdateSupplierBill, MatchInv, BillsOfOrders
  <2> QED
    BY <1>6, <2>1, WriteKeepsMatch DEF UpdateSupplierBill
<1>7. ASSUME UNCHANGED vars PROVE MatchInv'
  BY <1>3, <1>7 DEF vars, procurementVars
<1> QED
  BY <1>1, <1>2, <1>4, <1>5, <1>6, <1>7, RequisitionKeepsMatch, ApproveKeepsMatch,
     ReceiptKeepsMatch, PostKeepsMatch DEF ProcurementNext

LEMMA MatchInvAlways == ProcurementSpec => [](DutyInv /\ MatchInv)
BY DutyInvInit, DutyInvStep, MatchInvInit, MatchInvStep, PTL DEF ProcurementSpec

LEMMA MatchMeansVariance == DutyInv /\ MatchInv => VarianceIsBlocked
<1> SUFFICES ASSUME DutyInv, MatchInv, NEW b \in Bills, bill[b].status # "ABSENT",
                    NEW i \in Items, Variance(b, i) # 0
             PROVE  bill[b].status = "DRAFT" /\ <<"PRICE_MISMATCH", i>> \in MatchReasons(b)
  BY DEF VarianceIsBlocked, PriceVariance
<1> DEFINE o == bill[b].order
<1>1. o \in Orders /\ bill[b].status \in {"DRAFT", "POSTED"}
  BY DEF MatchInv, BillsOfOrders, Bill
<1>2. bill[b].qty[i] \in Nat /\ bill[b].price[i] \in Nat /\ order[o].cost[i] \in Nat
  BY <1>1, QuantitiesType DEF MatchInv, DutyInv, DocumentsTypeOK, Order, Quantity
<1>3. bill[b].qty[i] > 0 /\ bill[b].price[i] # order[o].cost[i]
  <2>1. ASSUME NEW x \in Nat, NEW y \in Nat, NEW n \in Nat, (x - y) * n # 0
        PROVE  n > 0 /\ x # y
    BY <2>1
  <2>2. (bill[b].price[i] - order[o].cost[i]) * bill[b].qty[i] # 0
    BY DEF Variance
  <2> QED
    BY <1>2, <2>1, <2>2
<1>4. bill[b].status = "DRAFT"
  BY <1>1, <1>3 DEF MatchInv, InFull
<1>5. <<"PRICE_MISMATCH", i>> \in MatchReasons(b)
  <2>1. i \in {j \in {k \in Items : bill[b].qty[k] > 0} : bill[b].price[j] # order[o].cost[j]}
    BY <1>3
  <2> QED
    BY <2>1, Zenon DEF MatchReasons
<1> QED
  BY <1>4, <1>5

\* However an order is delivered and billed in parts, by however many documents:
\* no line is billed beyond what came nor delivered beyond what was ordered, the
\* order reads RECEIVED exactly when all of it came, and a bill at another price
\* than the order's is a draft that the report lists as blocked.
THEOREM OrdersAlwaysMatch == ProcurementSpec => []OrdersMatch
<1>1. DutyInv /\ MatchInv => OrdersMatch
  BY MatchedIs, MatchMeansVariance DEF MatchInv, OrdersMatch
<1> QED
  BY <1>1, MatchInvAlways, PTL

----------------------------------------------------------------------------
(* The control accounts.                                                   *)

Taken == {k \in Receipts : receipt[k].order # None}
Posted == {b \in Bills : bill[b].status = "POSTED"}

\* What a receipt credited.
CreditOf(k) == ReceiptCredit(receipt[k].order, receipt[k].qty)

CreditSum == SumOf([k \in Receipts |-> CreditOf(k)], Taken)
ClearedSum == SumOf([b \in Bills |-> Cleared(b)], Posted)
PayableSum == SumOf([b \in Bills |-> Payable(b)], Posted)
ShelfSum == SumOf([i \in Items |-> layer[i].cost], Items)

\* The accounts are what the journals of receipts and posted bills add up to,
\* the shelf what the receipts do; and what the report needs of the documents:
\* an empty receipt has no lines, an order a supplier, a bill a line.
AccountInv ==
  /\ account = [grni |-> CreditSum - ClearedSum, ap |-> PayableSum, fx |-> PayableSum - ClearedSum]
  /\ ShelfSum = CreditSum
  /\ \A k \in Receipts : receipt[k].order = None => receipt[k].qty = Nothing
  /\ \A o \in Orders : order[o].status # "ABSENT" => order[o].vendor \in Suppliers
  /\ \A b \in Bills : bill[b].status # "ABSENT" => \E i \in Items : bill[b].qty[i] > 0

LEMMA TablesFinite ==
  IsFiniteSet(Items) /\ IsFiniteSet(Suppliers) /\ IsFiniteSet(Orders) /\ IsFiniteSet(Receipts)
    /\ IsFiniteSet(Bills) /\ IsFiniteSet(Taken) /\ IsFiniteSet(Posted)
<1>1. Taken \subseteq Receipts /\ Posted \subseteq Bills
  BY DEF Taken, Posted
<1> QED
  BY <1>1, FS_Subset, ProcurementConstants

LEMMA AtRateType ==
  ASSUME NEW c \in Nat, NEW x \in Nat
  PROVE  AtRate(c, x) \in Nat
<1>1. c * x \in Nat
  OBVIOUS
<1> QED
  BY <1>1, RoundHalfUpType, ProcurementConstants DEF AtRate

LEMMA CreditIs ==
  ASSUME DocumentsTypeOK, NEW o \in Orders, NEW q \in Quantity
  PROVE  /\ ReceiptCredit(o, q) \in Nat
         /\ ReceiptCredit(o, q) = SumOf([i \in Items |-> Value(o, i, q[i])], Items)
         /\ \A i \in Items : Value(o, i, q[i]) \in Nat
<1> DEFINE w == [i \in Items |-> Value(o, i, q[i])]
<1>1. \A i \in Items : w[i] \in Nat
  BY ValueType DEF Quantity
<1>2. ReceiptCredit(o, q) = SumFunction(w) /\ DOMAIN w = Items
  BY DEF ReceiptCredit
<1> HIDE DEF w
<1>3. SumFunction(w) = SumOf(w, Items) /\ SumOf(w, Items) \in Nat
  BY <1>1, <1>2, TablesFinite, SumFunctionIs, SumType
<1> QED
  BY <1>1, <1>2, <1>3 DEF w

LEMMA BillAtIs ==
  ASSUME bill \in [Bills -> Bill], NEW b \in Bills, NEW x \in Nat
  PROVE  /\ BillAt(b, x) \in Nat
         /\ BillAt(b, x) = SumOf([i \in Items |-> AtRate(bill[b].price[i] * bill[b].qty[i], x)], Items)
         /\ \A i \in Items : AtRate(bill[b].price[i] * bill[b].qty[i], x) \in Nat
<1> DEFINE w == [i \in Items |-> AtRate(bill[b].price[i] * bill[b].qty[i], x)]
<1>1. \A i \in Items : w[i] \in Nat
  <2> SUFFICES ASSUME NEW i \in Items PROVE AtRate(bill[b].price[i] * bill[b].qty[i], x) \in Nat
    OBVIOUS
  <2>1. bill[b].price[i] * bill[b].qty[i] \in Nat
    BY DEF Bill, Quantity
  <2> QED
    BY <2>1, AtRateType
<1>2. BillAt(b, x) = SumFunction(w) /\ DOMAIN w = Items
  BY DEF BillAt
<1> HIDE DEF w
<1>3. SumFunction(w) = SumOf(w, Items) /\ SumOf(w, Items) \in Nat
  BY <1>1, <1>2, TablesFinite, SumFunctionIs, SumType
<1> QED
  BY <1>1, <1>2, <1>3 DEF w

\* The journals of the documents there are, in whole cents.
LEMMA JournalsType ==
  ASSUME DutyInv, MatchInv
  PROVE  /\ \A k \in Taken : receipt[k].order \in Orders /\ receipt[k].qty \in Quantity
                             /\ CreditOf(k) \in Nat
         /\ \A b \in Posted : /\ bill[b].order \in Orders /\ Cleared(b) \in Nat
                              /\ Payable(b) \in Nat
         /\ CreditSum \in Nat /\ ClearedSum \in Nat /\ PayableSum \in Nat
<1>1. ASSUME NEW k \in Taken
      PROVE  receipt[k].order \in Orders /\ receipt[k].qty \in Quantity /\ CreditOf(k) \in Nat
  <2>1. receipt[k].order \in Orders /\ receipt[k].qty \in Quantity
    BY DEF Taken, DutyInv, DocumentsTypeOK, Receipt
  <2> QED
    BY <2>1, CreditIs DEF CreditOf, DutyInv
<1>2. ASSUME NEW b \in Bills, bill[b].status # "ABSENT"
      PROVE  bill[b].order \in Orders /\ Cleared(b) \in Nat /\ Payable(b) \in Nat
  <2>1. bill[b].order \in Orders
    BY <1>2 DEF MatchInv, BillsOfOrders
  <2>2. bill[b].rate \in Nat /\ order[bill[b].order].rate \in Nat
    BY <2>1 DEF MatchInv, Bill, DutyInv, DocumentsTypeOK, Order
  <2> QED
    BY <2>1, <2>2, BillAtIs DEF MatchInv, Cleared, Payable
<1>3. \A b \in Posted : bill[b].order \in Orders /\ Cleared(b) \in Nat /\ Payable(b) \in Nat
  BY <1>2 DEF Posted
<1>4. CreditSum \in Nat
  <2>1. \A k \in Taken : [j \in Receipts |-> CreditOf(j)][k] \in Nat
    BY <1>1 DEF Taken
  <2> QED
    BY <2>1, TablesFinite, SumType DEF CreditSum
<1>5. ClearedSum \in Nat
  <2>1. \A b \in Posted : [c \in Bills |-> Cleared(c)][b] \in Nat
    BY <1>3 DEF Posted
  <2> QED
    BY <2>1, TablesFinite, SumType DEF ClearedSum
<1>6. PayableSum \in Nat
  <2>1. \A b \in Posted : [c \in Bills |-> Payable(c)][b] \in Nat
    BY <1>3 DEF Posted
  <2> QED
    BY <2>1, TablesFinite, SumType DEF PayableSum
<1> QED
  BY <1>1, <1>3, <1>4, <1>5, <1>6

LEMMA AccountInvInit == ProcurementInit => AccountInv
<1> SUFFICES ASSUME ProcurementInit PROVE AccountInv
  OBVIOUS
<1>1. /\ \A k \in Receipts : receipt[k].order = None /\ receipt[k].qty = Nothing
      /\ \A o \in Orders : order[o].status = "ABSENT"
      /\ \A b \in Bills : bill[b].status = "ABSENT"
      /\ \A i \in Items : layer[i].cost = 0
      /\ account = [grni |-> 0, ap |-> 0, fx |-> 0]
  BY DEF ProcurementInit, StockInit
<1>2. Taken = {} /\ Posted = {}
  BY <1>1 DEF Taken, Posted
<1>3. CreditSum = 0 /\ ClearedSum = 0 /\ PayableSum = 0
  BY <1>2, SumEmpty DEF CreditSum, ClearedSum, PayableSum
<1>4. ShelfSum = 0
  <2>1. \A i \in Items : [j \in Items |-> layer[j].cost][i] = 0
    BY <1>1
  <2> QED
    BY <2>1, TablesFinite, SumZero DEF ShelfSum
<1>5. account = [grni |-> CreditSum - ClearedSum, ap |-> PayableSum, fx |-> PayableSum - ClearedSum]
  BY <1>1, <1>3
<1> QED
  BY <1>1, <1>3, <1>4, <1>5 DEF AccountInv

\* A journal amount, by what it is computed from.
JournalOf(price, qty, rate) == SumFunction([i \in Items |-> AtRate(price[i] * qty[i], rate)])

LEMMA JournalsAre ==
  ASSUME NEW k, NEW b
  PROVE  /\ CreditOf(k) = JournalOf(order[receipt[k].order].cost, receipt[k].qty,
                                    order[receipt[k].order].rate)
         /\ CreditOf(k)' = JournalOf(order'[receipt'[k].order].cost, receipt'[k].qty,
                                     order'[receipt'[k].order].rate)
         /\ Cleared(b) = JournalOf(bill[b].price, bill[b].qty, order[bill[b].order].rate)
         /\ Cleared(b)' = JournalOf(bill'[b].price, bill'[b].qty, order'[bill'[b].order].rate)
         /\ Payable(b) = JournalOf(bill[b].price, bill[b].qty, bill[b].rate)
         /\ Payable(b)' = JournalOf(bill'[b].price, bill'[b].qty, bill'[b].rate)
<1>1. /\ CreditOf(k) = JournalOf(order[receipt[k].order].cost, receipt[k].qty,
                                 order[receipt[k].order].rate)
      /\ CreditOf(k)' = JournalOf(order'[receipt'[k].order].cost, receipt'[k].qty,
                                  order'[receipt'[k].order].rate)
  BY Zenon DEF CreditOf, ReceiptCredit, Value, JournalOf
<1>2. /\ Cleared(b) = JournalOf(bill[b].price, bill[b].qty, order[bill[b].order].rate)
      /\ Cleared(b)' = JournalOf(bill'[b].price, bill'[b].qty, order'[bill'[b].order].rate)
  BY Zenon DEF Cleared, BillAt, JournalOf
<1>3. /\ Payable(b) = JournalOf(bill[b].price, bill[b].qty, bill[b].rate)
      /\ Payable(b)' = JournalOf(bill'[b].price, bill'[b].qty, bill'[b].rate)
  BY Zenon DEF Payable, BillAt, JournalOf
<1> QED
  BY <1>1, <1>2, <1>3

\* What an approved order says of cost and rate, it says for ever.
TermsStay ==
  \A o \in Orders : order[o].status \in {"ORDERED", "RECEIVED"} =>
    order'[o].cost = order[o].cost /\ order'[o].rate = order[o].rate

LEMMA OldCredits ==
  ASSUME DutyInv, TermsStay, \A k \in Taken : receipt'[k] = receipt[k]
  PROVE  SumOf([k \in Receipts |-> CreditOf(k)'], Taken) = CreditSum
<1> DEFINE v == [k \in Receipts |-> CreditOf(k)']
           w == [k \in Receipts |-> CreditOf(k)]
<1>1. \A k \in Taken : CreditOf(k)' = CreditOf(k)
  <2> SUFFICES ASSUME NEW k \in Taken PROVE CreditOf(k)' = CreditOf(k)
    OBVIOUS
  <2>1. receipt[k].order \in Orders /\ order[receipt[k].order].status \in {"ORDERED", "RECEIVED"}
    BY DEF Taken, DutyInv, DocumentsTypeOK, Receipt, Approved
  <2> QED
    BY <2>1, JournalsAre DEF TermsStay
<1>2. \A k \in Taken : v[k] = w[k]
  BY <1>1 DEF Taken
<1> HIDE DEF v, w
<1>3. SumOf(v, Taken) = SumOf(w, Taken)
  BY <1>2, TablesFinite, SumSame
<1> QED
  BY <1>3, Zenon DEF v, w, CreditSum

LEMMA OldBills ==
  ASSUME DutyInv, MatchInv, TermsStay,
         \A b \in Posted : /\ bill'[b].order = bill[b].order /\ bill'[b].qty = bill[b].qty
                           /\ bill'[b].price = bill[b].price /\ bill'[b].rate = bill[b].rate
  PROVE  /\ SumOf([b \in Bills |-> Cleared(b)'], Posted) = ClearedSum
         /\ SumOf([b \in Bills |-> Payable(b)'], Posted) = PayableSum
<1> DEFINE v1 == [b \in Bills |-> Cleared(b)']
           w1 == [b \in Bills |-> Cleared(b)]
           v2 == [b \in Bills |-> Payable(b)']
           w2 == [b \in Bills |-> Payable(b)]
<1>1. \A b \in Posted : Cleared(b)' = Cleared(b) /\ Payable(b)' = Payable(b)
  <2> SUFFICES ASSUME NEW b \in Posted PROVE Cleared(b)' = Cleared(b) /\ Payable(b)' = Payable(b)
    OBVIOUS
  <2>1. bill[b].order \in Orders /\ order[bill[b].order].status \in {"ORDERED", "RECEIVED"}
    BY DEF Posted, MatchInv, BillsOfOrders
  <2> QED
    BY <2>1, JournalsAre DEF TermsStay
<1>2. \A b \in Posted : v1[b] = w1[b] /\ v2[b] = w2[b]
  BY <1>1 DEF Posted
<1> HIDE DEF v1, w1, v2, w2
<1>3. SumOf(v1, Posted) = SumOf(w1, Posted) /\ SumOf(v2, Posted) = SumOf(w2, Posted)
  BY <1>2, TablesFinite, SumSame
<1> QED
  BY <1>3, Zenon DEF v1, w1, v2, w2, ClearedSum, PayableSum

\* A step that posts nothing leaves the accounts alone.
LEMMA NothingPosted ==
  ASSUME DutyInv, MatchInv, AccountInv, TermsStay, UNCHANGED <<layer, receipt, account>>,
         Posted' = Posted, \A b \in Posted : bill'[b] = bill[b],
         \A o \in Orders : order'[o].status # "ABSENT" => order'[o].vendor \in Suppliers,
         \A b \in Bills : bill'[b].status # "ABSENT" => \E i \in Items : bill'[b].qty[i] > 0
  PROVE  AccountInv'
<1>1. Taken' = Taken
  BY DEF Taken
<1>2. CreditSum' = CreditSum
  <2>1. SumOf([k \in Receipts |-> CreditOf(k)'], Taken) = CreditSum
    BY OldCredits
  <2> QED
    BY <1>1, <2>1 DEF CreditSum
<1>3. ClearedSum' = ClearedSum /\ PayableSum' = PayableSum
  <2>1. /\ SumOf([b \in Bills |-> Cleared(b)'], Posted) = ClearedSum
        /\ SumOf([b \in Bills |-> Payable(b)'], Posted) = PayableSum
    BY OldBills
  <2> QED
    BY <2>1 DEF ClearedSum, PayableSum
<1>4. ShelfSum' = ShelfSum
  BY DEF ShelfSum
<1>5. account' = [grni |-> CreditSum - ClearedSum, ap |-> PayableSum, fx |-> PayableSum - ClearedSum]'
  BY <1>2, <1>3 DEF AccountInv
<1> QED
  BY <1>2, <1>4, <1>5 DEF AccountInv

\* Nothing costs nothing, so that a line of a receipt counts whether it came or not.
LEMMA RateOfNothing == ASSUME NEW x \in Nat PROVE AtRate(0, x) = 0
<1>1. 0 * x = 0
  OBVIOUS
<1>2. RateUnit \in Nat /\ RateUnit > 0
  BY ProcurementConstants
<1>3. \A d \in Nat : d > 0 => (0 + (d \div 2)) \div d = 0
  <2> SUFFICES ASSUME NEW d \in Nat, d > 0 PROVE (0 + (d \div 2)) \div d = 0
    OBVIOUS
  <2>1. PICK h \in Nat : h = d \div 2
    OBVIOUS
  <2>2. h < d
    BY <2>1
  <2>3. h \div d = 0
    BY <2>2
  <2> QED
    BY <2>1, <2>3
<1>4. AtRate(0, x) = (0 + (RateUnit \div 2)) \div RateUnit
  BY <1>1 DEF AtRate, RoundHalfUp
<1> QED
  BY <1>2, <1>3, <1>4

LEMMA ValueOfNothing ==
  ASSUME DocumentsTypeOK, NEW o \in Orders, NEW i \in Items
  PROVE  Value(o, i, 0) = 0
<1>1. order[o].cost[i] \in Nat /\ order[o].rate \in Nat
  BY DEF DocumentsTypeOK, Order, Quantity
<1>2. order[o].cost[i] * 0 = 0
  BY <1>1
<1> QED
  BY <1>1, <1>2, RateOfNothing DEF Value

LEMMA ReceiptCredits ==
  ASSUME DutyInv, MatchInv, AccountInv, StockTypeOK, TermsStay,
         NEW k \in Receipts, NEW o \in Orders, NEW q \in Baskets, PostGoodsReceipt(k, o, q)
  PROVE  /\ CreditSum' = CreditSum + ReceiptCredit(o, q)
         /\ ShelfSum' = ShelfSum + ReceiptCredit(o, q)
<1>1. /\ receipt[k].order = None /\ receipt'[k] = [order |-> o, qty |-> q]
      /\ \A j \in Receipts : j # k => receipt'[j] = receipt[j]
      /\ order[o].status = "ORDERED"
  BY DEF PostGoodsReceipt, DutyInv, DocumentsTypeOK
<1>2. q \in Quantity /\ o # None
  BY BasketsArePlain
<1>3. /\ ReceiptCredit(o, q) \in Nat
      /\ ReceiptCredit(o, q) = SumOf([i \in Items |-> Value(o, i, q[i])], Items)
      /\ \A i \in Items : Value(o, i, q[i]) \in Nat
  BY <1>2, CreditIs DEF DutyInv
<1>4. CreditSum' = CreditSum + ReceiptCredit(o, q)
  <2> DEFINE w == [j \in Receipts |-> CreditOf(j)']
  <2>1. k \notin Taken /\ Taken' = Taken \cup {k} /\ \A j \in Taken : receipt'[j] = receipt[j]
    BY <1>1, <1>2 DEF Taken
  <2>2. SumOf(w, Taken) = CreditSum
    BY <2>1, OldCredits
  <2>3. CreditOf(k)' = ReceiptCredit(o, q)
    <3>1. order'[o].cost = order[o].cost /\ order'[o].rate = order[o].rate
      BY <1>1 DEF TermsStay
    <3>2. ReceiptCredit(o, q) = JournalOf(order[o].cost, q, order[o].rate)
      BY Zenon DEF ReceiptCredit, Value, JournalOf
    <3>3. CreditOf(k)' = JournalOf(order'[o].cost, q, order'[o].rate)
      BY <1>1, JournalsAre
    <3> QED
      BY <3>1, <3>2, <3>3
  <2>4. \A j \in Taken : CreditOf(j)' = CreditOf(j)
    <3> SUFFICES ASSUME NEW j \in Taken PROVE CreditOf(j)' = CreditOf(j)
      OBVIOUS
    <3>1. receipt[j].order \in Orders /\ order[receipt[j].order].status \in {"ORDERED", "RECEIVED"}
      BY DEF Taken, DutyInv, DocumentsTypeOK, Receipt, Approved
    <3> QED
      BY <2>1, <3>1, JournalsAre DEF TermsStay
  <2>5. \A j \in Taken \cup {k} : w[j] \in Int
    BY <1>3, <2>3, <2>4, JournalsType DEF Taken
  <2>6. w[k] = ReceiptCredit(o, q)
    BY <2>3
  <2>7. CreditSum' = SumOf(w, Taken')
    BY DEF CreditSum
  <2> HIDE DEF w
  <2>8. SumOf(w, Taken \cup {k}) = w[k] + SumOf(w, Taken)
    BY <2>1, <2>5, TablesFinite, SumAdd
  <2>9. CreditSum \in Nat
    BY JournalsType
  <2> QED
    BY <1>3, <2>1, <2>2, <2>6, <2>7, <2>8, <2>9
<1>5. ShelfSum' = ShelfSum + ReceiptCredit(o, q)
  <2> DEFINE u == [i \in Items |-> layer'[i].cost]
             v == [i \in Items |-> layer[i].cost]
             w == [i \in Items |-> Value(o, i, q[i])]
  <2>1. ASSUME NEW i \in Items
        PROVE  v[i] \in Int /\ w[i] \in Int /\ u[i] = v[i] + w[i]
    <3>1. layer[i].cost \in Nat /\ q[i] \in Nat
      BY <1>2 DEF StockTypeOK, Layer, Quantity
    <3>2. CASE q[i] > 0
      <4>1. layer'[i] = Received(layer[i], q[i], Value(o, i, q[i]))
        BY <3>2 DEF PostGoodsReceipt, TakeIn
      <4> QED
        BY <1>3, <3>1, <4>1 DEF Received
    <3>3. CASE q[i] = 0
      <4>1. layer'[i] = layer[i]
        BY <3>3 DEF PostGoodsReceipt, TakeIn
      <4>2. Value(o, i, q[i]) = 0
        BY <3>3, ValueOfNothing DEF DutyInv
      <4> QED
        BY <3>1, <4>1, <4>2
    <3> QED
      BY <3>1, <3>2, <3>3
  <2>2. ShelfSum' = SumOf(u, Items) /\ ShelfSum = SumOf(v, Items)
        /\ ReceiptCredit(o, q) = SumOf(w, Items)
    BY <1>3 DEF ShelfSum
  <2> HIDE DEF u, v, w
  <2>3. Plus(u, v, w, Items)
    BY <2>1 DEF Plus
  <2> QED
    BY <2>2, <2>3, TablesFinite, SumPlus
<1> QED
  BY <1>4, <1>5

LEMMA PostBooks ==
  ASSUME DutyInv, MatchInv, AccountInv, TermsStay, NEW b \in Bills, PostSupplierBill(b)
  PROVE  /\ ClearedSum' = ClearedSum + Cleared(b)
         /\ PayableSum' = PayableSum + Payable(b)
<1> DEFINE v == [c \in Bills |-> Cleared(c)']
           w == [c \in Bills |-> Payable(c)']
<1>1. /\ bill[b].status = "DRAFT" /\ bill'[b].status = "POSTED" /\ order' = order
      /\ bill'[b].order = bill[b].order /\ bill'[b].qty = bill[b].qty
      /\ bill'[b].price = bill[b].price /\ bill'[b].rate = bill[b].rate
      /\ \A c \in Bills : c # b => bill'[c] = bill[c]
  BY DEF PostSupplierBill, MatchInv, Bill
<1>2. b \notin Posted /\ Posted' = Posted \cup {b} /\ \A c \in Posted : bill'[c] = bill[c]
  BY <1>1 DEF Posted
<1>3. SumOf(v, Posted) = ClearedSum /\ SumOf(w, Posted) = PayableSum
  <2>1. \A c \in Posted : /\ bill'[c].order = bill[c].order /\ bill'[c].qty = bill[c].qty
                          /\ bill'[c].price = bill[c].price /\ bill'[c].rate = bill[c].rate
    BY <1>2
  <2> QED
    BY <2>1, OldBills
<1>4. Cleared(b)' = Cleared(b) /\ Payable(b)' = Payable(b)
  BY <1>1, JournalsAre
<1>5. Cleared(b) \in Nat /\ Payable(b) \in Nat
  <2>1. bill[b].order \in Orders
    BY <1>1 DEF MatchInv, BillsOfOrders
  <2>2. bill[b].rate \in Nat /\ order[bill[b].order].rate \in Nat
    BY <2>1 DEF MatchInv, Bill, DutyInv, DocumentsTypeOK, Order
  <2> QED
    BY <2>1, <2>2, BillAtIs DEF MatchInv, Cleared, Payable
<1>6. \A c \in Posted : Cleared(c)' = Cleared(c) /\ Payable(c)' = Payable(c)
  <2> SUFFICES ASSUME NEW c \in Posted PROVE Cleared(c)' = Cleared(c) /\ Payable(c)' = Payable(c)
    OBVIOUS
  <2> QED
    BY <1>1, <1>2, JournalsAre
<1>7. \A c \in Posted \cup {b} : v[c] \in Int /\ w[c] \in Int
  BY <1>4, <1>5, <1>6, JournalsType DEF Posted
<1>8. v[b] = Cleared(b) /\ w[b] = Payable(b)
  BY <1>4
<1>9. ClearedSum' = SumOf(v, Posted') /\ PayableSum' = SumOf(w, Posted')
  BY DEF ClearedSum, PayableSum
<1> HIDE DEF v, w
<1>10. SumOf(v, Posted \cup {b}) = v[b] + SumOf(v, Posted)
  BY <1>2, <1>7, TablesFinite, SumAdd
<1>11. SumOf(w, Posted \cup {b}) = w[b] + SumOf(w, Posted)
  BY <1>2, <1>7, TablesFinite, SumAdd
<1>12. ClearedSum \in Nat /\ PayableSum \in Nat
  BY JournalsType
<1> QED
  BY <1>2, <1>3, <1>5, <1>8, <1>9, <1>10, <1>11, <1>12

LEMMA OrdersStay ==
  ASSUME DutyInv, [ProcurementNext]_vars
  PROVE  TermsStay
<1> SUFFICES ASSUME NEW o \in Orders, order[o].status \in {"ORDERED", "RECEIVED"}
             PROVE  order'[o].cost = order[o].cost /\ order'[o].rate = order[o].rate
  BY DEF TermsStay
<1>1. ASSUME NEW p \in Orders, NEW u, NEW r, NEW s, NEW q, NEW c, NEW x,
             DraftOrder(p, u, r, s, q, c, x)
      PROVE  order'[o] = order[o]
  BY <1>1 DEF DraftOrder, DutyInv, DocumentsTypeOK
<1>2. ASSUME NEW p \in Orders, NEW u \in Users, ApproveOrder(p, u)
      PROVE  order'[o].cost = order[o].cost /\ order'[o].rate = order[o].rate
  BY <1>2 DEF ApproveOrder, DutyInv, DocumentsTypeOK, Order
<1>3. ASSUME NEW k \in Receipts, NEW p \in Orders, NEW q \in Baskets, PostGoodsReceipt(k, p, q)
      PROVE  order'[o].cost = order[o].cost /\ order'[o].rate = order[o].rate
  <2>1. order' = order \/ order' = [order EXCEPT ![p].status = "RECEIVED"]
    BY <1>3 DEF PostGoodsReceipt
  <2> QED
    BY <2>1 DEF DutyInv, DocumentsTypeOK, Order
<1>4. ASSUME order' = order
      PROVE  order'[o].cost = order[o].cost /\ order'[o].rate = order[o].rate
  BY <1>4
<1>5. ASSUME NEW p \in Orders, NEW u \in Users, NEW s \in Suppliers, NEW q \in Baskets,
             NEW c \in PriceLists, NEW x \in Rates, DirectOrder(p, u, s, q, c, x)
      PROVE  order'[o] = order[o]
  BY <1>1, <1>5 DEF DirectOrder
<1>6. ASSUME NEW r \in Requisitions, NEW p \in Orders, NEW u \in Users, NEW s \in Suppliers,
             NEW c \in PriceLists, NEW x \in Rates, AwardRfq(r, p, u, s, c, x)
      PROVE  order'[o] = order[o]
  <2>1. DraftOrder(p, u, r, s, requisition[r].qty, c, x)
    BY <1>6 DEF AwardRfq
  <2> QED
    BY <1>1, <2>1
<1> QED
  BY <1>2, <1>3, <1>4, <1>5, <1>6
    DEF ProcurementNext, vars, procurementVars, SubmitRequisition, DecideRequisition, IssueRfq,
        CreateSupplierBill, UpdateSupplierBill, WriteBill, PostSupplierBill

LEMMA ReceiptKeepsAccounts ==
  ASSUME DutyInv, MatchInv, AccountInv, StockTypeOK, TermsStay,
         NEW k \in Receipts, NEW o \in Orders, NEW q \in Baskets, PostGoodsReceipt(k, o, q)
  PROVE  AccountInv'
<1>1. CreditSum' = CreditSum + ReceiptCredit(o, q) /\ ShelfSum' = ShelfSum + ReceiptCredit(o, q)
  BY ReceiptCredits
<1>2. ClearedSum' = ClearedSum /\ PayableSum' = PayableSum
  <2>1. bill' = bill /\ Posted' = Posted
    BY DEF PostGoodsReceipt, Posted
  <2>2. /\ SumOf([b \in Bills |-> Cleared(b)'], Posted) = ClearedSum
        /\ SumOf([b \in Bills |-> Payable(b)'], Posted) = PayableSum
    BY <2>1, OldBills
  <2> QED
    BY <2>1, <2>2 DEF ClearedSum, PayableSum
<1>3. ReceiptCredit(o, q) \in Nat /\ CreditSum \in Nat /\ ClearedSum \in Nat /\ PayableSum \in Nat
  BY BasketsArePlain, CreditIs, JournalsType DEF DutyInv
<1>4. account' = [account EXCEPT !.grni = account.grni + ReceiptCredit(o, q)]
  BY DEF PostGoodsReceipt
<1>5. account' = [grni |-> CreditSum' - ClearedSum', ap |-> PayableSum', fx |-> PayableSum' - ClearedSum']
  <2>1. account = [grni |-> CreditSum - ClearedSum, ap |-> PayableSum, fx |-> PayableSum - ClearedSum]
    BY DEF AccountInv
  <2>2. account' = [grni |-> (CreditSum - ClearedSum) + ReceiptCredit(o, q), ap |-> PayableSum,
                    fx |-> PayableSum - ClearedSum]
    BY <1>4, <2>1
  <2>3. (CreditSum - ClearedSum) + ReceiptCredit(o, q) = CreditSum' - ClearedSum'
    BY <1>1, <1>2, <1>3
  <2> QED
    BY <1>2, <2>2, <2>3
<1>6. ShelfSum' = CreditSum'
  BY <1>1 DEF AccountInv
<1>7. \A j \in Receipts : receipt'[j].order = None => receipt'[j].qty = Nothing
  BY BasketsArePlain DEF AccountInv, PostGoodsReceipt, DutyInv, DocumentsTypeOK
<1>8. \A p \in Orders : order'[p].status # "ABSENT" => order'[p].vendor \in Suppliers
  <2>1. order' = order \/ order' = [order EXCEPT ![o].status = "RECEIVED"]
    BY DEF PostGoodsReceipt
  <2>2. order[o].status # "ABSENT"
    BY DEF PostGoodsReceipt
  <2> QED
    BY <2>1, <2>2 DEF AccountInv, DutyInv, DocumentsTypeOK, Order
<1>9. \A b \in Bills : bill'[b].status # "ABSENT" => \E i \in Items : bill'[b].qty[i] > 0
  BY DEF AccountInv, PostGoodsReceipt
<1> QED
  BY <1>5, <1>6, <1>7, <1>8, <1>9 DEF AccountInv

LEMMA PostKeepsAccounts ==
  ASSUME DutyInv, MatchInv, AccountInv, TermsStay, NEW b \in Bills, PostSupplierBill(b)
  PROVE  AccountInv'
<1>1. ClearedSum' = ClearedSum + Cleared(b) /\ PayableSum' = PayableSum + Payable(b)
  BY PostBooks
<1>2. CreditSum' = CreditSum /\ ShelfSum' = ShelfSum
  <2>1. receipt' = receipt /\ layer' = layer /\ Taken' = Taken
    BY DEF PostSupplierBill, stockVars, Taken
  <2>2. SumOf([k \in Receipts |-> CreditOf(k)'], Taken) = CreditSum
    BY <2>1, OldCredits
  <2> QED
    BY <2>1, <2>2 DEF CreditSum, ShelfSum
<1>3. /\ CreditSum \in Nat /\ ClearedSum \in Nat /\ PayableSum \in Nat
      /\ Cleared(b) \in Nat /\ Payable(b) \in Nat
  <2>1. bill[b].order \in Orders
    BY DEF PostSupplierBill, MatchInv, BillsOfOrders
  <2>2. bill[b].rate \in Nat /\ order[bill[b].order].rate \in Nat
    BY <2>1 DEF MatchInv, Bill, DutyInv, DocumentsTypeOK, Order
  <2> QED
    BY <2>1, <2>2, BillAtIs, JournalsType DEF MatchInv, Cleared, Payable
<1>4. account = [grni |-> CreditSum - ClearedSum, ap |-> PayableSum, fx |-> PayableSum - ClearedSum]
  BY DEF AccountInv
<1>5. account' = [grni |-> account.grni - Cleared(b), ap |-> account.ap + Payable(b),
                  fx |-> account.fx + (Payable(b) - Cleared(b))]
  BY DEF PostSupplierBill
<1>6. /\ account.grni - Cleared(b) = CreditSum' - ClearedSum'
      /\ account.ap + Payable(b) = PayableSum'
      /\ account.fx + (Payable(b) - Cleared(b)) = PayableSum' - ClearedSum'
  BY <1>1, <1>2, <1>3, <1>4
<1>7. /\ receipt' = receipt /\ order' = order
      /\ \A c \in Bills : bill'[c].qty = bill[c].qty
      /\ \A c \in Bills : bill'[c].status # "ABSENT" => bill[c].status # "ABSENT"
  BY DEF PostSupplierBill, MatchInv, Bill
<1>8. \A c \in Bills : bill'[c].status # "ABSENT" => \E i \in Items : bill'[c].qty[i] > 0
  BY <1>7 DEF AccountInv
<1> QED
  BY <1>2, <1>5, <1>6, <1>7, <1>8 DEF AccountInv

LEMMA WriteKeepsAccounts ==
  ASSUME DutyInv, MatchInv, AccountInv, TermsStay, NEW b \in Bills, NEW o \in Orders,
         NEW n \in BillNumbers, NEW q \in Baskets, NEW p \in PriceLists, NEW x \in Rates,
         bill[b].status # "POSTED", WriteBill(b, o, n, q, p, x)
  PROVE  AccountInv'
<1>1. /\ bill'[b].status = "DRAFT" /\ bill'[b].qty = q
      /\ \A c \in Bills : c # b => bill'[c] = bill[c]
  BY DEF WriteBill, MatchInv
<1>2. Posted' = Posted /\ \A c \in Posted : bill'[c] = bill[c]
  BY <1>1 DEF Posted
<1>3. \A c \in Bills : bill'[c].status # "ABSENT" => \E i \in Items : bill'[c].qty[i] > 0
  BY <1>1, BasketsAsk DEF AccountInv
<1>4. UNCHANGED <<layer, receipt, account>> /\ order' = order
  BY DEF WriteBill, stockVars
<1>5. \A t \in Orders : order'[t].status # "ABSENT" => order'[t].vendor \in Suppliers
  BY <1>4 DEF AccountInv
<1> QED
  BY <1>2, <1>3, <1>4, <1>5, NothingPosted

\* An order drawn up: nothing is journalled for it yet.
LEMMA DraftKeepsAccounts ==
  ASSUME DutyInv, MatchInv, AccountInv, TermsStay, NEW o \in Orders, NEW u \in Users,
         NEW r \in Requisitions \cup {None}, NEW s \in Suppliers, NEW q \in Quantity,
         NEW c \in PriceLists, NEW x \in Rates, DraftOrder(o, u, r, s, q, c, x),
         UNCHANGED <<layer, receipt, bill, account>>
  PROVE  AccountInv'
<1>1. /\ \A p \in Orders : p # o => order'[p] = order[p]
      /\ order'[o].vendor = s
  BY DraftFacts
<1>2. \A p \in Orders : order'[p].status # "ABSENT" => order'[p].vendor \in Suppliers
  BY <1>1 DEF AccountInv
<1>3. Posted' = Posted /\ \A b \in Posted : bill'[b] = bill[b]
  BY DEF Posted
<1>4. \A b \in Bills : bill'[b].status # "ABSENT" => \E i \in Items : bill'[b].qty[i] > 0
  BY DEF AccountInv
<1> QED
  BY <1>2, <1>3, <1>4, NothingPosted

LEMMA AccountInvStep ==
  DutyInv /\ MatchInv /\ ShelfInv /\ AccountInv /\ [ProcurementNext]_vars => AccountInv'
<1> SUFFICES ASSUME DutyInv, MatchInv, ShelfInv, AccountInv, [ProcurementNext]_vars
             PROVE  AccountInv'
  OBVIOUS
<1>1. TermsStay /\ StockTypeOK
  BY OrdersStay DEF ShelfInv, LedgerInv
<1>2. ASSUME UNCHANGED <<layer, order, receipt, bill, account>>
      PROVE  AccountInv'
  <2>1. Posted' = Posted /\ \A b \in Posted : bill'[b] = bill[b]
    BY <1>2 DEF Posted
  <2>2. /\ \A o \in Orders : order'[o].status # "ABSENT" => order'[o].vendor \in Suppliers
        /\ \A b \in Bills : bill'[b].status # "ABSENT" => \E i \in Items : bill'[b].qty[i] > 0
    BY <1>2 DEF AccountInv
  <2> QED
    BY <1>1, <1>2, <2>1, <2>2, NothingPosted
<1>3. ASSUME NEW r \in Requisitions, NEW u \in Users, NEW q \in Baskets, SubmitRequisition(r, u, q)
      PROVE  AccountInv'
  BY <1>2, <1>3 DEF SubmitRequisition, stockVars
<1>4. ASSUME NEW r \in Requisitions, NEW u \in Users, NEW d \in {"APPROVE", "REJECT"},
             DecideRequisition(r, u, d)
      PROVE  AccountInv'
  BY <1>2, <1>4 DEF DecideRequisition, stockVars
<1>5. ASSUME NEW r \in Requisitions, NEW invited \in SUBSET Suppliers, IssueRfq(r, invited)
      PROVE  AccountInv'
  BY <1>2, <1>5 DEF IssueRfq, stockVars
<1>6. ASSUME NEW o \in Orders, NEW u \in Users, NEW s \in Suppliers, NEW q \in Baskets,
             NEW c \in PriceLists, NEW x \in Rates, DirectOrder(o, u, s, q, c, x)
      PROVE  AccountInv'
  <2>1. DraftOrder(o, u, None, s, q, c, x) /\ UNCHANGED <<layer, receipt, bill, account>>
    BY <1>6 DEF DirectOrder, stockVars
  <2>2. q \in Quantity
    BY BasketsArePlain
  <2> QED
    BY <1>1, <2>1, <2>2, DraftKeepsAccounts
<1>7. ASSUME NEW r \in Requisitions, NEW o \in Orders, NEW u \in Users, NEW s \in Suppliers,
             NEW c \in PriceLists, NEW x \in Rates, AwardRfq(r, o, u, s, c, x)
      PROVE  AccountInv'
  <2> DEFINE q == requisition[r].qty
  <2>1. DraftOrder(o, u, r, s, q, c, x) /\ UNCHANGED <<layer, receipt, bill, account>>
    BY <1>7 DEF AwardRfq, stockVars
  <2>2. q \in Quantity
    BY DEF DutyInv, DocumentsTypeOK, Requisition
  <2> HIDE DEF q
  <2> QED
    BY <1>1, <2>1, <2>2, DraftKeepsAccounts
<1>8. ASSUME NEW o \in Orders, NEW u \in Users, ApproveOrder(o, u)
      PROVE  AccountInv'
  <2>1. \A p \in Orders : order'[p].status # "ABSENT" => order'[p].vendor \in Suppliers
    <3>1. /\ order'[o].vendor = order[o].vendor /\ order[o].status = "DRAFT"
          /\ \A p \in Orders : p # o => order'[p] = order[p]
      BY <1>8 DEF ApproveOrder, DutyInv, DocumentsTypeOK, Order
    <3> QED
      BY <3>1 DEF AccountInv
  <2>2. UNCHANGED <<layer, receipt, account>> /\ bill' = bill
    BY <1>8 DEF ApproveOrder, stockVars
  <2>3. /\ Posted' = Posted /\ \A b \in Posted : bill'[b] = bill[b]
        /\ \A b \in Bills : bill'[b].status # "ABSENT" => \E i \in Items : bill'[b].qty[i] > 0
    BY <2>2 DEF Posted, AccountInv
  <2> QED
    BY <1>1, <2>1, <2>2, <2>3, NothingPosted
<1>9. ASSUME NEW b \in Bills, NEW o \in Orders, NEW n \in BillNumbers, NEW q \in Baskets,
             NEW p \in PriceLists, NEW x \in Rates, CreateSupplierBill(b, o, n, q, p, x)
      PROVE  AccountInv'
  BY <1>1, <1>9, WriteKeepsAccounts DEF CreateSupplierBill
<1>10. ASSUME NEW b \in Bills, NEW n \in BillNumbers, NEW q \in Baskets,
              NEW p \in PriceLists, NEW x \in Rates, UpdateSupplierBill(b, n, q, p, x)
       PROVE  AccountInv'
  <2>1. bill[b].status = "DRAFT" /\ bill[b].order \in Orders
    BY <1>10 DEF UpdateSupplierBill, MatchInv, BillsOfOrders
  <2> QED
    BY <1>1, <1>10, <2>1, WriteKeepsAccounts DEF UpdateSupplierBill
<1>11. ASSUME UNCHANGED vars PROVE AccountInv'
  BY <1>2, <1>11 DEF vars, procurementVars, stockVars
<1> QED
  BY <1>1, <1>3, <1>4, <1>5, <1>6, <1>7, <1>8, <1>9, <1>10, <1>11, ReceiptKeepsAccounts,
     PostKeepsAccounts DEF ProcurementNext

BooksInv == DutyInv /\ MatchInv /\ ShelfInv /\ AccountInv

LEMMA BooksInvAlways == ProcurementSpec => []BooksInv
<1>1. ProcurementInit => BooksInv
  BY DutyInvInit, MatchInvInit, ShelfInvInit, AccountInvInit DEF BooksInv
<1>2. BooksInv /\ [ProcurementNext]_vars => BooksInv'
  BY DutyInvStep, MatchInvStep, ShelfInvStep, AccountInvStep DEF BooksInv
<1> QED
  BY <1>1, <1>2, PTL DEF ProcurementSpec

LEMMA BooksTypes == BooksInv => ProcurementTypeOK
<1> SUFFICES ASSUME BooksInv PROVE ProcurementTypeOK
  OBVIOUS
<1>1. CreditSum \in Nat /\ ClearedSum \in Nat /\ PayableSum \in Nat
  BY JournalsType DEF BooksInv
<1>2. account \in [grni : Int, ap : Nat, fx : Int]
  BY <1>1 DEF BooksInv, AccountInv
<1> QED
  BY <1>2 DEF BooksInv, DutyInv, DocumentsTypeOK, MatchInv, ShelfInv, LedgerInv, ProcurementTypeOK

\* The shelf is owed for, invoiced or not.
LEMMA BooksShelf == BooksInv => ShelfIsOwed
<1> SUFFICES ASSUME BooksInv PROVE ShelfIsOwed
  OBVIOUS
<1> DEFINE w == [i \in Items |-> layer[i].cost]
<1>1. SumFunction(w) = ShelfSum
  <2>1. DOMAIN w = Items /\ ShelfSum = SumOf(w, Items)
    BY DEF ShelfSum
  <2> HIDE DEF w
  <2> QED
    BY <2>1, TablesFinite, SumFunctionIs
<1>2. CreditSum \in Nat /\ ClearedSum \in Nat /\ PayableSum \in Nat
  BY JournalsType DEF BooksInv
<1>3. /\ ShelfSum = CreditSum
      /\ account = [grni |-> CreditSum - ClearedSum, ap |-> PayableSum, fx |-> PayableSum - ClearedSum]
  BY DEF BooksInv, AccountInv
<1>4. ShelfSum + account.fx = account.grni + account.ap
  BY <1>2, <1>3
<1> QED
  BY <1>1, <1>4 DEF ShelfIsOwed

----------------------------------------------------------------------------
(* Goods received and not invoiced, line by line.                          *)

\* What a line of a receipt or bill comes to in the base currency, at the rate
\* of the order, rounded and exactly (times RateUnit).
InBase(l) ==
  AtRate(order[receipt[l[1]].order].cost[l[2]] * receipt[l[1]].qty[l[2]],
         order[receipt[l[1]].order].rate)
OutBase(l) == AtRate(bill[l[1]].price[l[2]] * bill[l[1]].qty[l[2]], order[bill[l[1]].order].rate)
InExact(l) ==
  (order[receipt[l[1]].order].cost[l[2]] * order[receipt[l[1]].order].rate)
    * receipt[l[1]].qty[l[2]]
OutExact(l) ==
  (order[bill[l[1]].order].cost[l[2]] * order[bill[l[1]].order].rate) * bill[l[1]].qty[l[2]]

\* The terms behind a line.
LEMMA InLine ==
  ASSUME BooksInv, NEW k \in Taken, NEW i \in Items
  PROVE  /\ receipt[k].order \in Orders
         /\ order[receipt[k].order].cost[i] \in Nat /\ order[receipt[k].order].cost[i] > 0
         /\ order[receipt[k].order].rate \in Nat /\ receipt[k].qty[i] \in Nat
         /\ InBase(<<k, i>>) \in Nat /\ InExact(<<k, i>>) \in Nat
         /\ InBase(<<k, i>>) = Value(receipt[k].order, i, receipt[k].qty[i])
         /\ (2 * RateUnit) * InBase(<<k, i>>) <= 2 * InExact(<<k, i>>) + RateUnit
         /\ 2 * InExact(<<k, i>>) <= (2 * RateUnit) * InBase(<<k, i>>) + RateUnit
         /\ receipt[k].qty[i] = 0 => InBase(<<k, i>>) = 0 /\ InExact(<<k, i>>) = 0
<1> DEFINE o == receipt[k].order
           c == order[o].cost[i]
           x == order[o].rate
           n == receipt[k].qty[i]
<1>1. o \in Orders /\ n \in Nat
  BY JournalsType DEF BooksInv, Quantity
<1>2. c \in Nat /\ x \in Nat
  BY <1>1 DEF BooksInv, DutyInv, DocumentsTypeOK, Order, Quantity
<1>3. c > 0
  <2>1. order[o].status \in {"ORDERED", "RECEIVED"}
    BY DEF BooksInv, DutyInv, Approved, Taken
  <2> QED
    BY <1>1, <2>1 DEF BooksInv, MatchInv, Asked
<1>4. InBase(<<k, i>>) = RoundHalfUp((c * n) * x, RateUnit) /\ InExact(<<k, i>>) = (c * x) * n
  BY DEF InBase, InExact, AtRate
<1>5. InBase(<<k, i>>) = Value(receipt[k].order, i, receipt[k].qty[i])
  BY DEF InBase, Value
<1> HIDE DEF o, c, x, n
<1>6. (c * x) * n = (c * n) * x /\ (c * n) * x \in Nat
  BY <1>1, <1>2
<1>7. RateUnit \in Nat \ {0}
  BY ProcurementConstants
<1>8. /\ InBase(<<k, i>>) \in Nat
      /\ (2 * RateUnit) * InBase(<<k, i>>) <= 2 * InExact(<<k, i>>) + RateUnit
      /\ 2 * InExact(<<k, i>>) <= (2 * RateUnit) * InBase(<<k, i>>) + RateUnit
  BY <1>4, <1>6, <1>7, RoundHalfUpNear
<1>9. n = 0 => InBase(<<k, i>>) = 0 /\ InExact(<<k, i>>) = 0
  <2> SUFFICES ASSUME n = 0 PROVE InBase(<<k, i>>) = 0 /\ InExact(<<k, i>>) = 0
    OBVIOUS
  <2>1. InBase(<<k, i>>) = Value(o, i, 0)
    BY <1>5 DEF n, o
  <2> QED
    BY <1>1, <1>2, <1>4, <2>1, ValueOfNothing DEF BooksInv, DutyInv
<1> QED
  BY <1>1, <1>2, <1>3, <1>4, <1>5, <1>6, <1>8, <1>9 DEF o, c, x, n

LEMMA OutLine ==
  ASSUME BooksInv, NEW b \in Posted, NEW i \in Items
  PROVE  /\ bill[b].order \in Orders
         /\ order[bill[b].order].cost[i] \in Nat /\ order[bill[b].order].rate \in Nat
         /\ bill[b].qty[i] \in Nat /\ bill[b].price[i] \in Nat
         /\ bill[b].price[i] * bill[b].qty[i] = order[bill[b].order].cost[i] * bill[b].qty[i]
         /\ OutBase(<<b, i>>) \in Nat /\ OutExact(<<b, i>>) \in Nat
         /\ (2 * RateUnit) * OutBase(<<b, i>>) <= 2 * OutExact(<<b, i>>) + RateUnit
         /\ 2 * OutExact(<<b, i>>) <= (2 * RateUnit) * OutBase(<<b, i>>) + RateUnit
         /\ bill[b].qty[i] = 0 => OutBase(<<b, i>>) = 0 /\ OutExact(<<b, i>>) = 0
<1> DEFINE o == bill[b].order
           c == order[o].cost[i]
           p == bill[b].price[i]
           x == order[o].rate
           n == bill[b].qty[i]
<1>1. o \in Orders /\ n \in Nat /\ p \in Nat
  BY JournalsType DEF BooksInv, MatchInv, Posted, Bill, Quantity
<1>2. c \in Nat /\ x \in Nat
  BY <1>1 DEF BooksInv, DutyInv, DocumentsTypeOK, Order, Quantity
<1>3. n > 0 => p = c
  BY DEF BooksInv, MatchInv, InFull, Posted
<1>4. OutBase(<<b, i>>) = RoundHalfUp((p * n) * x, RateUnit) /\ OutExact(<<b, i>>) = (c * x) * n
      /\ OutBase(<<b, i>>) = AtRate(p * n, x)
  BY DEF OutBase, OutExact, AtRate
<1> HIDE DEF o, c, p, x, n
<1>5. p * n = c * n
  <2>1. CASE n = 0
    BY <1>1, <1>2, <2>1
  <2>2. CASE n > 0
    BY <1>3, <2>2
  <2> QED
    BY <1>1, <2>1, <2>2
<1>6. (c * x) * n = (c * n) * x /\ (c * n) * x \in Nat
  BY <1>1, <1>2
<1>7. RateUnit \in Nat \ {0}
  BY ProcurementConstants
<1>8. /\ OutBase(<<b, i>>) \in Nat
      /\ (2 * RateUnit) * OutBase(<<b, i>>) <= 2 * OutExact(<<b, i>>) + RateUnit
      /\ 2 * OutExact(<<b, i>>) <= (2 * RateUnit) * OutBase(<<b, i>>) + RateUnit
  BY <1>4, <1>5, <1>6, <1>7, RoundHalfUpNear
<1>9. n = 0 => OutBase(<<b, i>>) = 0 /\ OutExact(<<b, i>>) = 0
  <2> SUFFICES ASSUME n = 0 PROVE OutBase(<<b, i>>) = 0 /\ OutExact(<<b, i>>) = 0
    OBVIOUS
  <2>1. p * n = 0
    BY <1>1
  <2> QED
    BY <1>1, <1>2, <1>4, <2>1, RateOfNothing
<1> QED
  BY <1>1, <1>2, <1>4, <1>5, <1>6, <1>8, <1>9 DEF o, c, p, x, n

\* The lines of the receipts D, and of the posted bills D, one by one.
InBases == [l \in Receipts \X Items |-> InBase(l)]
OutBases == [l \in Bills \X Items |-> OutBase(l)]
InExacts == [l \in Receipts \X Items |-> InExact(l)]
OutExacts == [l \in Bills \X Items |-> OutExact(l)]

\* The credits of receipts are the sum of their lines.
LEMMA CreditLines ==
  ASSUME BooksInv, NEW D, D \subseteq Taken
  PROVE  /\ IsFiniteSet(D) /\ IsFiniteSet(D \X Items)
         /\ SumOf([k \in Receipts |-> CreditOf(k)], D) = SumOf(InBases, D \X Items)
<1>1. IsFiniteSet(D) /\ IsFiniteSet(Items)
  BY TablesFinite, FS_Subset
<1>2. IsFiniteSet(D \X Items)
  BY <1>1, FS_Product
<1>3. \A l \in D \X Items : InBases[l] \in Int
  <2> SUFFICES ASSUME NEW k \in D, NEW i \in Items PROVE InBases[<<k, i>>] \in Int
    OBVIOUS
  <2>1. InBase(<<k, i>>) \in Nat /\ k \in Receipts
    BY InLine DEF Taken
  <2> QED
    BY <2>1 DEF InBases
<1> DEFINE w == [k \in D |-> SumOf([i \in Items |-> InBases[<<k, i>>]], Items)]
           v == [k \in Receipts |-> CreditOf(k)]
<1>4. SumOf(InBases, D \X Items) = SumOf(w, D)
  BY <1>1, <1>3, SumOfPairs
<1>5. ASSUME NEW k \in D PROVE v[k] = w[k]
  <2> DEFINE a == [i \in Items |-> InBases[<<k, i>>]]
             o == receipt[k].order
             b == [i \in Items |-> Value(o, i, receipt[k].qty[i])]
  <2>1. k \in Taken /\ k \in Receipts
    BY DEF Taken
  <2>2. o \in Orders /\ receipt[k].qty \in Quantity
    BY <2>1, JournalsType DEF BooksInv
  <2>3. CreditOf(k) = SumOf(b, Items)
    <3>1. ReceiptCredit(o, receipt[k].qty) = SumOf(b, Items)
      BY <2>2, CreditIs DEF BooksInv, DutyInv
    <3> QED
      BY <3>1 DEF CreditOf
  <2>4. \A i \in Items : b[i] = a[i]
    BY <2>1, InLine DEF InBases
  <2>5. v[k] = CreditOf(k) /\ w[k] = SumOf(a, Items)
    BY <2>1
  <2> HIDE DEF a, b, v, w
  <2>6. SumOf(b, Items) = SumOf(a, Items)
    BY <1>1, <2>4, SumSame
  <2> QED
    BY <2>3, <2>5, <2>6
<1> HIDE DEF w
<1>6. SumOf(v, D) = SumOf(w, D)
  <2> HIDE DEF v
  <2> QED
    BY <1>1, <1>5, SumSame
<1> QED
  BY <1>1, <1>2, <1>4, <1>6

\* What posted bills clear is the sum of their lines.
LEMMA ClearedLines ==
  ASSUME BooksInv, NEW D, D \subseteq Posted
  PROVE  /\ IsFiniteSet(D) /\ IsFiniteSet(D \X Items)
         /\ SumOf([b \in Bills |-> Cleared(b)], D) = SumOf(OutBases, D \X Items)
<1>1. IsFiniteSet(D) /\ IsFiniteSet(Items)
  BY TablesFinite, FS_Subset
<1>2. IsFiniteSet(D \X Items)
  BY <1>1, FS_Product
<1>3. \A l \in D \X Items : OutBases[l] \in Int
  <2> SUFFICES ASSUME NEW b \in D, NEW i \in Items PROVE OutBases[<<b, i>>] \in Int
    OBVIOUS
  <2>1. OutBase(<<b, i>>) \in Nat /\ b \in Bills
    BY OutLine DEF Posted
  <2> QED
    BY <2>1 DEF OutBases
<1> DEFINE w == [b \in D |-> SumOf([i \in Items |-> OutBases[<<b, i>>]], Items)]
           v == [b \in Bills |-> Cleared(b)]
<1>4. SumOf(OutBases, D \X Items) = SumOf(w, D)
  BY <1>1, <1>3, SumOfPairs
<1>5. ASSUME NEW b \in D PROVE v[b] = w[b]
  <2> DEFINE a == [i \in Items |-> OutBases[<<b, i>>]]
             x == order[bill[b].order].rate
             c == [i \in Items |-> AtRate(bill[b].price[i] * bill[b].qty[i], x)]
  <2>1. b \in Posted /\ b \in Bills
    BY DEF Posted
  <2>2. x \in Nat
    BY <2>1, JournalsType DEF BooksInv, DutyInv, DocumentsTypeOK, Order
  <2>3. Cleared(b) = SumOf(c, Items)
    <3>1. BillAt(b, x) = SumOf(c, Items)
      BY <2>1, <2>2, BillAtIs DEF BooksInv, MatchInv
    <3> QED
      BY <3>1 DEF Cleared
  <2>4. \A i \in Items : c[i] = a[i]
    BY <2>1 DEF OutBases, OutBase
  <2>5. v[b] = Cleared(b) /\ w[b] = SumOf(a, Items)
    BY <2>1
  <2> HIDE DEF a, c, v, w
  <2>6. SumOf(c, Items) = SumOf(a, Items)
    BY <1>1, <2>4, SumSame
  <2> QED
    BY <2>3, <2>5, <2>6
<1> HIDE DEF w
<1>6. SumOf(v, D) = SumOf(w, D)
  <2> HIDE DEF v
  <2> QED
    BY <1>1, <1>5, SumSame
<1> QED
  BY <1>1, <1>2, <1>4, <1>6

\* Receipts and posted bills of the orders S.
ReceiptsFor(S) == {k \in Receipts : receipt[k].order \in S}
BillsFor(S) == {b \in Bills : bill[b].status = "POSTED" /\ bill[b].order \in S}

\* Lines weighed alike for the same item of the same order may be summed order
\* by order: receipts.
LEMMA ReceiptLines ==
  ASSUME BooksInv, NEW S, S \subseteq Orders, NEW u, Weighs(u, S \X Items), NEW w,
         \A k \in ReceiptsFor(S), i \in Items :
           w[<<k, i>>] = u[<<receipt[k].order, i>>] * receipt[k].qty[i]
  PROVE  SumOf(w, ReceiptsFor(S) \X Items)
           = SumOf([l \in S \X Items |-> u[l] * InQty(l[1], l[2])], S \X Items)
<1> DEFINE D == ReceiptsFor(S)
           g == [k \in Receipts |-> receipt[k].order]
           q == [k \in Receipts |-> receipt[k].qty]
           z == [l \in S \X Items |-> u[l] * InQty(l[1], l[2])]
<1>1. IsFiniteSet(D) /\ IsFiniteSet(Items) /\ IsFiniteSet(S)
  BY TablesFinite, ProcurementConstants, FS_Subset DEF ReceiptsFor
<1>2. \A k \in D : g[k] \in S
  BY DEF ReceiptsFor
<1>3. \A k \in D, i \in Items : q[k][i] \in Int
  BY QuantitiesType DEF BooksInv, MatchInv, ReceiptsFor
<1>4. \A k \in D, i \in Items : w[<<k, i>>] = u[<<g[k], i>>] * q[k][i]
  BY DEF ReceiptsFor
<1>5. ASSUME NEW o \in S, NEW i \in Items
      PROVE  z[<<o, i>>] = u[<<o, i>>] * SumOf([k \in D |-> q[k][i]], {k \in D : g[k] = o})
  <2> DEFINE a == [k \in D |-> q[k][i]]
             b == [k \in Receipts |-> receipt[k].qty[i]]
  <2>1. {k \in D : g[k] = o} = Came(o)
    BY DEF Came, ReceiptsFor
  <2>2. IsFiniteSet(Came(o))
    BY DocumentsFinite
  <2>3. \A k \in Came(o) : a[k] = b[k]
    BY DEF Came, ReceiptsFor
  <2>4. InQty(o, i) = SumOf(b, Came(o)) /\ z[<<o, i>>] = u[<<o, i>>] * InQty(o, i)
    BY DEF InQty
  <2> HIDE DEF a, b
  <2>5. SumOf(a, Came(o)) = SumOf(b, Came(o))
    BY <2>2, <2>3, SumSame
  <2> HIDE DEF z, D, g
  <2>6. SumOf(a, {k \in D : g[k] = o}) = InQty(o, i)
    BY <2>1, <2>4, <2>5
  <2> QED
    BY <2>4, <2>6 DEF a
<1> HIDE DEF D, g, q, z
<1>6. \A p \in S \X Items : u[p] \in Int
  BY DEF Weighs
<1>7. Regroups(D, Items, S, g, q, u, w, z)
  BY <1>2, <1>3, <1>4, <1>5, <1>6 DEF Regroups
<1>8. SumOf(w, D \X Items) = SumOf(z, S \X Items)
  BY <1>1, <1>7, Regrouped
<1> QED
  BY <1>8 DEF D, z

\* And posted bills.
LEMMA BillLines ==
  ASSUME BooksInv, NEW S, S \subseteq Orders, NEW u, Weighs(u, S \X Items), NEW w,
         \A b \in BillsFor(S), i \in Items :
           w[<<b, i>>] = u[<<bill[b].order, i>>] * bill[b].qty[i]
  PROVE  SumOf(w, BillsFor(S) \X Items)
           = SumOf([l \in S \X Items |-> u[l] * OutQty(l[1], l[2])], S \X Items)
<1> DEFINE D == BillsFor(S)
           g == [b \in Bills |-> bill[b].order]
           q == [b \in Bills |-> bill[b].qty]
           z == [l \in S \X Items |-> u[l] * OutQty(l[1], l[2])]
<1>1. IsFiniteSet(D) /\ IsFiniteSet(Items) /\ IsFiniteSet(S)
  BY TablesFinite, ProcurementConstants, FS_Subset DEF BillsFor
<1>2. \A b \in D : g[b] \in S
  BY DEF BillsFor
<1>3. \A b \in D, i \in Items : q[b][i] \in Int
  BY QuantitiesType DEF BooksInv, MatchInv, BillsFor
<1>4. \A b \in D, i \in Items : w[<<b, i>>] = u[<<g[b], i>>] * q[b][i]
  BY DEF BillsFor
<1>5. ASSUME NEW o \in S, NEW i \in Items
      PROVE  z[<<o, i>>] = u[<<o, i>>] * SumOf([b \in D |-> q[b][i]], {b \in D : g[b] = o})
  <2> DEFINE a == [b \in D |-> q[b][i]]
             c == [b \in Bills |-> bill[b].qty[i]]
  <2>1. {b \in D : g[b] = o} = Paid(o)
    BY DEF Paid, BillsFor
  <2>2. IsFiniteSet(Paid(o))
    BY DocumentsFinite
  <2>3. \A b \in Paid(o) : a[b] = c[b]
    BY DEF Paid, BillsFor
  <2>4. OutQty(o, i) = SumOf(c, Paid(o)) /\ z[<<o, i>>] = u[<<o, i>>] * OutQty(o, i)
    BY DEF OutQty
  <2> HIDE DEF a, c
  <2>5. SumOf(a, Paid(o)) = SumOf(c, Paid(o))
    BY <2>2, <2>3, SumSame
  <2> HIDE DEF z, D, g
  <2>6. SumOf(a, {b \in D : g[b] = o}) = OutQty(o, i)
    BY <2>1, <2>4, <2>5
  <2> QED
    BY <2>4, <2>6 DEF a
<1> HIDE DEF D, g, q, z
<1>6. \A p \in S \X Items : u[p] \in Int
  BY DEF Weighs
<1>7. Regroups(D, Items, S, g, q, u, w, z)
  BY <1>2, <1>3, <1>4, <1>5, <1>6 DEF Regroups
<1>8. SumOf(w, D \X Items) = SumOf(z, S \X Items)
  BY <1>1, <1>7, Regrouped
<1> QED
  BY <1>8 DEF D, z

\* The costs and quantities of orders.
LEMMA OrderTerms ==
  ASSUME BooksInv, NEW o \in Orders, NEW i \in Items
  PROVE  /\ order[o].cost[i] \in Nat /\ order[o].rate \in Nat
         /\ InQty(o, i) \in Nat /\ OutQty(o, i) \in Nat /\ OutQty(o, i) <= InQty(o, i)
<1>1. order[o].cost[i] \in Nat /\ order[o].rate \in Nat
  BY DEF BooksInv, DutyInv, DocumentsTypeOK, Order, Quantity
<1>2. InQty(o, i) \in Nat /\ OutQty(o, i) \in Nat
  BY QuantitiesType DEF BooksInv, MatchInv
<1> QED
  BY <1>1, <1>2 DEF BooksInv, MatchInv, Matched

\* What is really open is the exact sum of the receipts' lines less the bills'.
LEMMA OpenExactlyIs ==
  ASSUME BooksInv
  PROVE  /\ OpenExactly = SumOf(InExacts, Taken \X Items) - SumOf(OutExacts, Posted \X Items)
         /\ SumOf(InExacts, Taken \X Items) \in Int /\ SumOf(OutExacts, Posted \X Items) \in Int
<1> DEFINE U == Orders \X Items
           u == [l \in U |-> order[l[1]].cost[l[2]] * order[l[1]].rate]
           v == [l \in U |-> u[l] * InQty(l[1], l[2])]
           w == [l \in U |-> u[l] * OutQty(l[1], l[2])]
           z == [l \in U |-> order[l[1]].cost[l[2]] * order[l[1]].rate
                               * (Delivered(l[1], l[2]) - Billed(l[1], l[2]))]
<1>1. IsFiniteSet(U)
  BY TablesFinite, FS_Product
<1>2. Weighs(u, U)
  BY OrderTerms DEF Weighs
<1>3. ReceiptsFor(Orders) = Taken /\ BillsFor(Orders) = Posted
  BY JournalsType, ProcurementConstants DEF ReceiptsFor, BillsFor, Taken, Posted, BooksInv
<1>4. SumOf(InExacts, Taken \X Items) = SumOf(v, U)
  <2>1. \A k \in ReceiptsFor(Orders), i \in Items :
          InExacts[<<k, i>>] = u[<<receipt[k].order, i>>] * receipt[k].qty[i]
    BY DEF ReceiptsFor, InExacts, InExact
  <2> HIDE DEF u
  <2> QED
    BY <1>2, <1>3, <2>1, ReceiptLines
<1>5. SumOf(OutExacts, Posted \X Items) = SumOf(w, U)
  <2>1. \A b \in BillsFor(Orders), i \in Items :
          OutExacts[<<b, i>>] = u[<<bill[b].order, i>>] * bill[b].qty[i]
    BY DEF BillsFor, OutExacts, OutExact
  <2> HIDE DEF u
  <2> QED
    BY <1>2, <1>3, <2>1, BillLines
<1>6. Linear(z, 1, v, -1, w, U)
  <2> SUFFICES ASSUME NEW o \in Orders, NEW i \in Items
               PROVE  /\ v[<<o, i>>] \in Int /\ w[<<o, i>>] \in Int
                      /\ z[<<o, i>>] = 1 * v[<<o, i>>] + (-1) * w[<<o, i>>]
    <3>1. 1 \in Int /\ -1 \in Int
      OBVIOUS
    <3> HIDE DEF u, v, w, z
    <3> QED
      BY <3>1 DEF Linear
  <2> DEFINE c == order[o].cost[i]
             x == order[o].rate
  <2>1. v[<<o, i>>] = (c * x) * InQty(o, i) /\ w[<<o, i>>] = (c * x) * OutQty(o, i)
    OBVIOUS
  <2>2. z[<<o, i>>] = c * x * (InQty(o, i) - OutQty(o, i))
    BY DeliveredIs, BilledIs
  <2>3. c \in Nat /\ x \in Nat /\ InQty(o, i) \in Nat /\ OutQty(o, i) \in Nat
    BY OrderTerms
  <2> HIDE DEF c, x, v, w, z
  <2>4. c * x \in Int
    BY <2>3
  <2> QED
    BY <2>1, <2>2, <2>3, <2>4
<1>7. OpenExactly = SumOf(z, U)
  <2>1. OpenExactly = SumFunction(z) /\ DOMAIN z = U
    BY DEF OpenExactly
  <2> HIDE DEF z, U
  <2> QED
    BY <1>1, <2>1, SumFunctionIs
<1> HIDE DEF U, u, v, w, z
<1>8. SumOf(z, U) = 1 * SumOf(v, U) + (-1) * SumOf(w, U) /\ SumOf(v, U) \in Int /\ SumOf(w, U) \in Int
  BY <1>1, <1>6, SumLinear
<1> QED
  BY <1>4, <1>5, <1>7, <1>8

\* Half a cent a line.
LEMMA BooksRounding == BooksInv => GrniWithinRounding
<1> SUFFICES ASSUME BooksInv PROVE GrniWithinRounding
  OBVIOUS
<1> DEFINE I == Taken \X Items
           O == Posted \X Items
           L == {l \in Receipts \X Items : receipt[l[1]].qty[l[2]] > 0}
           M == {l \in Bills \X Items : bill[l[1]].status = "POSTED" /\ bill[l[1]].qty[l[2]] > 0}
           a == 2 * RateUnit
<1>1. a \in Int /\ 2 \in Int /\ RateUnit \in Nat
  BY ProcurementConstants
<1>2. /\ IsFiniteSet(I) /\ IsFiniteSet(O)
      /\ CreditSum = SumOf(InBases, I) /\ ClearedSum = SumOf(OutBases, O)
  <2>1. Taken \subseteq Taken /\ Posted \subseteq Posted
    OBVIOUS
  <2> QED
    BY <2>1, CreditLines, ClearedLines DEF CreditSum, ClearedSum
<1>3. ASSUME NEW l \in I
      PROVE  /\ InBases[l] \in Int /\ InExacts[l] \in Int
             /\ a * InBases[l] <= 2 * InExacts[l] + RateUnit
             /\ 2 * InExacts[l] <= a * InBases[l] + RateUnit
             /\ l \notin L => InBases[l] = 0 /\ InExacts[l] = 0
  <2>1. PICK k \in Taken, i \in Items : l = <<k, i>>
    OBVIOUS
  <2>2. k \in Receipts /\ InBases[l] = InBase(<<k, i>>) /\ InExacts[l] = InExact(<<k, i>>)
    BY <2>1 DEF InBases, InExacts, Taken
  <2>3. receipt[k].qty[i] \in Nat
    BY InLine
  <2>4. l \notin L => receipt[k].qty[i] = 0
    BY <2>1, <2>2, <2>3
  <2> HIDE DEF L
  <2> QED
    BY <2>2, <2>4, InLine
<1>4. ASSUME NEW l \in O
      PROVE  /\ OutBases[l] \in Int /\ OutExacts[l] \in Int
             /\ a * OutBases[l] <= 2 * OutExacts[l] + RateUnit
             /\ 2 * OutExacts[l] <= a * OutBases[l] + RateUnit
             /\ l \notin M => OutBases[l] = 0 /\ OutExacts[l] = 0
  <2>1. PICK b \in Posted, i \in Items : l = <<b, i>>
    OBVIOUS
  <2>2. b \in Bills /\ OutBases[l] = OutBase(<<b, i>>) /\ OutExacts[l] = OutExact(<<b, i>>)
    BY <2>1 DEF OutBases, OutExacts, Posted
  <2>3. bill[b].qty[i] \in Nat /\ bill[b].status = "POSTED"
    BY OutLine DEF Posted
  <2>4. l \notin M => bill[b].qty[i] = 0
    BY <2>1, <2>2, <2>3
  <2> HIDE DEF M
  <2> QED
    BY <2>2, <2>4, OutLine
<1>5. L \subseteq I /\ M \subseteq O
  <2>1. ASSUME NEW k \in Receipts, NEW i \in Items, receipt[k].qty[i] > 0 PROVE k \in Taken
    <3>1. receipt[k].order = None => receipt[k].qty[i] = 0
      BY DEF BooksInv, AccountInv, Nothing
    <3> QED
      BY <2>1, <3>1 DEF Taken
  <2> QED
    BY <2>1 DEF Posted
<1> HIDE DEF I, O, L, M, a
<1>6. IsFiniteSet(L) /\ IsFiniteSet(M)
  BY <1>2, <1>5, FS_Subset
<1>7. /\ SumOf(InBases, I) = SumOf(InBases, L) /\ SumOf(InExacts, I) = SumOf(InExacts, L)
      /\ SumOf(OutBases, O) = SumOf(OutBases, M) /\ SumOf(OutExacts, O) = SumOf(OutExacts, M)
  <2>1. /\ \A l \in L : InBases[l] \in Int /\ InExacts[l] \in Int
        /\ \A l \in I \ L : InBases[l] = 0 /\ InExacts[l] = 0
        /\ \A l \in M : OutBases[l] \in Int /\ OutExacts[l] \in Int
        /\ \A l \in O \ M : OutBases[l] = 0 /\ OutExacts[l] = 0
    BY <1>3, <1>4, <1>5
  <2> QED
    BY <1>2, <1>5, <2>1, SumWithin
<1> DEFINE p == SumOf(InBases, L)
           q == SumOf(InExacts, L)
           r == SumOf(OutBases, M)
           s == SumOf(OutExacts, M)
           c == Cardinality(L)
           d == Cardinality(M)
<1>8. /\ p \in Int /\ q \in Int /\ c \in Nat
      /\ a * p <= 2 * q + RateUnit * c /\ 2 * q <= a * p + RateUnit * c
  <2>1. /\ \A l \in L : InExacts[l] \in Int /\ InBases[l] \in Int
        /\ \A l \in L : a * InBases[l] <= 2 * InExacts[l] + RateUnit
                        /\ 2 * InExacts[l] <= a * InBases[l] + RateUnit
    BY <1>3, <1>5
  <2> QED
    BY <1>1, <1>6, <2>1, SumNear
<1>9. /\ r \in Int /\ s \in Int /\ d \in Nat
      /\ a * r <= 2 * s + RateUnit * d /\ 2 * s <= a * r + RateUnit * d
  <2>1. /\ \A l \in M : OutExacts[l] \in Int /\ OutBases[l] \in Int
        /\ \A l \in M : a * OutBases[l] <= 2 * OutExacts[l] + RateUnit
                        /\ 2 * OutExacts[l] <= a * OutBases[l] + RateUnit
    BY <1>4, <1>5
  <2> QED
    BY <1>1, <1>6, <2>1, SumNear
<1>10. account.grni = p - r
  <2>1. account.grni = CreditSum - ClearedSum
    BY DEF BooksInv, AccountInv
  <2> QED
    BY <1>2, <1>7, <2>1
<1>11. OpenExactly = q - s
  BY <1>7, OpenExactlyIs DEF I, O
<1>12. Roundings = c + d
  BY DEF Roundings, L, M
<1> HIDE DEF p, q, r, s, c, d
<1>13. a * (p - r) = a * p - a * r /\ RateUnit * (c + d) = RateUnit * c + RateUnit * d
       /\ 2 * (RateUnit * (p - r)) = a * (p - r) /\ RateUnit * (p - r) \in Int
  BY <1>1, <1>8, <1>9 DEF a
<1>14. a * p \in Int /\ a * r \in Int /\ RateUnit * c \in Int /\ RateUnit * d \in Int
  BY <1>1, <1>8, <1>9
<1> DEFINE off == RateUnit * (p - r) - (q - s)
<1>15. 2 * off <= RateUnit * (c + d) /\ -(2 * off) <= RateUnit * (c + d)
  BY <1>8, <1>9, <1>13, <1>14
<1> QED
  BY <1>10, <1>11, <1>12, <1>15 DEF GrniWithinRounding

----------------------------------------------------------------------------
(* The report's schedules against the control accounts.                    *)

\* What the report is made of.
LEMMA ReportIs ==
  /\ Analytics.grni = GrniRows
  /\ Analytics.suppliers = DOMAIN GrniRows \cup DOMAIN SpendRows
  /\ Analytics.spend = SumFunction([s \in DOMAIN SpendRows |-> SpendRows[s].baseGross])
  /\ Analytics.scheduledGrni = SumFunction([s \in DOMAIN GrniRows |-> GrniRows[s].openBase])
  /\ Analytics.scheduledAp = SumFunction([s \in Suppliers |-> ApRow(s)])
  /\ Analytics.blocked = UNION {BlockedDrafts(s) : s \in Suppliers}
  BY DEF Analytics

LEMMA GrniRowsAre ==
  /\ DOMAIN GrniRows \subseteq Suppliers
  /\ \A s \in DOMAIN GrniRows : GrniRows[s] = GrniRow(s)
  /\ \A s \in Suppliers \ DOMAIN GrniRows : GrniRow(s).openBase = 0 /\ GrniRow(s).openOriginal = 0
<1> DEFINE row == [s \in Suppliers |-> GrniRow(s)]
           open == {s \in Suppliers : row[s].openBase # 0 \/ row[s].openOriginal # 0}
<1>1. GrniRows = [s \in open |-> row[s]]
  BY DEF GrniRows
<1> QED
  BY <1>1

\* The posted bills of a supplier and its receipts.
LEMMA SuppliersDocuments ==
  ASSUME BooksInv, NEW s \in Suppliers
  PROVE  LET S == {o \in Orders : order[o].vendor = s} IN
         /\ ReceiptsOf(s) = ReceiptsFor(S) /\ ReceiptsOf(s) \subseteq Taken
         /\ BillsOf(s, "POSTED") = BillsFor(S) /\ BillsOf(s, "POSTED") \subseteq Posted
         /\ ReceiptsOf(s) = {k \in Taken : order[receipt[k].order].vendor = s}
         /\ BillsOf(s, "POSTED") = {b \in Posted : SupplierOf(b) = s}
<1> DEFINE S == {o \in Orders : order[o].vendor = s}
<1>1. \A k \in Taken : receipt[k].order \in Orders
  BY JournalsType DEF BooksInv
<1>2. \A b \in Posted : bill[b].order \in Orders
  BY JournalsType DEF BooksInv
<1>3. ReceiptsOf(s) = {k \in Taken : order[receipt[k].order].vendor = s}
  BY DEF ReceiptsOf, Taken
<1>4. BillsOf(s, "POSTED") = {b \in Posted : SupplierOf(b) = s}
  BY DEF BillsOf, Posted
<1>5. ReceiptsFor(S) = {k \in Taken : order[receipt[k].order].vendor = s}
  BY <1>1, ProcurementConstants DEF ReceiptsFor, Taken
<1>6. BillsFor(S) = {b \in Posted : SupplierOf(b) = s}
  BY <1>2 DEF BillsFor, Posted, SupplierOf
<1> QED
  BY <1>3, <1>4, <1>5, <1>6

\* The suppliers of documents are suppliers.
LEMMA VendorsAre ==
  ASSUME BooksInv
  PROVE  /\ \A k \in Taken : order[receipt[k].order].vendor \in Suppliers
         /\ \A b \in Bills : bill[b].status # "ABSENT" => SupplierOf(b) \in Suppliers
<1>1. \A o \in Orders : order[o].status \in {"ORDERED", "RECEIVED"} => order[o].vendor \in Suppliers
  BY DEF BooksInv, AccountInv
<1>2. ASSUME NEW k \in Taken PROVE order[receipt[k].order].vendor \in Suppliers
  <2>1. receipt[k].order \in Orders
    BY JournalsType DEF BooksInv
  <2>2. order[receipt[k].order].status \in {"ORDERED", "RECEIVED"}
    BY DEF BooksInv, DutyInv, Approved, Taken
  <2> QED
    BY <1>1, <2>1, <2>2
<1>3. ASSUME NEW b \in Bills, bill[b].status # "ABSENT" PROVE SupplierOf(b) \in Suppliers
  BY <1>1, <1>3 DEF BooksInv, MatchInv, BillsOfOrders, SupplierOf
<1> QED
  BY <1>2, <1>3

\* Base amounts scheduled to a supplier.
CreditAt(s) == SumOf([k \in Receipts |-> CreditOf(k)], {k \in Taken : order[receipt[k].order].vendor = s})
ClearedAt(s) == SumOf([b \in Bills |-> Cleared(b)], {b \in Posted : SupplierOf(b) = s})
PayableAt(s) == SumOf([b \in Bills |-> Payable(b)], {b \in Posted : SupplierOf(b) = s})

LEMMA OpenBaseIs ==
  ASSUME BooksInv, NEW s \in Suppliers
  PROVE  GrniRow(s).openBase = CreditAt(s) - ClearedAt(s)
<1> DEFINE D == ReceiptsOf(s)
           B == BillsOf(s, "POSTED")
           v == [l \in D \X Items |->
                   AtRate(order[receipt[l[1]].order].cost[l[2]] * receipt[l[1]].qty[l[2]],
                          order[receipt[l[1]].order].rate)]
           w == [b \in B |-> Cleared(b)]
           z == [b \in Bills |-> Cleared(b)]
<1>1. GrniRow(s).openBase = SumFunction(v) - SumFunction(w)
  BY DEF GrniRow
<1>2. /\ D \subseteq Taken /\ D = {k \in Taken : order[receipt[k].order].vendor = s}
      /\ B \subseteq Posted /\ B = {b \in Posted : SupplierOf(b) = s}
  BY SuppliersDocuments
<1>3. /\ IsFiniteSet(D \X Items) /\ IsFiniteSet(B)
      /\ CreditAt(s) = SumOf(InBases, D \X Items)
      /\ ClearedAt(s) = SumOf(z, B)
  BY <1>2, CreditLines, ClearedLines DEF CreditAt, ClearedAt
<1>4. /\ DOMAIN v = D \X Items /\ \A l \in D \X Items : v[l] = InBases[l]
      /\ DOMAIN w = B /\ \A b \in B : w[b] = z[b]
  BY <1>2 DEF InBases, InBase, Taken, Posted
<1> HIDE DEF v, w, z, D, B
<1>5. SumFunction(v) = SumOf(v, D \X Items) /\ SumFunction(w) = SumOf(w, B)
  BY <1>3, <1>4, SumFunctionIs
<1>6. SumOf(v, D \X Items) = SumOf(InBases, D \X Items) /\ SumOf(w, B) = SumOf(z, B)
  BY <1>3, <1>4, SumSame
<1> QED
  BY <1>1, <1>3, <1>5, <1>6

LEMMA ApRowIs ==
  ASSUME BooksInv, NEW s \in Suppliers
  PROVE  ApRow(s) = PayableAt(s)
<1> DEFINE B == BillsOf(s, "POSTED")
           w == [b \in B |-> Payable(b)]
           z == [b \in Bills |-> Payable(b)]
<1>1. ApRow(s) = SumFunction(w)
  BY DEF ApRow
<1>2. B \subseteq Posted /\ B = {b \in Posted : SupplierOf(b) = s} /\ IsFiniteSet(B)
  BY SuppliersDocuments, TablesFinite, FS_Subset
<1>3. PayableAt(s) = SumOf(z, B)
  BY <1>2 DEF PayableAt
<1>4. DOMAIN w = B /\ \A b \in B : w[b] = z[b]
  BY <1>2 DEF Posted
<1> HIDE DEF w, z, B
<1> QED
  BY <1>1, <1>2, <1>3, <1>4, SumFunctionIs, SumSame

\* Each journal is scheduled to one supplier.
LEMMA BySupplier ==
  ASSUME BooksInv
  PROVE  /\ CreditSum = SumOf([s \in Suppliers |-> CreditAt(s)], Suppliers)
         /\ ClearedSum = SumOf([s \in Suppliers |-> ClearedAt(s)], Suppliers)
         /\ PayableSum = SumOf([s \in Suppliers |-> PayableAt(s)], Suppliers)
         /\ \A s \in Suppliers : CreditAt(s) \in Int /\ ClearedAt(s) \in Int /\ PayableAt(s) \in Int
<1> DEFINE f == [k \in Receipts |-> order[receipt[k].order].vendor]
           g == [b \in Bills |-> SupplierOf(b)]
           u == [k \in Receipts |-> CreditOf(k)]
           v == [b \in Bills |-> Cleared(b)]
           w == [b \in Bills |-> Payable(b)]
<1>1. Goes(f, Taken, Suppliers) /\ Goes(g, Posted, Suppliers)
  BY VendorsAre DEF Goes, Taken, Posted
<1>2. Weighs(u, Taken) /\ Weighs(v, Posted) /\ Weighs(w, Posted)
  BY JournalsType DEF BooksInv, Weighs, Taken, Posted
<1>3. \A s \in Suppliers :
        /\ CreditAt(s) = SumOf(u, {k \in Taken : f[k] = s})
        /\ ClearedAt(s) = SumOf(v, {b \in Posted : g[b] = s})
        /\ PayableAt(s) = SumOf(w, {b \in Posted : g[b] = s})
  <2> SUFFICES ASSUME NEW s \in Suppliers
               PROVE  /\ CreditAt(s) = SumOf(u, {k \in Taken : f[k] = s})
                      /\ ClearedAt(s) = SumOf(v, {b \in Posted : g[b] = s})
                      /\ PayableAt(s) = SumOf(w, {b \in Posted : g[b] = s})
    OBVIOUS
  <2>1. /\ {k \in Taken : f[k] = s} = {k \in Taken : order[receipt[k].order].vendor = s}
        /\ {b \in Posted : g[b] = s} = {b \in Posted : SupplierOf(b) = s}
    BY DEF Taken, Posted
  <2> HIDE DEF f, g
  <2> QED
    BY <2>1 DEF CreditAt, ClearedAt, PayableAt
<1> HIDE DEF f, g
<1>4. /\ CreditSum = SumOf(u, Taken) /\ ClearedSum = SumOf(v, Posted)
      /\ PayableSum = SumOf(w, Posted)
  BY DEF CreditSum, ClearedSum, PayableSum
<1> HIDE DEF u, v, w
<1>5. /\ SumOf(u, Taken) = SumOf([s \in Suppliers |-> SumOf(u, {k \in Taken : f[k] = s})], Suppliers)
      /\ SumOf(v, Posted) = SumOf([s \in Suppliers |-> SumOf(v, {b \in Posted : g[b] = s})], Suppliers)
      /\ SumOf(w, Posted) = SumOf([s \in Suppliers |-> SumOf(w, {b \in Posted : g[b] = s})], Suppliers)
  BY <1>1, <1>2, TablesFinite, SumByParts
<1>6. ASSUME NEW s \in Suppliers
      PROVE  CreditAt(s) \in Int /\ ClearedAt(s) \in Int /\ PayableAt(s) \in Int
  <2> DEFINE D == {k \in Taken : f[k] = s}
             B == {b \in Posted : g[b] = s}
  <2>1. IsFiniteSet(D) /\ IsFiniteSet(B)
    BY TablesFinite, FS_Subset
  <2>2. (\A k \in D : u[k] \in Int) /\ (\A b \in B : v[b] \in Int) /\ (\A b \in B : w[b] \in Int)
    BY <1>2 DEF Weighs
  <2> HIDE DEF D, B
  <2>3. SumOf(u, D) \in Int /\ SumOf(v, B) \in Int /\ SumOf(w, B) \in Int
    BY <2>1, <2>2, SumType
  <2> QED
    BY <1>3, <2>3 DEF D, B
<1>7. /\ [s \in Suppliers |-> SumOf(u, {k \in Taken : f[k] = s})] = [s \in Suppliers |-> CreditAt(s)]
      /\ [s \in Suppliers |-> SumOf(v, {b \in Posted : g[b] = s})] = [s \in Suppliers |-> ClearedAt(s)]
      /\ [s \in Suppliers |-> SumOf(w, {b \in Posted : g[b] = s})] = [s \in Suppliers |-> PayableAt(s)]
  BY <1>3
<1>8. /\ CreditSum = SumOf([s \in Suppliers |-> CreditAt(s)], Suppliers)
      /\ ClearedSum = SumOf([s \in Suppliers |-> ClearedAt(s)], Suppliers)
      /\ PayableSum = SumOf([s \in Suppliers |-> PayableAt(s)], Suppliers)
  BY <1>4, <1>5, <1>7
<1> QED
  BY <1>6, <1>8

\* The schedule of goods received and not invoiced comes to its account.
LEMMA GrniTiesOut ==
  ASSUME BooksInv
  PROVE  Analytics.scheduledGrni = account.grni
<1> DEFINE R == DOMAIN GrniRows
           h == [s \in R |-> GrniRows[s].openBase]
           a == [s \in Suppliers |-> GrniRow(s).openBase]
           u == [s \in Suppliers |-> CreditAt(s)]
           v == [s \in Suppliers |-> ClearedAt(s)]
<1>1. R \subseteq Suppliers /\ IsFiniteSet(R) /\ IsFiniteSet(Suppliers)
  BY GrniRowsAre, TablesFinite, FS_Subset
<1>2. Linear(a, 1, u, -1, v, Suppliers)
  <2>1. \A s \in Suppliers : u[s] \in Int /\ v[s] \in Int /\ a[s] = u[s] - v[s]
    BY BySupplier, OpenBaseIs
  <2> HIDE DEF a, u, v
  <2> QED
    BY <2>1 DEF Linear
<1>3. (\A s \in R : h[s] = a[s]) /\ (\A s \in Suppliers \ R : a[s] = 0)
  BY <1>1, GrniRowsAre
<1>4. SumFunction(h) = SumOf(h, R)
  <2>1. DOMAIN h = R
    OBVIOUS
  <2> HIDE DEF h, R
  <2> QED
    BY <1>1, <2>1, SumFunctionIs
<1>5. Analytics.scheduledGrni = SumFunction(h)
  BY ReportIs
<1>6. CreditSum = SumOf(u, Suppliers) /\ ClearedSum = SumOf(v, Suppliers)
  BY BySupplier
<1> HIDE DEF h, a, u, v, R
<1>7. \A s \in R : a[s] \in Int
  BY <1>1, <1>2 DEF Linear
<1>8. SumOf(h, R) = SumOf(a, R) /\ SumOf(a, Suppliers) = SumOf(a, R)
  BY <1>1, <1>3, <1>7, SumSame, SumWithin
<1>9. SumOf(a, Suppliers) = 1 * SumOf(u, Suppliers) + (-1) * SumOf(v, Suppliers)
      /\ SumOf(u, Suppliers) \in Int /\ SumOf(v, Suppliers) \in Int
  BY <1>1, <1>2, SumLinear
<1>10. account.grni = CreditSum - ClearedSum
  BY DEF BooksInv, AccountInv
<1> QED
  BY <1>4, <1>5, <1>6, <1>8, <1>9, <1>10

\* What the bills come to, with tax aside, and what was spent, are what is owed.
LEMMA ApTiesOut ==
  ASSUME BooksInv
  PROVE  Analytics.scheduledAp = account.ap /\ Analytics.spend = account.ap
<1> DEFINE R == DOMAIN SpendRows
           h == [s \in R |-> SpendRows[s].baseGross]
           a == [s \in Suppliers |-> ApRow(s)]
           w == [s \in Suppliers |-> PayableAt(s)]
<1>1. R \subseteq Suppliers /\ IsFiniteSet(R) /\ IsFiniteSet(Suppliers)
  <2>1. R \subseteq Suppliers
    BY DEF SpendRows
  <2> QED
    BY <2>1, TablesFinite, FS_Subset
<1>2. \A s \in R : h[s] = a[s]
  BY DEF SpendRows
<1>3. \A s \in Suppliers : a[s] = w[s] /\ a[s] \in Int
  BY BySupplier, ApRowIs
<1>4. ASSUME NEW s \in Suppliers \ R PROVE a[s] = 0
  <2>1. BillsOf(s, "POSTED") = {}
    BY DEF SpendRows
  <2>2. {b \in Posted : SupplierOf(b) = s} = {}
    BY <2>1, SuppliersDocuments
  <2>3. PayableAt(s) = 0
    BY <2>2, SumEmpty DEF PayableAt
  <2> QED
    BY <1>3, <2>3
<1>5. Analytics.scheduledAp = SumFunction(a) /\ Analytics.spend = SumFunction(h)
  BY ReportIs
<1>6. DOMAIN a = Suppliers /\ DOMAIN h = R
  OBVIOUS
<1>7. PayableSum = SumOf(w, Suppliers)
  BY BySupplier
<1> HIDE DEF h, a, w, R
<1>8. SumFunction(a) = SumOf(a, Suppliers) /\ SumFunction(h) = SumOf(h, R)
  BY <1>1, <1>6, SumFunctionIs
<1>9. SumOf(a, Suppliers) = SumOf(w, Suppliers)
  BY <1>1, <1>3, SumSame
<1>10. SumOf(h, R) = SumOf(a, R) /\ SumOf(a, Suppliers) = SumOf(a, R)
  BY <1>1, <1>2, <1>3, <1>4, SumSame, SumWithin
<1>11. account.ap = PayableSum
  BY DEF BooksInv, AccountInv
<1> QED
  BY <1>5, <1>7, <1>8, <1>9, <1>10, <1>11

\* In the currency of the orders, and in units, what is open with a supplier is
\* open on the lines of its orders: u counts a unit of a line.
OpenBy(u, S) ==
  SumOf([l \in S \X Items |-> u[l] * (InQty(l[1], l[2]) - OutQty(l[1], l[2]))], S \X Items)

LEMMA OpenByIs ==
  ASSUME BooksInv, NEW S, S \subseteq Orders, NEW u, \A l \in S \X Items : u[l] \in Nat
  PROVE  /\ SumOf([l \in S \X Items |-> u[l] * InQty(l[1], l[2])], S \X Items)
              - SumOf([l \in S \X Items |-> u[l] * OutQty(l[1], l[2])], S \X Items) = OpenBy(u, S)
         /\ OpenBy(u, S) \in Nat
         /\ OpenBy(u, S) = 0 => \A l \in S \X Items : u[l] * (InQty(l[1], l[2]) - OutQty(l[1], l[2])) = 0
<1> DEFINE U == S \X Items
           v == [l \in U |-> u[l] * InQty(l[1], l[2])]
           w == [l \in U |-> u[l] * OutQty(l[1], l[2])]
           z == [l \in U |-> u[l] * (InQty(l[1], l[2]) - OutQty(l[1], l[2]))]
<1>1. IsFiniteSet(U)
  BY TablesFinite, FS_Subset, FS_Product
<1>2. ASSUME NEW l \in U PROVE v[l] \in Int /\ w[l] \in Int /\ z[l] \in Nat /\ z[l] = v[l] - w[l]
  <2>1. l[1] \in Orders /\ l[2] \in Items /\ u[l] \in Nat
    OBVIOUS
  <2> DEFINE n == u[l]
             x == InQty(l[1], l[2])
             y == OutQty(l[1], l[2])
  <2>2. x \in Nat /\ y \in Nat /\ y <= x
    BY <2>1, OrderTerms
  <2>3. v[l] = n * x /\ w[l] = n * y /\ z[l] = n * (x - y)
    OBVIOUS
  <2> HIDE DEF n, x, y, v, w, z
  <2>4. n \in Nat /\ x - y \in Nat
    BY <2>1, <2>2 DEF n
  <2>5. n * x \in Int /\ n * y \in Int /\ n * (x - y) \in Nat /\ n * (x - y) = n * x - n * y
    BY <2>2, <2>4
  <2> QED
    BY <2>3, <2>5
<1>3. OpenBy(u, S) = SumOf(z, U)
  BY DEF OpenBy
<1>4. Linear(z, 1, v, -1, w, U)
  <2> HIDE DEF U, v, w, z
  <2> QED
    BY <1>2 DEF Linear
<1>5. \A l \in U : u[l] * (InQty(l[1], l[2]) - OutQty(l[1], l[2])) = z[l]
  OBVIOUS
<1> HIDE DEF U, v, w, z
<1>6. SumOf(z, U) = 1 * SumOf(v, U) + (-1) * SumOf(w, U) /\ SumOf(v, U) \in Int /\ SumOf(w, U) \in Int
  BY <1>1, <1>4, SumLinear
<1>7. SumOf(v, U) - SumOf(w, U) = SumOf(z, U)
  BY <1>6
<1>8. SumOf(z, U) \in Nat
  BY <1>1, <1>2, SumType
<1>9. SumOf(z, U) = 0 => \A l \in U : z[l] = 0
  BY <1>1, <1>2, SumIsZero
<1> QED
  BY <1>3, <1>5, <1>7, <1>8, <1>9 DEF U, v, w

\* What the report calls open is that.
LEMMA OpenIs ==
  ASSUME BooksInv, NEW s \in Suppliers
  PROVE  LET S == {o \in Orders : order[o].vendor = s} IN
         /\ GrniRow(s).openOriginal = OpenBy([l \in Orders \X Items |-> order[l[1]].cost[l[2]]], S)
         /\ OpenQuantity(s) = OpenBy([l \in Orders \X Items |-> 1], S)
<1> DEFINE S == {o \in Orders : order[o].vendor = s}
           D == ReceiptsFor(S)
           B == BillsFor(S)
           c == [l \in Orders \X Items |-> order[l[1]].cost[l[2]]]
           e == [l \in Orders \X Items |-> 1]
           inC == [l \in D \X Items |-> order[receipt[l[1]].order].cost[l[2]] * receipt[l[1]].qty[l[2]]]
           inE == [l \in D \X Items |-> receipt[l[1]].qty[l[2]]]
           outC == [l \in B \X Items |-> bill[l[1]].price[l[2]] * bill[l[1]].qty[l[2]]]
           outE == [l \in B \X Items |-> bill[l[1]].qty[l[2]]]
           net == [b \in B |-> Net(b)]
<1>1. S \subseteq Orders
  OBVIOUS
<1>2. /\ ReceiptsOf(s) = D /\ D \subseteq Taken
      /\ BillsOf(s, "POSTED") = B /\ B \subseteq Posted
  BY SuppliersDocuments
<1>3. IsFiniteSet(D) /\ IsFiniteSet(B) /\ IsFiniteSet(Items)
      /\ IsFiniteSet(D \X Items) /\ IsFiniteSet(B \X Items)
  BY <1>2, TablesFinite, FS_Subset, FS_Product
<1>4. /\ \A l \in S \X Items : c[l] \in Nat /\ e[l] \in Nat
      /\ Weighs(c, S \X Items) /\ Weighs(e, S \X Items)
  BY OrderTerms DEF Weighs
<1>5. /\ GrniRow(s).openOriginal = SumFunction(inC) - SumFunction(net)
      /\ OpenQuantity(s) = SumFunction(inE) - SumFunction(outE)
  BY <1>2 DEF GrniRow, OpenQuantity
<1>6. /\ SumFunction(inC) = SumOf(inC, D \X Items)
      /\ SumFunction(inE) = SumOf(inE, D \X Items)
      /\ SumFunction(outE) = SumOf(outE, B \X Items)
      /\ SumFunction(net) = SumOf(net, B)
  <2>1. /\ DOMAIN inC = D \X Items /\ DOMAIN inE = D \X Items
        /\ DOMAIN outE = B \X Items /\ DOMAIN net = B
    OBVIOUS
  <2> HIDE DEF inC, inE, outE, net, D, B
  <2> QED
    BY <1>3, <2>1, SumFunctionIs
<1>7. \A b \in B, i \in Items :
        /\ bill[b].price[i] * bill[b].qty[i] \in Int
        /\ bill[b].price[i] * bill[b].qty[i] = order[bill[b].order].cost[i] * bill[b].qty[i]
        /\ bill[b].order \in Orders /\ bill[b].qty[i] \in Int
  <2> SUFFICES ASSUME NEW b \in B, NEW i \in Items
               PROVE  /\ bill[b].price[i] * bill[b].qty[i] \in Int
                      /\ bill[b].price[i] * bill[b].qty[i] = order[bill[b].order].cost[i] * bill[b].qty[i]
                      /\ bill[b].order \in Orders /\ bill[b].qty[i] \in Int
    OBVIOUS
  <2>1. b \in Posted
    BY <1>2
  <2>2. /\ bill[b].price[i] \in Nat /\ bill[b].qty[i] \in Nat /\ bill[b].order \in Orders
        /\ bill[b].price[i] * bill[b].qty[i] = order[bill[b].order].cost[i] * bill[b].qty[i]
    BY <2>1, OutLine
  <2>3. \A x, y \in Nat : x * y \in Int
    OBVIOUS
  <2> QED
    BY <2>2, <2>3
<1>8. SumOf(net, B) = SumOf(outC, B \X Items)
  <2> DEFINE w == [b \in B |-> SumOf([i \in Items |-> outC[<<b, i>>]], Items)]
  <2>1. \A l \in B \X Items : outC[l] \in Int
    BY <1>7
  <2>2. SumOf(outC, B \X Items) = SumOf(w, B)
    <3> HIDE DEF outC, B
    <3> QED
      BY <1>3, <2>1, SumOfPairs
  <2>3. ASSUME NEW b \in B PROVE net[b] = w[b]
    <3> DEFINE x == [i \in Items |-> bill[b].price[i] * bill[b].qty[i]]
               y == [i \in Items |-> outC[<<b, i>>]]
    <3>1. net[b] = SumFunction(x) /\ w[b] = SumOf(y, Items)
      BY DEF Net
    <3>2. DOMAIN x = Items /\ \A i \in Items : x[i] = y[i]
      OBVIOUS
    <3> HIDE DEF x, y, net, w
    <3> QED
      BY <1>3, <3>1, <3>2, SumFunctionIs, SumSame
  <2> HIDE DEF net, w, B
  <2>4. SumOf(net, B) = SumOf(w, B)
    BY <1>3, <2>3, SumSame
  <2> QED
    BY <2>2, <2>4
<1>9. /\ \A k \in D, i \in Items : inC[<<k, i>>] = c[<<receipt[k].order, i>>] * receipt[k].qty[i]
      /\ \A b \in B, i \in Items : outC[<<b, i>>] = c[<<bill[b].order, i>>] * bill[b].qty[i]
  BY <1>7 DEF ReceiptsFor
<1>10. \A k \in Taken, i \in Items : receipt[k].qty[i] \in Int
  <2> SUFFICES ASSUME NEW k \in Taken, NEW i \in Items PROVE receipt[k].qty[i] \in Int
    OBVIOUS
  <2>1. receipt[k].qty[i] \in Nat
    BY InLine
  <2> QED
    BY <2>1
<1>11. /\ \A k \in D, i \in Items : inE[<<k, i>>] = e[<<receipt[k].order, i>>] * receipt[k].qty[i]
       /\ \A b \in B, i \in Items : outE[<<b, i>>] = e[<<bill[b].order, i>>] * bill[b].qty[i]
  <2>1. ASSUME NEW k \in D, NEW i \in Items
        PROVE  inE[<<k, i>>] = e[<<receipt[k].order, i>>] * receipt[k].qty[i]
    <3>1. inE[<<k, i>>] = receipt[k].qty[i] /\ e[<<receipt[k].order, i>>] = 1
      BY DEF ReceiptsFor
    <3>2. k \in Taken
      BY <1>2
    <3>3. receipt[k].qty[i] \in Int
      BY <1>10, <3>2
    <3> QED
      BY <3>1, <3>3
  <2>2. ASSUME NEW b \in B, NEW i \in Items
        PROVE  outE[<<b, i>>] = e[<<bill[b].order, i>>] * bill[b].qty[i]
    <3>1. outE[<<b, i>>] = bill[b].qty[i] /\ e[<<bill[b].order, i>>] = 1
      BY <1>7
    <3>2. bill[b].qty[i] \in Int
      BY <1>7
    <3> QED
      BY <3>1, <3>2
  <2> QED
    BY <2>1, <2>2
<1> HIDE DEF S, c, e, inC, inE, outC, outE, net
<1>12. SumOf(inC, D \X Items) = SumOf([l \in S \X Items |-> c[l] * InQty(l[1], l[2])], S \X Items)
  BY <1>1, <1>4, <1>9, ReceiptLines
<1>13. SumOf(inE, D \X Items) = SumOf([l \in S \X Items |-> e[l] * InQty(l[1], l[2])], S \X Items)
  BY <1>1, <1>4, <1>11, ReceiptLines
<1>14. SumOf(outC, B \X Items) = SumOf([l \in S \X Items |-> c[l] * OutQty(l[1], l[2])], S \X Items)
  BY <1>1, <1>4, <1>9, BillLines
<1>15. SumOf(outE, B \X Items) = SumOf([l \in S \X Items |-> e[l] * OutQty(l[1], l[2])], S \X Items)
  BY <1>1, <1>4, <1>11, BillLines
<1>16. GrniRow(s).openOriginal = OpenBy(c, S) /\ OpenQuantity(s) = OpenBy(e, S)
  BY <1>1, <1>4, <1>5, <1>6, <1>8, <1>12, <1>13, <1>14, <1>15, OpenByIs
<1> QED
  BY <1>16 DEF S, c, e

\* Nothing is overbilled, and a supplier with nothing open has billed every unit.
LEMMA RowsTellOpen ==
  ASSUME BooksInv, NEW s \in Suppliers
  PROVE  /\ GrniRow(s).openOriginal >= 0
         /\ GrniRow(s).openOriginal = 0 => OpenQuantity(s) = 0
<1> DEFINE S == {o \in Orders : order[o].vendor = s}
           c == [l \in Orders \X Items |-> order[l[1]].cost[l[2]]]
           e == [l \in Orders \X Items |-> 1]
           z == [l \in S \X Items |-> e[l] * (InQty(l[1], l[2]) - OutQty(l[1], l[2]))]
<1>1. S \subseteq Orders /\ \A l \in S \X Items : c[l] \in Nat /\ e[l] \in Nat
  BY OrderTerms
<1>2. GrniRow(s).openOriginal = OpenBy(c, S) /\ OpenQuantity(s) = OpenBy(e, S)
  BY OpenIs
<1>3. /\ OpenBy(c, S) \in Nat
      /\ OpenBy(c, S) = 0 => \A l \in S \X Items : c[l] * (InQty(l[1], l[2]) - OutQty(l[1], l[2])) = 0
  <2> HIDE DEF S, c, e
  <2> QED
    BY <1>1, OpenByIs
<1>4. ASSUME OpenBy(c, S) = 0, NEW l \in S \X Items PROVE z[l] = 0
  <2> DEFINE o == l[1]
             i == l[2]
  <2>1. o \in Orders /\ i \in Items /\ order[o].vendor = s
    OBVIOUS
  <2>2. InQty(o, i) \in Nat /\ OutQty(o, i) \in Nat /\ OutQty(o, i) <= InQty(o, i)
        /\ order[o].cost[i] \in Nat
    BY <2>1, OrderTerms
  <2>3. order[o].cost[i] * (InQty(o, i) - OutQty(o, i)) = 0
    BY <1>3, <1>4
  <2>4. InQty(o, i) = OutQty(o, i)
    <3>1. CASE order[o].status = "ABSENT"
      <4>1. InQty(o, i) = 0
        BY <2>1, <3>1, NothingCame DEF BooksInv
      <4> QED
        BY <2>2, <4>1
    <3>2. CASE order[o].status # "ABSENT"
      <4>1. order[o].cost[i] > 0
        BY <2>1, <3>2 DEF BooksInv, MatchInv, Asked
      <4>2. \A x, y \in Nat : x > 0 /\ x * y = 0 => y = 0
        OBVIOUS
      <4>3. InQty(o, i) - OutQty(o, i) \in Nat
        BY <2>2
      <4>4. InQty(o, i) - OutQty(o, i) = 0
        BY <2>2, <2>3, <4>1, <4>2, <4>3
      <4> QED
        BY <2>2, <4>4
    <3> QED
      BY <3>1, <3>2
  <2>5. z[l] = 1 * (InQty(o, i) - OutQty(o, i))
    OBVIOUS
  <2> HIDE DEF z, o, i
  <2> QED
    BY <2>2, <2>4, <2>5
<1>5. IsFiniteSet(S \X Items)
  BY TablesFinite, FS_Subset, FS_Product
<1>6. OpenBy(e, S) = SumOf(z, S \X Items)
  BY DEF OpenBy
<1> HIDE DEF S, c, e, z
<1>7. OpenBy(c, S) = 0 => OpenBy(e, S) = 0
  BY <1>4, <1>5, <1>6, SumZero
<1> QED
  BY <1>2, <1>3, <1>7

\* A draft has no reason against it exactly when it matches.
LEMMA ReasonsTell ==
  ASSUME BooksInv, NEW b \in Bills, bill[b].status = "DRAFT"
  PROVE  MatchReasons(b) # {} <=> ~Matches(b)
<1> DEFINE o == bill[b].order
           n == bill[b].qty
           billed == {i \in Items : n[i] > 0}
           double == IF NumberFree(b, o, bill[b].number) THEN {}
                     ELSE {<<"DUPLICATE_SUPPLIER_INVOICE", None>>}
           unseen == IF \E k \in Receipts : receipt[k].order = o THEN {}
                     ELSE {<<"NO_RECEIPT_EVIDENCE", None>>}
           dear == {i \in billed : bill[b].price[i] # order[o].cost[i]}
           over == {i \in billed : Billed(o, i) + n[i] > order[o].qty[i]}
           early == {i \in billed : Billed(o, i) + n[i] > Delivered(o, i)}
<1>1. MatchReasons(b) = double \cup unseen \cup {<<"PRICE_MISMATCH", i>> : i \in dear}
        \cup {<<"QUANTITY_EXCEEDS_ORDERED", i>> : i \in over}
        \cup {<<"QUANTITY_EXCEEDS_RECEIVED", i>> : i \in early}
  BY DEF MatchReasons
<1>2. MatchReasons(b) = {} <=> double = {} /\ unseen = {} /\ dear = {} /\ over = {} /\ early = {}
  <2> HIDE DEF double, unseen, dear, over, early
  <2> QED
    BY <1>1
<1>3. double = {} <=> NumberFree(b, o, bill[b].number)
  OBVIOUS
<1>4. o \in Orders
  BY DEF BooksInv, MatchInv, BillsOfOrders
<1>5. \A i \in Items : /\ n[i] \in Nat /\ order[o].qty[i] \in Nat
                       /\ Billed(o, i) \in Nat /\ Delivered(o, i) \in Nat
  <2> SUFFICES ASSUME NEW i \in Items
               PROVE  /\ n[i] \in Nat /\ order[o].qty[i] \in Nat
                      /\ Billed(o, i) \in Nat /\ Delivered(o, i) \in Nat
    OBVIOUS
  <2>1. InQty(o, i) \in Nat /\ OutQty(o, i) \in Nat /\ n[i] \in Nat
    BY QuantitiesType DEF BooksInv, MatchInv
  <2>2. order[o].qty[i] \in Nat
    BY <1>4 DEF BooksInv, DutyInv, DocumentsTypeOK, Order, Quantity
  <2> QED
    BY <2>1, <2>2, DeliveredIs, BilledIs
<1>6. over = {} /\ early = {} <=>
        \A i \in Items : n[i] > 0 => /\ Billed(o, i) + n[i] <= order[o].qty[i]
                                     /\ Billed(o, i) + n[i] <= Delivered(o, i)
  BY <1>5
<1>7. early = {} => unseen = {}
  <2> SUFFICES ASSUME early = {} PROVE unseen = {}
    OBVIOUS
  <2>1. PICK i \in Items : n[i] > 0
    BY DEF BooksInv, AccountInv
  <2>2. Delivered(o, i) > 0
    BY <1>5, <2>1
  <2>3. Came(o) # {}
    <3>1. Came(o) = {} => InQty(o, i) = 0
      BY SumEmpty DEF InQty
    <3>2. InQty(o, i) # 0
      BY <2>2, DeliveredIs
    <3> QED
      BY <3>1, <3>2
  <2> QED
    BY <2>3 DEF Came
<1>8. Matches(b) <=> /\ NumberFree(b, o, bill[b].number) /\ dear = {}
                     /\ \A i \in Items : n[i] > 0 => /\ Billed(o, i) + n[i] <= order[o].qty[i]
                                                     /\ Billed(o, i) + n[i] <= Delivered(o, i)
  BY DEF Matches
<1> HIDE DEF double, unseen, dear, over, early
<1> QED
  BY <1>2, <1>3, <1>6, <1>7, <1>8

\* The drafts listed as blocked are those that would not post.
LEMMA BlockedAre ==
  ASSUME BooksInv, NEW b \in Bills
  PROVE  b \in Analytics.blocked <=> bill[b].status = "DRAFT" /\ ~Matches(b)
<1>1. b \in Analytics.blocked <=> \E s \in Suppliers : b \in BlockedDrafts(s)
  BY ReportIs
<1>2. \A s : b \in BlockedDrafts(s) <=>
        bill[b].status = "DRAFT" /\ SupplierOf(b) = s /\ MatchReasons(b) # {}
  BY DEF BlockedDrafts, BillsOf
<1>3. bill[b].status = "DRAFT" => SupplierOf(b) \in Suppliers
  BY VendorsAre
<1>4. bill[b].status = "DRAFT" => (MatchReasons(b) # {} <=> ~Matches(b))
  BY ReasonsTell
<1> QED
  BY <1>1, <1>2, <1>3, <1>4

LEMMA BooksTieOut == BooksInv => SchedulesTieOut
<1> SUFFICES ASSUME BooksInv PROVE SchedulesTieOut
  OBVIOUS
<1>1. /\ Analytics.scheduledGrni = account.grni
      /\ Analytics.scheduledAp = account.ap /\ Analytics.spend = account.ap
  BY GrniTiesOut, ApTiesOut
<1>2. \A s \in DOMAIN Analytics.grni : Analytics.grni[s].openOriginal >= 0
  <2> SUFFICES ASSUME NEW s \in DOMAIN GrniRows PROVE GrniRows[s].openOriginal >= 0
    BY ReportIs
  <2>1. s \in Suppliers /\ GrniRows[s] = GrniRow(s)
    BY GrniRowsAre
  <2> QED
    BY <2>1, RowsTellOpen
<1>3. \A s \in Suppliers \ DOMAIN Analytics.grni : OpenQuantity(s) = 0
  <2> SUFFICES ASSUME NEW s \in Suppliers \ DOMAIN GrniRows PROVE OpenQuantity(s) = 0
    BY ReportIs
  <2>1. GrniRow(s).openOriginal = 0
    BY GrniRowsAre
  <2> QED
    BY <2>1, RowsTellOpen
<1>4. \A b \in Bills : bill[b].status = "POSTED" => SupplierOf(b) \in Analytics.suppliers
  <2> SUFFICES ASSUME NEW b \in Bills, bill[b].status = "POSTED"
               PROVE  SupplierOf(b) \in DOMAIN SpendRows
    BY ReportIs
  <2>1. SupplierOf(b) \in Suppliers
    BY VendorsAre
  <2>2. b \in BillsOf(SupplierOf(b), "POSTED")
    BY DEF BillsOf
  <2> QED
    BY <2>1, <2>2 DEF SpendRows
<1>5. \A b \in Bills : b \in Analytics.blocked <=> bill[b].status = "DRAFT" /\ ~Matches(b)
  BY BlockedAre
<1> HIDE DEF Analytics
<1> QED
  BY <1>1, <1>2, <1>3, <1>4, <1>5 DEF SchedulesTieOut

\* Goods received and not invoiced stay within half a cent a document line of
\* what is really open, the shelf is owed for, and the report schedules to
\* suppliers what the control accounts hold, whatever is received and billed in
\* whatever parts and at whatever rates: postGoodsReceipt, postSupplierBill and
\* getSupplierAnalytics.
THEOREM DebtsAlwaysDelivered == ProcurementSpec => []DebtsAreDeliveries
<1>1. BooksInv => DebtsAreDeliveries
  BY BooksTypes, BooksRounding, BooksShelf, BooksTieOut DEF DebtsAreDeliveries
<1> QED
  BY <1>1, BooksInvAlways, PTL
=============================================================================
