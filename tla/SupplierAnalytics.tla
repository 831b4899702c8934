------------------------- MODULE SupplierAnalytics -------------------------
(***************************************************************************)
(* The supplier performance and spend report                               *)
(* (server/src/supplier-analytics.ts) over the documents of Procurement:   *)
(* what it says of every supplier up to the end of the current day, beside *)
(* the control accounts it is read against.  It recomputes every base      *)
(* amount from the documents as they are now, with the rates of orders and *)
(* bills; the journals were written with those of their own moment.        *)
(***************************************************************************)
EXTENDS Procurement

SupplierOf(b) == order[bill[b].order].vendor

\* Bills of a supplier in a status.
BillsOf(s, status) == {b \in Bills : bill[b].status = status /\ SupplierOf(b) = s}

ReceiptsOf(s) == {k \in Receipts : receipt[k].order # None /\ order[receipt[k].order].vendor = s}

Net(b) == SumFunction([i \in Items |-> bill[b].price[i] * bill[b].qty[i]])

\* buildGrni: receipts less posted bills, in units and, line by line at the
\* order's rate, in cents.
OpenQuantity(s) ==
  SumFunction([l \in ReceiptsOf(s) \X Items |-> receipt[l[1]].qty[l[2]]])
    - SumFunction([l \in BillsOf(s, "POSTED") \X Items |-> bill[l[1]].qty[l[2]]])

GrniRow(s) ==
  LET ordered(k) == order[receipt[k].order]
      original(l) == ordered(l[1]).cost[l[2]] * receipt[l[1]].qty[l[2]]
      lines == ReceiptsOf(s) \X Items
      billed == BillsOf(s, "POSTED")
  IN [openOriginal |-> SumFunction([l \in lines |-> original(l)])
                         - SumFunction([b \in billed |-> Net(b)]),
      openBase |-> SumFunction([l \in lines |-> AtRate(original(l), ordered(l[1]).rate)])
                     - SumFunction([b \in billed |-> Cleared(b)])]

\* The rows of the schedule: suppliers with nothing open have none.
GrniRows ==
  LET row == [s \in Suppliers |-> GrniRow(s)]
      open == {s \in Suppliers : row[s].openBase # 0 \/ row[s].openOriginal # 0}
  IN [s \in open |-> row[s]]

\* buildAp: the AP credits of the bills' journals, at the bills' own rates.
ApRow(s) == SumFunction([b \in BillsOf(s, "POSTED") |-> Payable(b)])

\* buildSpend: suppliers with a posted bill.
SpendRows ==
  [s \in {s \in Suppliers : BillsOf(s, "POSTED") # {}} |->
     [bills |-> Cardinality(BillsOf(s, "POSTED")),
      originalNet |-> SumFunction([b \in BillsOf(s, "POSTED") |-> Net(b)]), baseGross |-> ApRow(s)]]

\* Why a draft is not matched, each reason with the item it is about.
MatchReasons(b) ==
  LET o == bill[b].order
      billed == {i \in Items : bill[b].qty[i] > 0}
      reason(code, S) == {<<code, i>> : i \in S}
  IN (IF NumberFree(b, o, bill[b].number) THEN {} ELSE {<<"DUPLICATE_SUPPLIER_INVOICE", None>>})
       \cup (IF \E k \in Receipts : receipt[k].order = o THEN {}
             ELSE {<<"NO_RECEIPT_EVIDENCE", None>>})
       \cup reason("PRICE_MISMATCH", {i \in billed : bill[b].price[i] # order[o].cost[i]})
       \cup reason("QUANTITY_EXCEEDS_ORDERED",
                   {i \in billed : Billed(o, i) + bill[b].qty[i] > order[o].qty[i]})
       \cup reason("QUANTITY_EXCEEDS_RECEIVED",
                   {i \in billed : Billed(o, i) + bill[b].qty[i] > Delivered(o, i)})

\* matchExceptions: the drafts of a supplier that posting would refuse.
BlockedDrafts(s) == {b \in BillsOf(s, "DRAFT") : MatchReasons(b) # {}}

Variance(b, i) == (bill[b].price[i] - order[bill[b].order].cost[i]) * bill[b].qty[i]

\* buildDraftVariance: the lines that cost other than the order says.
PriceVariance(b) == {i \in Items : Variance(b, i) # 0}

\* getSupplierAnalytics, without a supplier filter.
Analytics ==
  LET grni == GrniRows
      spend == SpendRows
  IN [suppliers |-> DOMAIN grni \cup DOMAIN spend,
      spend |-> SumFunction([s \in DOMAIN spend |-> spend[s].baseGross]),
      grni |-> grni,
      scheduledGrni |-> SumFunction([s \in DOMAIN grni |-> grni[s].openBase]),
      scheduledAp |-> SumFunction([s \in Suppliers |-> ApRow(s)]),
      blocked |-> UNION {BlockedDrafts(s) : s \in Suppliers}]

----------------------------------------------------------------------------
(* Properties.                                                             *)

\* What the report schedules to suppliers is what the control accounts hold, to
\* the cent and at whatever rates: no order or bill behind a journal changes
\* afterwards.  Nothing scheduled is overbilled, and a row is left out only when
\* the supplier has billed every unit received; one that has may keep a row, of
\* the cents that rounding left.  Just the drafts that would not post are listed
\* as blocked.
SchedulesTieOut ==
  LET report == Analytics IN
  /\ report.scheduledGrni = account.grni
  /\ report.scheduledAp = account.ap /\ report.spend = account.ap
  /\ \A s \in DOMAIN report.grni : report.grni[s].openOriginal >= 0
  /\ \A s \in Suppliers \ DOMAIN report.grni : OpenQuantity(s) = 0
  /\ \A b \in Bills : bill[b].status = "POSTED" => SupplierOf(b) \in report.suppliers
  /\ \A b \in Bills : b \in report.blocked <=> bill[b].status = "DRAFT" /\ ~Matches(b)

\* The report prints a variance of 0.00 for posted bills without computing it,
\* and every draft it shows a price variance of is blocked for its price.
VarianceIsBlocked ==
  \A b \in Bills : bill[b].status # "ABSENT" =>
    \A i \in PriceVariance(b) :
      bill[b].status = "DRAFT" /\ <<"PRICE_MISMATCH", i>> \in MatchReasons(b)

\* The balances of goods received and owed for, on states of the right types,
\* and the report that schedules them.
DebtsAreDeliveries == ProcurementTypeOK /\ GrniWithinRounding /\ ShelfIsOwed /\ SchedulesTieOut

\* Orders, receipts and bills match, the order says how far it has come, and
\* the report which bills will not post.
OrdersMatch == ThreeWayMatch /\ StatusTellsDelivery /\ VarianceIsBlocked
=============================================================================
