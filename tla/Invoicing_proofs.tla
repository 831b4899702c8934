------------------------- MODULE Invoicing_proofs -------------------------
(***************************************************************************)
(* What holds of invoicing for every set of invoices, settlements and      *)
(* server processes, however the settlements overlap.                      *)
(***************************************************************************)
EXTENDS SettlementsInTurn, StockLedger_proofs

----------------------------------------------------------------------------
(* Invoicing uses the stock ledger only through its operations.            *)

\* Every behaviour of invoicing is a behaviour of the stock ledger: issue and
\* void move stock through its operations and nothing else touches it.
THEOREM InvoicingUsesStock == InvoicingSpec => StockSpec
<1>1. InvoicingInit => StockInit
  BY DEF InvoicingInit
<1>2. [InvoicingNext]_vars => [StockNext]_stockVars
  BY DEF InvoicingNext, vars, StockNext, CreateDraft, UpdateDraft, IssueInvoice,
         VoidInvoice, BeginSettlement, ReadInvoice, CommitSettlement, AbortSettlement
<1> QED
  BY <1>1, <1>2, PTL DEF InvoicingSpec, StockSpec

\* So no invoice, however it races, oversells or leaves the valuation layer
\* out of step with the balance.
THEOREM InvoicingKeepsValuation == InvoicingSpec => []ValuationSound
BY InvoicingUsesStock, ValuationAlwaysSound, PTL

----------------------------------------------------------------------------
(* The inductive invariant: what a settlement has read still fits the       *)
(* total, because a total never changes once the invoice left DRAFT.        *)

ReadsFit ==
  \A p \in Payers : payer[p] # Idle =>
    /\ Len(payer[p].seen) <= Len(payer[p].ask.parts)
    /\ \A k \in 1 .. Len(payer[p].seen) :
         /\ invoice[payer[p].ask.parts[k].doc].status \notin {"ABSENT", "DRAFT"}
         /\ payer[p].seen[k] + payer[p].ask.parts[k].amount
              <= Total(payer[p].ask.parts[k].doc)

SettlementInv == InvoiceTypeOK /\ StatusMatchesBalance /\ ReadsFit

LEMMA BaseType ==
  ASSUME InvoiceTypeOK, NEW d \in Docs, NEW a \in Nat
  PROVE  Base(d, a) \in Nat
<1>1. invoice[d].rate \in Nat
  BY DEF InvoiceTypeOK, Invoice
<1>2. a * invoice[d].rate \in Nat
  BY <1>1
<1>3. RateUnit \in Nat \ {0}
  BY TotalsAreSane
<1> QED
  BY <1>2, <1>3, RoundHalfUpType DEF Base

LEMMA BilledType ==
  ASSUME InvoiceTypeOK, NEW d \in Docs
  PROVE  Billed(d) \in Nat
<1>1. invoice[d].net \in Nat /\ invoice[d].tax \in Nat
  BY DEF InvoiceTypeOK, Invoice
<1>2. Base(d, invoice[d].net) \in Nat /\ Base(d, invoice[d].tax) \in Nat
  BY <1>1, BaseType
<1> QED
  BY <1>2 DEF Billed

\* What a process is in the middle of, and the parts of a settlement.
LEMMA PayerType ==
  ASSUME InvoiceTypeOK, NEW p \in Payers, payer[p] # Idle
  PROVE  payer[p].ask \in Settlements /\ payer[p].seen \in Seq(Nat)
BY DEF InvoiceTypeOK

LEMMA PartType ==
  ASSUME NEW s \in Settlements, NEW k \in DOMAIN s.parts
  PROVE  s.parts[k].doc \in Docs /\ s.parts[k].amount \in Nat \ {0}
<1>1. s.parts \in Seq(Part)
  BY SettlementsAreSane
<1>2. s.parts[k] \in Part
  BY <1>1
<1> QED
  BY <1>2 DEF Part

LEMMA AmountForType ==
  ASSUME NEW s \in Settlements, NEW d \in PartDocs(s)
  PROVE  d \in Docs /\ AmountFor(s, d) \in Nat \ {0}
<1>1. PICK k \in DOMAIN s.parts : k = PartFor(s, d)
  BY DEF PartDocs, PartFor
<1>2. s.parts[k].doc = d
  BY <1>1 DEF PartDocs, PartFor
<1>3. AmountFor(s, d) = s.parts[k].amount
  BY <1>1 DEF AmountFor
<1> QED
  BY <1>2, <1>3, PartType

\* The balance a settlement writes back is positive and within the total.
LEMMA SettledFits ==
  ASSUME InvoiceTypeOK, ReadsFit, NEW p \in Payers, payer[p] # Idle,
         Len(payer[p].seen) = Len(payer[p].ask.parts),
         NEW d \in PartDocs(payer[p].ask)
  PROVE  /\ invoice[d].status \notin {"ABSENT", "DRAFT"}
         /\ \E n \in Nat \ {0} :
              /\ n <= Total(d)
              /\ Settled(d, payer[p]) = WithPaid(d, n)
<1> DEFINE parts == payer[p].ask.parts
<1>1. payer[p].ask \in Settlements /\ payer[p].seen \in Seq(Nat)
  BY PayerType
<1>2. parts \in Seq(Part)
  BY <1>1, SettlementsAreSane
<1>3. PICK k \in DOMAIN parts : k = PartFor(payer[p].ask, d)
  BY DEF PartDocs, PartFor
<1>4. parts[k].doc = d
  BY <1>3 DEF PartDocs, PartFor
<1>5. k \in 1 .. Len(payer[p].seen) /\ k \in DOMAIN payer[p].seen
  BY <1>1, <1>2
<1>6. parts[k].amount \in Nat \ {0}
  BY <1>1, PartType
<1>7. payer[p].seen[k] \in Nat
  BY <1>1, <1>5
<1>8. /\ invoice[d].status \notin {"ABSENT", "DRAFT"}
      /\ payer[p].seen[k] + parts[k].amount <= Total(d)
  BY <1>4, <1>5 DEF ReadsFit
<1>9. payer[p].seen[k] + parts[k].amount \in Nat \ {0}
  <2>1. \A m, n \in Nat : n # 0 => m + n \in Nat \ {0}
    OBVIOUS
  <2>2. parts[k].amount \in Nat /\ parts[k].amount # 0
    BY <1>6
  <2> QED
    BY <2>1, <2>2, <1>7
<1> QED
  BY <1>3, <1>8, <1>9 DEF Settled, AmountFor

----------------------------------------------------------------------------
(* Steps.  A row of the invoices table changes in one of four ways.        *)

LEMMA RowAfterDraft ==
  ASSUME InvoiceTypeOK, NEW d \in Docs, NEW t \in Totals, Draft(d, t)
  PROVE  /\ invoice' \in [Docs -> Invoice]
         /\ \A e \in Docs \ {d} : invoice'[e] = invoice[e]
         /\ invoice'[d].status = "DRAFT"
         /\ invoice'[d].paid = invoice[d].paid
         /\ invoice'[d].number = invoice[d].number
<1>1. t.net \in Nat /\ t.tax \in Nat /\ t.rate \in Nat \ {0}
  BY TotalsAreSane
<1>2. invoice[d].paid \in Nat /\ invoice[d].number \in Nat
  BY DEF InvoiceTypeOK, Invoice
<1> DEFINE row == [status |-> "DRAFT", net |-> t.net, tax |-> t.tax, rate |-> t.rate,
                   paid |-> invoice[d].paid, number |-> invoice[d].number]
<1>3. row \in Invoice
  BY <1>1, <1>2 DEF Invoice, Statuses
<1>4. invoice' = [invoice EXCEPT ![d] = row]
  BY DEF Draft
<1>5. invoice \in [Docs -> Invoice]
  BY DEF InvoiceTypeOK
<1>6. invoice'[d] = row
  BY <1>4, <1>5
<1> QED
  BY <1>3, <1>4, <1>5, <1>6

LEMMA RowAfterIssue ==
  ASSUME InvoiceTypeOK, lastNumber \in Nat, NEW d \in Docs, IssueInvoice(d)
  PROVE  /\ invoice' \in [Docs -> Invoice]
         /\ \A e \in Docs \ {d} : invoice'[e] = invoice[e]
         /\ invoice'[d] = [invoice[d] EXCEPT !.status = "ISSUED", !.number = lastNumber + 1]
<1>1. invoice \in [Docs -> Invoice] /\ invoice[d] \in Invoice
  BY DEF InvoiceTypeOK
<1>2. [invoice[d] EXCEPT !.status = "ISSUED", !.number = lastNumber + 1] \in Invoice
  <2>1. \A n \in Nat :
          [invoice[d] EXCEPT !.status = "ISSUED", !.number = n] \in Invoice
    BY <1>1, Zenon DEF Invoice, Statuses
  <2>2. lastNumber + 1 \in Nat
    OBVIOUS
  <2> QED
    BY <2>1, <2>2, Zenon
<1>3. invoice' = [invoice EXCEPT ![d] =
                    [invoice[d] EXCEPT !.status = "ISSUED", !.number = lastNumber + 1]]
  BY <1>1, Zenon DEF IssueInvoice, NextDocNumber
<1> QED
  BY <1>1, <1>2, <1>3

LEMMA RowAfterVoid ==
  ASSUME InvoiceTypeOK, NEW d \in Docs, VoidInvoice(d)
  PROVE  /\ invoice' \in [Docs -> Invoice]
         /\ \A e \in Docs \ {d} : invoice'[e] = invoice[e]
         /\ invoice'[d] = [invoice[d] EXCEPT !.status = "VOID"]
<1>1. invoice \in [Docs -> Invoice] /\ invoice[d] \in Invoice
  BY DEF InvoiceTypeOK
<1>2. [invoice[d] EXCEPT !.status = "VOID"] \in Invoice
  BY <1>1 DEF Invoice, Statuses
<1>3. invoice' = [invoice EXCEPT ![d] = [invoice[d] EXCEPT !.status = "VOID"]]
  BY <1>1, Zenon DEF VoidInvoice
<1> QED
  BY <1>1, <1>2, <1>3

LEMMA RowAfterCommit ==
  ASSUME InvoiceTypeOK, ReadsFit, NEW p \in Payers, CommitSettlement(p)
  PROVE  /\ invoice' \in [Docs -> Invoice]
         /\ \A d \in Docs :
              \/ invoice'[d] = invoice[d]
              \/ /\ invoice[d].status \notin {"ABSENT", "DRAFT"}
                 /\ \E n \in Nat \ {0} : n <= Total(d) /\ invoice'[d] = WithPaid(d, n)
<1> DEFINE S == PartDocs(payer[p].ask)
<1>1. /\ payer[p] # Idle
      /\ Len(payer[p].seen) = Len(payer[p].ask.parts)
      /\ invoice' = [d \in Docs |-> IF d \in S THEN Settled(d, payer[p]) ELSE invoice[d]]
  BY DEF CommitSettlement
<1>2. \A d \in S :
        /\ invoice[d].status \notin {"ABSENT", "DRAFT"}
        /\ \E n \in Nat \ {0} : n <= Total(d) /\ Settled(d, payer[p]) = WithPaid(d, n)
  BY <1>1, SettledFits
<1>3. ASSUME NEW d \in Docs, NEW n \in Nat
      PROVE  WithPaid(d, n) \in Invoice
  <2>1. invoice[d] \in Invoice
    BY DEF InvoiceTypeOK
  <2>2. \A st \in Statuses : [invoice[d] EXCEPT !.paid = n, !.status = st] \in Invoice
    BY <2>1 DEF Invoice
  <2>3. (IF n >= Total(d) THEN "PAID" ELSE "PARTIAL") \in Statuses
    BY DEF Statuses
  <2> QED
    BY <2>2, <2>3 DEF WithPaid
<1>4. \A d \in Docs : invoice'[d] = IF d \in S THEN Settled(d, payer[p]) ELSE invoice[d]
  BY <1>1
<1>5. \A d \in Docs : invoice[d] \in Invoice
  BY DEF InvoiceTypeOK
<1>6. \A d \in Docs : (IF d \in S THEN Settled(d, payer[p]) ELSE invoice[d]) \in Invoice
  BY <1>2, <1>3, <1>5
<1>7. invoice' \in [Docs -> Invoice]
  BY <1>1, <1>6
<1> QED
  BY <1>2, <1>4, <1>7

----------------------------------------------------------------------------
(* Every step keeps the invariant.                                         *)

LEMMA InvoiceTypeStep ==
  ASSUME SettlementInv, [InvoicingNext]_vars
  PROVE  InvoiceTypeOK'
<1> USE DEF SettlementInv
<1>0. /\ invoice \in [Docs -> Invoice]
      /\ lastNumber \in Nat
      /\ payments \subseteq Payment
      /\ ledger \in [Docs -> [billed : Nat, settled : Nat]]
      /\ matched \subseteq BankLines
      /\ payer \in [Payers -> [ask : Settlements, seen : Seq(Nat)] \cup {Idle}]
  BY DEF InvoiceTypeOK
<1>1. CASE \E d \in Docs, t \in Totals : CreateDraft(d, t) \/ UpdateDraft(d, t)
  <2>1. PICK d \in Docs, t \in Totals : CreateDraft(d, t) \/ UpdateDraft(d, t)
    BY <1>1
  <2>2. invoice' \in [Docs -> Invoice]
    BY <2>1, RowAfterDraft DEF CreateDraft, UpdateDraft
  <2> QED
    BY <1>0, <2>1, <2>2 DEF CreateDraft, UpdateDraft, InvoiceTypeOK
<1>2. CASE \E d \in Docs : IssueInvoice(d)
  <2>1. PICK d \in Docs : IssueInvoice(d)
    BY <1>2
  <2>2. invoice' \in [Docs -> Invoice]
    BY <1>0, <2>1, RowAfterIssue
  <2>3. Billed(d) \in Nat
    BY BilledType
  <2>4. [ledger[d] EXCEPT !.billed = Billed(d)] \in [billed : Nat, settled : Nat]
    BY <1>0, <2>3, Zenon
  <2>5. ledger' = [ledger EXCEPT ![d] = [ledger[d] EXCEPT !.billed = Billed(d)]]
    BY <1>0, <2>1, Zenon DEF IssueInvoice
  <2>6. ledger' \in [Docs -> [billed : Nat, settled : Nat]]
    BY <1>0, <2>4, <2>5
  <2>7. /\ lastNumber' = lastNumber + 1
        /\ UNCHANGED <<payments, matched, payer>>
    BY <2>1 DEF IssueInvoice, NextDocNumber
  <2> QED
    BY <1>0, <2>2, <2>6, <2>7 DEF InvoiceTypeOK
<1>3. CASE \E d \in Docs : VoidInvoice(d)
  <2>1. PICK d \in Docs : VoidInvoice(d)
    BY <1>3
  <2>2. invoice' \in [Docs -> Invoice]
    BY <2>1, RowAfterVoid
  <2>4. [ledger[d] EXCEPT !.billed = 0] \in [billed : Nat, settled : Nat]
    BY <1>0
  <2>5. ledger' = [ledger EXCEPT ![d] = [ledger[d] EXCEPT !.billed = 0]]
    BY <1>0, <2>1, Zenon DEF VoidInvoice
  <2>6. ledger' \in [Docs -> [billed : Nat, settled : Nat]]
    BY <1>0, <2>4, <2>5
  <2>7. UNCHANGED <<lastNumber, payments, matched, payer>>
    BY <2>1 DEF VoidInvoice
  <2> QED
    BY <1>0, <2>2, <2>6, <2>7 DEF InvoiceTypeOK
<1>4. CASE \E p \in Payers, s \in Settlements : BeginSettlement(p, s)
  <2>1. PICK p \in Payers, s \in Settlements : BeginSettlement(p, s)
    BY <1>4
  <2>2. [ask |-> s, seen |-> <<>>] \in [ask : Settlements, seen : Seq(Nat)]
    OBVIOUS
  <2>3. payer' = [payer EXCEPT ![p] = [ask |-> s, seen |-> <<>>]]
    BY <2>1 DEF BeginSettlement
  <2>4. UNCHANGED <<invoice, lastNumber, payments, ledger, matched>>
    BY <2>1 DEF BeginSettlement
  <2> QED
    BY <1>0, <2>2, <2>3, <2>4 DEF InvoiceTypeOK
<1>5. CASE \E p \in Payers : ReadInvoice(p)
  <2>1. PICK p \in Payers : ReadInvoice(p)
    BY <1>5
  <2>2. payer[p] \in [ask : Settlements, seen : Seq(Nat)]
    BY <1>0, <2>1 DEF ReadInvoice
  <2> DEFINE k == Len(payer[p].seen) + 1
             doc == payer[p].ask.parts[k].doc
  <2>3. k \in DOMAIN payer[p].ask.parts
    <3>1. payer[p].ask.parts \in Seq(Part) /\ payer[p].seen \in Seq(Nat)
      BY <2>2, SettlementsAreSane
    <3>2. k <= Len(payer[p].ask.parts)
      BY <2>1 DEF ReadInvoice
    <3> QED
      BY <3>1, <3>2
  <2>4. doc \in Docs
    BY <2>2, <2>3, PartType
  <2>5. invoice[doc].paid \in Nat
    BY <1>0, <2>4 DEF Invoice
  <2>6. Append(payer[p].seen, invoice[doc].paid) \in Seq(Nat)
    BY <2>2, <2>5
  <2>7. payer' = [payer EXCEPT ![p] =
                    [payer[p] EXCEPT !.seen = Append(payer[p].seen, invoice[doc].paid)]]
    BY <1>0, <2>1, Zenon DEF ReadInvoice
  <2>8. [payer[p] EXCEPT !.seen = Append(payer[p].seen, invoice[doc].paid)]
          \in [ask : Settlements, seen : Seq(Nat)]
    BY <2>2, <2>6, Zenon
  <2>9. UNCHANGED <<invoice, lastNumber, payments, ledger, matched>>
    BY <2>1 DEF ReadInvoice
  <2> QED
    BY <1>0, <2>7, <2>8, <2>9 DEF InvoiceTypeOK
<1>6. CASE \E p \in Payers : CommitSettlement(p)
  <2>1. PICK p \in Payers : CommitSettlement(p)
    BY <1>6
  <2> DEFINE s == payer[p].ask
             S == PartDocs(s)
  <2>2. invoice' \in [Docs -> Invoice]
    BY <2>1, RowAfterCommit
  <2>3. s \in Settlements
    BY <2>1, PayerType DEF CommitSettlement
  <2>4. \A d \in S : d \in Docs /\ AmountFor(s, d) \in Nat \ {0}
    BY <2>3, AmountForType
  <2>5. s.key \in PayKeys \cup {NoKey} /\ s.line \in BankLines \cup {NoLine}
    BY <2>3, SettlementsAreSane
  <2>6. payments' \subseteq Payment
    <3>1. {[key |-> s.key, line |-> s.line, doc |-> d, amount |-> AmountFor(s, d)] : d \in S}
            \subseteq Payment
      BY <2>4, <2>5 DEF Payment
    <3> QED
      BY <1>0, <2>1, <3>1 DEF CommitSettlement
  <2>7. ASSUME NEW d \in Docs
        PROVE  ledger'[d] \in [billed : Nat, settled : Nat]
    <3>1. ledger'[d] = IF d \in S
                       THEN [ledger[d] EXCEPT !.settled = ledger[d].settled + Posted(s, d)]
                       ELSE ledger[d]
      BY <2>1 DEF CommitSettlement
    <3>2. ASSUME d \in S PROVE Posted(s, d) \in Nat
      BY <2>4, <3>2, BaseType DEF Posted
    <3>3. ASSUME d \in S PROVE ledger[d].settled + Posted(s, d) \in Nat
      BY <1>0, <3>2, <3>3
    <3>4. \A n \in Nat : [ledger[d] EXCEPT !.settled = n] \in [billed : Nat, settled : Nat]
      BY <1>0, Zenon
    <3> QED
      BY <1>0, <3>1, <3>3, <3>4
  <2>8. ledger' = [d \in Docs |-> ledger'[d]]
    BY <2>1 DEF CommitSettlement
  <2>9. matched' \subseteq BankLines /\ lastNumber' \in Nat
    BY <1>0, <2>1, <2>5 DEF CommitSettlement
  <2>10. payer' \in [Payers -> [ask : Settlements, seen : Seq(Nat)] \cup {Idle}]
    BY <1>0, <2>1 DEF CommitSettlement
  <2>11. ledger' \in [Docs -> [billed : Nat, settled : Nat]]
    BY <2>7, <2>8
  <2> QED
    BY <2>2, <2>6, <2>9, <2>10, <2>11 DEF InvoiceTypeOK
<1>7. CASE \E p \in Payers : AbortSettlement(p)
  BY <1>0, <1>7 DEF AbortSettlement, InvoiceTypeOK
<1>8. CASE UNCHANGED invoiceVars
  BY <1>0, <1>8 DEF invoiceVars, InvoiceTypeOK
<1> QED
  BY <1>1, <1>2, <1>3, <1>4, <1>5, <1>6, <1>7, <1>8 DEF InvoicingNext, vars, invoiceVars

\* How one step may change a row; every action is one of these.
RowStep(d) ==
  \/ invoice'[d] = invoice[d]
  \/ invoice[d].status \in {"ABSENT", "DRAFT"} /\ invoice'[d].status = "DRAFT"
       /\ invoice'[d].paid = invoice[d].paid
  \/ invoice[d].status = "DRAFT"
       /\ \E n \in Nat : invoice'[d] = [invoice[d] EXCEPT !.status = "ISSUED", !.number = n]
  \/ invoice[d].status # "ABSENT" /\ invoice[d].paid = 0
       /\ invoice'[d] = [invoice[d] EXCEPT !.status = "VOID"]
  \/ invoice[d].status \notin {"ABSENT", "DRAFT"}
       /\ \E n \in Nat \ {0} : n <= Total(d) /\ invoice'[d] = WithPaid(d, n)

LEMMA EveryStepIsRowStep ==
  ASSUME SettlementInv, [InvoicingNext]_vars, NEW e \in Docs
  PROVE  RowStep(e)
<1> USE DEF SettlementInv
<1>1. CASE \E d \in Docs, t \in Totals : CreateDraft(d, t) \/ UpdateDraft(d, t)
  <2>1. PICK d \in Docs, t \in Totals : CreateDraft(d, t) \/ UpdateDraft(d, t)
    BY <1>1
  <2>2. Draft(d, t) /\ invoice[d].status \in {"ABSENT", "DRAFT"}
    BY <2>1 DEF CreateDraft, UpdateDraft
  <2> QED
    BY <2>2, RowAfterDraft DEF RowStep
<1>2. CASE \E d \in Docs : IssueInvoice(d)
  <2>1. PICK d \in Docs : IssueInvoice(d)
    BY <1>2
  <2>2. lastNumber \in Nat
    BY DEF InvoiceTypeOK
  <2>3. /\ \A c \in Docs \ {d} : invoice'[c] = invoice[c]
        /\ invoice'[d] = [invoice[d] EXCEPT !.status = "ISSUED", !.number = lastNumber + 1]
    BY <2>1, <2>2, RowAfterIssue
  <2>4. lastNumber + 1 \in Nat /\ invoice[d].status = "DRAFT"
    BY <2>1, <2>2 DEF IssueInvoice
  <2> QED
    BY <2>3, <2>4, Zenon DEF RowStep
<1>3. CASE \E d \in Docs : VoidInvoice(d)
  <2>1. PICK d \in Docs : VoidInvoice(d)
    BY <1>3
  <2>2. /\ \A c \in Docs \ {d} : invoice'[c] = invoice[c]
        /\ invoice'[d] = [invoice[d] EXCEPT !.status = "VOID"]
    BY <2>1, RowAfterVoid
  <2>3. invoice[d].status # "ABSENT" /\ invoice[d].paid = 0
    BY <2>1 DEF VoidInvoice
  <2> QED
    BY <2>2, <2>3, Zenon DEF RowStep
<1>4. CASE \E p \in Payers : CommitSettlement(p)
  BY <1>4, RowAfterCommit, Zenon DEF RowStep
<1>5. CASE UNCHANGED invoice
  BY <1>5 DEF RowStep
<1> QED
  BY <1>1, <1>2, <1>3, <1>4, <1>5
  DEF InvoicingNext, vars, invoiceVars, BeginSettlement, ReadInvoice, AbortSettlement

LEMMA RowStepFacts ==
  ASSUME SettlementInv, [InvoicingNext]_vars, NEW e \in Docs
  PROVE  /\ invoice[e].status \notin {"ABSENT", "DRAFT"} =>
              /\ invoice'[e].status \notin {"ABSENT", "DRAFT"}
              /\ Total(e)' = Total(e)
         /\ invoice'[e].status \in {"ABSENT", "DRAFT", "ISSUED", "VOID"} => invoice'[e].paid = 0
         /\ invoice'[e].status = "PARTIAL" => invoice'[e].paid > 0 /\ invoice'[e].paid < Total(e)'
         /\ invoice'[e].status = "PAID" => invoice'[e].paid = Total(e)'
<1> USE DEF SettlementInv
<1>0. RowStep(e)
  BY EveryStepIsRowStep
<1>1. /\ invoice[e] \in Invoice
      /\ Total(e) = invoice[e].net + invoice[e].tax
      /\ Total(e)' = invoice'[e].net + invoice'[e].tax
  BY DEF InvoiceTypeOK, Total
<1>2. /\ invoice[e].status \in {"ABSENT", "DRAFT", "ISSUED", "VOID"} => invoice[e].paid = 0
      /\ invoice[e].status = "PARTIAL" => invoice[e].paid > 0 /\ invoice[e].paid < Total(e)
      /\ invoice[e].status = "PAID" => invoice[e].paid = Total(e)
  BY DEF StatusMatchesBalance
<1>3. CASE invoice'[e] = invoice[e]
  BY <1>1, <1>2, <1>3
<1>4. CASE invoice[e].status \in {"ABSENT", "DRAFT"} /\ invoice'[e].status = "DRAFT"
             /\ invoice'[e].paid = invoice[e].paid
  BY <1>2, <1>4
<1>5. CASE invoice[e].status = "DRAFT"
             /\ \E n \in Nat : invoice'[e] = [invoice[e] EXCEPT !.status = "ISSUED", !.number = n]
  <2>1. invoice'[e].status = "ISSUED" /\ invoice'[e].paid = invoice[e].paid
    BY <1>1, <1>5 DEF Invoice
  <2> QED
    BY <1>2, <1>5, <2>1
<1>6. CASE invoice[e].status # "ABSENT" /\ invoice[e].paid = 0
             /\ invoice'[e] = [invoice[e] EXCEPT !.status = "VOID"]
  <2>1. /\ invoice'[e].status = "VOID" /\ invoice'[e].paid = invoice[e].paid
        /\ invoice'[e].net = invoice[e].net /\ invoice'[e].tax = invoice[e].tax
    BY <1>1, <1>6 DEF Invoice
  <2> QED
    BY <1>1, <1>6, <2>1
<1>7. CASE invoice[e].status \notin {"ABSENT", "DRAFT"}
             /\ \E n \in Nat \ {0} : n <= Total(e) /\ invoice'[e] = WithPaid(e, n)
  <2>1. PICK n \in Nat \ {0} : n <= Total(e) /\ invoice'[e] = WithPaid(e, n)
    BY <1>7
  <2>2. /\ invoice'[e].status = IF n >= Total(e) THEN "PAID" ELSE "PARTIAL"
        /\ invoice'[e].paid = n
        /\ invoice'[e].net = invoice[e].net /\ invoice'[e].tax = invoice[e].tax
    BY <1>1, <2>1 DEF WithPaid, Invoice
  <2>3. Total(e) \in Nat
    BY <1>1 DEF Invoice
  <2> QED
    BY <1>1, <2>1, <2>2, <2>3
<1> QED
  BY <1>0, <1>3, <1>4, <1>5, <1>6, <1>7 DEF RowStep

LEMMA ReadsFitStep ==
  ASSUME SettlementInv, [InvoicingNext]_vars
  PROVE  ReadsFit'
<1> USE DEF SettlementInv
<1> SUFFICES ASSUME NEW p \in Payers, payer'[p] # Idle
             PROVE  /\ Len(payer'[p].seen) <= Len(payer'[p].ask.parts)
                    /\ \A k \in 1 .. Len(payer'[p].seen) :
                         /\ invoice'[payer'[p].ask.parts[k].doc].status \notin {"ABSENT", "DRAFT"}
                         /\ payer'[p].seen[k] + payer'[p].ask.parts[k].amount
                              <= (invoice'[payer'[p].ask.parts[k].doc].net
                                   + invoice'[payer'[p].ask.parts[k].doc].tax)
  BY DEF ReadsFit, Total
<1>0. payer \in [Payers -> [ask : Settlements, seen : Seq(Nat)] \cup {Idle}]
  BY DEF InvoiceTypeOK
<1>1. CASE payer'[p] = payer[p]
  <2>1. /\ Len(payer[p].seen) <= Len(payer[p].ask.parts)
        /\ \A k \in 1 .. Len(payer[p].seen) :
             /\ invoice[payer[p].ask.parts[k].doc].status \notin {"ABSENT", "DRAFT"}
             /\ payer[p].seen[k] + payer[p].ask.parts[k].amount
                  <= Total(payer[p].ask.parts[k].doc)
    BY <1>1 DEF ReadsFit
  <2>2. payer[p].ask \in Settlements /\ payer[p].seen \in Seq(Nat)
    BY <1>1, PayerType
  <2>3. payer[p].ask.parts \in Seq(Part)
    BY <2>2, SettlementsAreSane
  <2>4. ASSUME NEW k \in 1 .. Len(payer[p].seen)
        PROVE  /\ invoice'[payer[p].ask.parts[k].doc].status \notin {"ABSENT", "DRAFT"}
               /\ payer[p].seen[k] + payer[p].ask.parts[k].amount
                    <= (invoice'[payer[p].ask.parts[k].doc].net
                         + invoice'[payer[p].ask.parts[k].doc].tax)
    <3> DEFINE d == payer[p].ask.parts[k].doc
    <3>1. k \in DOMAIN payer[p].ask.parts
      BY <2>1, <2>2, <2>3
    <3>2. d \in Docs
      BY <2>2, <3>1, PartType
    <3>3. invoice[d].status \notin {"ABSENT", "DRAFT"}
      BY <2>1
    <3>4. /\ invoice'[d].status \notin {"ABSENT", "DRAFT"}
          /\ invoice'[d].net + invoice'[d].tax = Total(d)
      BY <3>2, <3>3, RowStepFacts DEF Total
    <3> QED
      BY <2>1, <3>4
  <2> QED
    BY <1>1, <2>1, <2>4
<1>2. CASE \E s \in Settlements : BeginSettlement(p, s)
  <2>1. PICK s \in Settlements : payer' = [payer EXCEPT ![p] = [ask |-> s, seen |-> <<>>]]
    BY <1>2 DEF BeginSettlement
  <2>2. payer'[p] = [ask |-> s, seen |-> <<>>]
    BY <1>0, <2>1
  <2>3. Len(s.parts) \in Nat
    BY SettlementsAreSane
  <2> QED
    BY <2>2, <2>3
<1>3. CASE ReadInvoice(p)
  <2> DEFINE parts == payer[p].ask.parts
             seen == payer[p].seen
             n == Len(seen) + 1
             paid == invoice[parts[n].doc].paid
  <2>1. payer[p] # Idle
    BY <1>3 DEF ReadInvoice
  <2>2. payer[p].ask \in Settlements /\ seen \in Seq(Nat)
    BY <2>1, PayerType
  <2>3. parts \in Seq(Part)
    BY <2>2, SettlementsAreSane
  <2>4. /\ n <= Len(parts)
        /\ Payable(parts[n].doc)
        /\ parts[n].amount <= Outstanding(parts[n].doc)
        /\ invoice' = invoice
    BY <1>3 DEF ReadInvoice
  <2>5. payer' = [payer EXCEPT ![p] = [payer[p] EXCEPT !.seen = Append(seen, paid)]]
    BY <1>0, <1>3, Zenon DEF ReadInvoice
  <2>6. payer[p] \in [ask : Settlements, seen : Seq(Nat)]
    BY <1>0, <2>1
  <2>7. payer'[p].ask = payer[p].ask /\ payer'[p].seen = Append(seen, paid)
    BY <1>0, <2>5, <2>6
  <2>8. n \in DOMAIN parts
    BY <2>2, <2>3, <2>4
  <2>9. parts[n].doc \in Docs /\ parts[n].amount \in Nat
    BY <2>2, <2>8, PartType
  <2>10. invoice[parts[n].doc] \in Invoice
    BY <2>9 DEF InvoiceTypeOK
  <2>11. /\ invoice[parts[n].doc].status \notin {"ABSENT", "DRAFT"}
         /\ paid + parts[n].amount <= (invoice[parts[n].doc].net + invoice[parts[n].doc].tax)
    <3>1. \A a, b, c, d \in Nat : a <= (b + c) - d => d + a <= b + c
      OBVIOUS
    <3>2. /\ invoice[parts[n].doc].net \in Nat
          /\ invoice[parts[n].doc].tax \in Nat
          /\ paid \in Nat
      BY <2>10 DEF Invoice
    <3>3. parts[n].amount <= (invoice[parts[n].doc].net + invoice[parts[n].doc].tax) - paid
      BY <2>4 DEF Outstanding, Total
    <3>4. paid + parts[n].amount <= (invoice[parts[n].doc].net + invoice[parts[n].doc].tax)
      BY <2>9, <3>1, <3>2, <3>3
    <3> QED
      BY <2>4, <3>4 DEF Payable
  <2>12. \A k \in 1 .. Len(seen) :
           /\ invoice[parts[k].doc].status \notin {"ABSENT", "DRAFT"}
           /\ seen[k] + parts[k].amount <= (invoice[parts[k].doc].net + invoice[parts[k].doc].tax)
    BY <2>1 DEF ReadsFit, Total
  <2>13. paid \in Nat
    BY <2>10 DEF Invoice
  <2>14. /\ Len(Append(seen, paid)) = n
         /\ \A k \in 1 .. Len(seen) : Append(seen, paid)[k] = seen[k]
         /\ Append(seen, paid)[n] = paid
    BY <2>2, <2>13
  <2>15. \A k \in 1 .. n : k = n \/ k \in 1 .. Len(seen)
    BY <2>2
  <2> QED
    BY <2>4, <2>7, <2>11, <2>12, <2>14, <2>15
<1>4. payer'[p] = payer[p] \/ (\E s \in Settlements : BeginSettlement(p, s)) \/ ReadInvoice(p)
  <2>1. CASE \E q \in Payers, s \in Settlements : BeginSettlement(q, s)
    BY <1>0, <2>1 DEF BeginSettlement
  <2>2. CASE \E q \in Payers : ReadInvoice(q)
    BY <1>0, <2>2 DEF ReadInvoice
  <2>3. CASE \E q \in Payers : CommitSettlement(q)
    BY <1>0, <2>3 DEF CommitSettlement
  <2>4. CASE \E q \in Payers : AbortSettlement(q)
    BY <1>0, <2>4 DEF AbortSettlement
  <2>5. CASE UNCHANGED payer
    BY <2>5
  <2> QED
    BY <2>1, <2>2, <2>3, <2>4, <2>5
    DEF InvoicingNext, vars, invoiceVars, CreateDraft, UpdateDraft, IssueInvoice, VoidInvoice
<1> QED
  BY <1>1, <1>2, <1>3, <1>4

----------------------------------------------------------------------------
(* Theorems.                                                               *)

LEMMA SettlementInvInit == InvoicingInit => SettlementInv
<1> SUFFICES ASSUME InvoicingInit PROVE SettlementInv
  OBVIOUS
<1> DEFINE row == [status |-> "ABSENT", net |-> 0, tax |-> 0,
                   rate |-> RateUnit, paid |-> 0, number |-> 0]
<1>1. row \in Invoice
  BY TotalsAreSane DEF Invoice, Statuses
<1>2. invoice = [d \in Docs |-> row] /\ payer = [p \in Payers |-> Idle]
  BY DEF InvoicingInit
<1>3. invoice \in [Docs -> Invoice]
  BY <1>1, <1>2
<1>4. InvoiceTypeOK
  BY <1>2, <1>3 DEF InvoicingInit, InvoiceTypeOK
<1>5. StatusMatchesBalance
  BY <1>2 DEF StatusMatchesBalance
<1>6. ReadsFit
  BY <1>2 DEF ReadsFit
<1> QED
  BY <1>4, <1>5, <1>6 DEF SettlementInv

LEMMA SettlementInvStep == SettlementInv /\ [InvoicingNext]_vars => SettlementInv'
<1> SUFFICES ASSUME SettlementInv, [InvoicingNext]_vars PROVE SettlementInv'
  OBVIOUS
<1>1. InvoiceTypeOK'
  BY InvoiceTypeStep
<1>2. StatusMatchesBalance'
  BY RowStepFacts DEF StatusMatchesBalance
<1>3. ReadsFit'
  BY ReadsFitStep
<1> QED
  BY <1>1, <1>2, <1>3 DEF SettlementInv

\* The state of invoicing keeps its types: among them that no invoice is
\* numbered, billed or settled below zero.
THEOREM InvoicingTypeCorrect == InvoicingSpec => []InvoicingTypeOK
<1>1. InvoicingSpec => []SettlementInv
  BY SettlementInvInit, SettlementInvStep, PTL DEF InvoicingSpec
<1>2. SettlementInv /\ StockTypeOK => InvoicingTypeOK
  BY DEF SettlementInv, InvoicingTypeOK
<1> QED
  BY <1>1, <1>2, InvoicingUsesStock, StockTypeCorrect, PTL

\* However settlements overlap, with each other or with a void, an invoice is
\* never paid beyond its total and PAID means that nothing is outstanding.
\* The balance may be wrong (a payment may be lost); the status agrees with it.
THEOREM StatusAlwaysMatchesBalance == InvoicingSpec => []StatusMatchesBalance
<1>1. InvoicingSpec => []SettlementInv
  BY SettlementInvInit, SettlementInvStep, PTL DEF InvoicingSpec
<1>2. SettlementInv => StatusMatchesBalance
  BY DEF SettlementInv
<1> QED
  BY <1>1, <1>2, PTL

\* Types and balances together, as the run checks them.
THEOREM BalancesAlwaysSound == InvoicingSpec => []BalancesSound
<1>1. InvoicingTypeOK /\ StatusMatchesBalance => BalancesSound
  BY DEF BalancesSound
<1> QED
  BY <1>1, InvoicingTypeCorrect, StatusAlwaysMatchesBalance, PTL
----------------------------------------------------------------------------
(* Numbers and keys, of which nothing is said that needs a sum.            *)

\* A number is given when a draft is issued, never before and never again.
NumberedOnIssue ==
  \A d \in Docs : invoice[d].status \in {"ABSENT", "DRAFT"} => invoice[d].number = 0

NumberInv == NumberedOnIssue /\ NumbersGapless

LEMMA NumberInvInit == InvoicingInit => NumberInv
<1> SUFFICES ASSUME InvoicingInit PROVE NumberInv
  OBVIOUS
<1>1. lastNumber = 0 /\ \A d \in Docs : invoice[d].number = 0
  BY DEF InvoicingInit
<1>2. 1 .. lastNumber = {}
  BY <1>1
<1>3. {invoice[d].number : d \in Docs} \ {0} = {}
  BY <1>1
<1> QED
  BY <1>1, <1>2, <1>3 DEF NumberInv, NumberedOnIssue, NumbersGapless

\* Whatever is not an issue leaves every number alone.
LEMMA NumbersStay ==
  ASSUME SettlementInv, [InvoicingNext]_vars, \A d \in Docs : ~IssueInvoice(d)
  PROVE  /\ lastNumber' = lastNumber
         /\ \A d \in Docs : invoice'[d].number = invoice[d].number
<1> USE DEF SettlementInv
<1>0. \A d \in Docs : invoice[d] \in Invoice
  BY DEF InvoiceTypeOK
<1>1. CASE \E d \in Docs, t \in Totals : CreateDraft(d, t) \/ UpdateDraft(d, t)
  <2>1. PICK d \in Docs, t \in Totals : CreateDraft(d, t) \/ UpdateDraft(d, t)
    BY <1>1
  <2>2. Draft(d, t) /\ lastNumber' = lastNumber
    BY <2>1 DEF CreateDraft, UpdateDraft
  <2> QED
    BY <2>2, RowAfterDraft
<1>2. CASE \E d \in Docs : VoidInvoice(d)
  <2>1. PICK d \in Docs : VoidInvoice(d)
    BY <1>2
  <2>2. /\ \A e \in Docs \ {d} : invoice'[e] = invoice[e]
        /\ invoice'[d] = [invoice[d] EXCEPT !.status = "VOID"]
    BY <2>1, RowAfterVoid
  <2>3. invoice'[d].number = invoice[d].number
    BY <1>0, <2>2 DEF Invoice
  <2>4. lastNumber' = lastNumber
    BY <2>1 DEF VoidInvoice
  <2> QED
    BY <2>2, <2>3, <2>4
<1>3. CASE \E p \in Payers : CommitSettlement(p)
  <2>1. PICK p \in Payers : CommitSettlement(p)
    BY <1>3
  <2>2. \A d \in Docs : invoice'[d] = invoice[d] \/ \E n \in Nat : invoice'[d] = WithPaid(d, n)
    BY <2>1, RowAfterCommit
  <2>3. ASSUME NEW d \in Docs, NEW n \in Nat PROVE WithPaid(d, n).number = invoice[d].number
    BY <1>0 DEF WithPaid, Invoice
  <2>4. lastNumber' = lastNumber
    BY <2>1 DEF CommitSettlement
  <2> QED
    BY <2>2, <2>3, <2>4
<1>4. CASE UNCHANGED <<invoice, lastNumber>>
  BY <1>4
<1> QED
  BY <1>1, <1>2, <1>3, <1>4
  DEF InvoicingNext, vars, invoiceVars, BeginSettlement, ReadInvoice, AbortSettlement

LEMMA NumberInvStep ==
  ASSUME SettlementInv, NumberInv, [InvoicingNext]_vars
  PROVE  NumberInv'
<1> USE DEF NumberInv, SettlementInv
<1>0. lastNumber \in Nat /\ \A d \in Docs : invoice[d].number \in Nat
  BY DEF InvoiceTypeOK, Invoice
<1>1. CASE \E d \in Docs : IssueInvoice(d)
  <2>1. PICK d \in Docs : IssueInvoice(d)
    BY <1>1
  <2>2. /\ invoice[d].status = "DRAFT" /\ lastNumber' = lastNumber + 1
        /\ invoice[d].number = 0 /\ invoice[d] \in Invoice
    BY <2>1 DEF IssueInvoice, NextDocNumber, NumberedOnIssue, InvoiceTypeOK
  <2>3. /\ \A e \in Docs \ {d} : invoice'[e] = invoice[e]
        /\ invoice'[d] = [invoice[d] EXCEPT !.status = "ISSUED", !.number = lastNumber + 1]
    BY <1>0, <2>1, RowAfterIssue
  <2>4. /\ invoice'[d].number = lastNumber + 1 /\ invoice'[d].status = "ISSUED"
        /\ \A e \in Docs \ {d} : invoice'[e] = invoice[e]
    BY <2>2, <2>3 DEF Invoice
  <2>5. NumberedOnIssue'
    BY <2>4 DEF NumberedOnIssue
  <2>6. \A e \in Docs : invoice[e].number <= lastNumber
    <3>1. SUFFICES ASSUME NEW e \in Docs, invoice[e].number # 0
                   PROVE  invoice[e].number <= lastNumber
      BY <1>0
    <3>2. invoice[e].number \in {invoice[c].number : c \in Docs} \ {0}
      BY <3>1
    <3>3. invoice[e].number \in 1 .. lastNumber
      BY <3>2 DEF NumbersGapless
    <3> QED
      BY <3>3, <1>0
  <2>7. {invoice'[c].number : c \in Docs} \ {0}
          = ({invoice[c].number : c \in Docs} \ {0}) \cup {lastNumber + 1}
    <3> DEFINE N == {invoice[c].number : c \in Docs}
               M == {invoice'[c].number : c \in Docs}
    <3>1. lastNumber + 1 # 0
      BY <1>0
    <3>2. ASSUME NEW n \in M \ {0} PROVE n \in (N \ {0}) \cup {lastNumber + 1}
      <4>1. PICK c \in Docs : n = invoice'[c].number
        BY <3>2
      <4> QED
        BY <3>2, <4>1, <2>4
    <3>3. ASSUME NEW n \in N \ {0} PROVE n \in M
      <4>1. PICK c \in Docs : n = invoice[c].number
        BY <3>3
      <4>2. c # d
        BY <3>3, <4>1, <2>2
      <4> QED
        BY <4>1, <4>2, <2>4
    <3>4. lastNumber + 1 \in M
      BY <2>4
    <3> HIDE DEF N, M
    <3>5. M \ {0} = (N \ {0}) \cup {lastNumber + 1}
      BY <3>1, <3>2, <3>3, <3>4
    <3> QED
      BY <3>5 DEF N, M
  <2>8. {invoice'[c].number : c \in Docs} \ {0} = 1 .. (lastNumber + 1)
    <3>1. (1 .. lastNumber) \cup {lastNumber + 1} = 1 .. (lastNumber + 1)
      BY <1>0
    <3> QED
      BY <2>7, <3>1 DEF NumbersGapless
  <2>9. ASSUME NEW c \in Docs, NEW e \in Docs,
               invoice'[c].number = invoice'[e].number, invoice'[c].number # 0
        PROVE  c = e
    <3>1. CASE c # d /\ e # d
      BY <3>1, <2>4, <2>9 DEF NumbersGapless
    <3>2. \A f \in Docs \ {d} : invoice'[f].number # lastNumber + 1
      BY <1>0, <2>4, <2>6
    <3>3. CASE c = d \/ e = d
      BY <3>2, <3>3, <2>4, <2>9
    <3> QED
      BY <3>1, <3>3
  <2> QED
    BY <2>2, <2>5, <2>8, <2>9 DEF NumbersGapless
<1>2. CASE \A d \in Docs : ~IssueInvoice(d)
  <2>1. lastNumber' = lastNumber /\ \A d \in Docs : invoice'[d].number = invoice[d].number
    BY <1>2, NumbersStay
  <2>2. \A d \in Docs : invoice[d].status \notin {"ABSENT", "DRAFT"} =>
                           invoice'[d].status \notin {"ABSENT", "DRAFT"}
    BY RowStepFacts
  <2>3. NumberedOnIssue'
    BY <2>1, <2>2 DEF NumberedOnIssue
  <2>4. {invoice'[d].number : d \in Docs} = {invoice[d].number : d \in Docs}
    BY <2>1
  <2> QED
    BY <2>1, <2>3, <2>4 DEF NumbersGapless
<1> QED
  BY <1>1, <1>2

\* Invoice numbers have no holes and no duplicates, for any number of invoices,
\* whatever is voided, refused or paid beside them.
THEOREM NumbersAlwaysGapless == InvoicingSpec => []NumbersGapless
<1>1. InvoicingSpec => []SettlementInv
  BY SettlementInvInit, SettlementInvStep, PTL DEF InvoicingSpec
<1>2. NumberInv => NumbersGapless
  BY DEF NumberInv
<1> QED
  BY <1>1, <1>2, NumberInvInit, NumberInvStep, PTL DEF InvoicingSpec

\* A key pays once, however many processes took it up: the look-up inside the
\* commit stands for the unique index.
THEOREM KeyAlwaysPaysOnce == InvoicingSpec => []KeyPaysOnce
<1>1. InvoicingInit => KeyPaysOnce
  BY DEF InvoicingInit, KeyPaysOnce
<1>2. SettlementInv /\ KeyPaysOnce /\ [InvoicingNext]_vars => KeyPaysOnce'
  <2> SUFFICES ASSUME SettlementInv, KeyPaysOnce, [InvoicingNext]_vars PROVE KeyPaysOnce'
    OBVIOUS
  <2>1. CASE \E p \in Payers : CommitSettlement(p)
    <3>1. PICK p \in Payers : CommitSettlement(p)
      BY <2>1
    <3> DEFINE s == payer[p].ask
               new(d) == [key |-> s.key, line |-> s.line, doc |-> d, amount |-> AmountFor(s, d)]
    <3>2. /\ payer[p] # Idle /\ Fresh(s)
          /\ payments' = payments \cup {new(d) : d \in PartDocs(s)}
      BY <3>1 DEF CommitSettlement
    <3>3. s \in Settlements
      BY <3>2 DEF SettlementInv, InvoiceTypeOK
    <3>4. CASE s.key = NoKey
      BY <3>2, <3>4 DEF KeyPaysOnce
    <3>5. CASE s.key # NoKey
      <4>1. Len(s.parts) = 1 /\ s.parts \in Seq(Part)
        BY <3>3, <3>5, SettlementsAreSane
      <4>2. DOMAIN s.parts = {1}
        BY <4>1
      <4>3. PartDocs(s) = {s.parts[1].doc}
        BY <4>2 DEF PartDocs
      <4>4. payments' = payments \cup {new(s.parts[1].doc)}
        BY <3>2, <4>3
      <4>5. \A m \in payments : m.key # s.key
        BY <3>2, <3>5 DEF Fresh
      <4>6. new(s.parts[1].doc).key = s.key
        OBVIOUS
      <4> QED
        BY <4>4, <4>5, <4>6 DEF KeyPaysOnce
    <3> QED
      BY <3>4, <3>5
  <2>2. CASE UNCHANGED payments
    BY <2>2 DEF KeyPaysOnce
  <2> QED
    BY <2>1, <2>2
    DEF InvoicingNext, vars, invoiceVars, CreateDraft, UpdateDraft, IssueInvoice, VoidInvoice,
        BeginSettlement, ReadInvoice, AbortSettlement
<1>3. InvoicingSpec => []SettlementInv
  BY SettlementInvInit, SettlementInvStep, PTL DEF InvoicingSpec
<1> QED
  BY <1>1, <1>2, <1>3, PTL DEF InvoicingSpec
----------------------------------------------------------------------------
(* What settlements add up to.                                             *)

\* The sums of the properties, of any set of payments: as they are, at a rate,
\* and over the invoices of a settlement.
Amounts(T) == MapThenSumSet(LAMBDA m : m.amount, T)
InBase(rate, T) == MapThenSumSet(LAMBDA m : RoundHalfUp(m.amount * rate, RateUnit), T)
PartsSum(s, T) == MapThenSumSet(LAMBDA d : AmountFor(s, d), T)

LEMMA AmountsIs ==
  ASSUME NEW T, IsFiniteSet(T)
  PROVE  Amounts(T) = SumOf([m \in T |-> m.amount], T)
<1> DEFINE w == [m \in T |-> m.amount]
           E(i) == [s \in SUBSET T |-> IF s = {} THEN 0 ELSE Pick(s).amount + i[s \ {Pick(s)}]]
           h == CHOOSE i : i = E(i)
<1>1. Amounts(T) = h[T]
  BY Zenon DEF Amounts, MapThenSumSet, MapThenFoldSet, Pick
<1>2. \A s \in SUBSET T : s # {} => w[Pick(s)] = Pick(s).amount
  BY PickIn
<1>3. ASSUME NEW i PROVE SumEq(w, T, i) <=> i = E(i)
  <2>1. [s \in SUBSET T |-> IF s = {} THEN 0 ELSE w[Pick(s)] + i[s \ {Pick(s)}]] = E(i)
    BY <1>2
  <2> QED
    BY <2>1 DEF SumEq
<1> HIDE DEF E, w
<1>4. SumEq(w, T, h)
  <2>1. PICK g : SumEq(w, T, g)
    BY SumExists
  <2>2. h = E(h)
    BY <1>3, <2>1
  <2> HIDE DEF h
  <2> QED
    BY <1>3, <2>2
<1>5. h[T] = SumOf(w, T)
  <2> HIDE DEF h
  <2> QED
    BY <1>4, SumIs
<1> QED
  BY <1>1, <1>5 DEF w

LEMMA InBaseIs ==
  ASSUME NEW T, IsFiniteSet(T), NEW rate
  PROVE  InBase(rate, T) = SumOf([m \in T |-> RoundHalfUp(m.amount * rate, RateUnit)], T)
<1> DEFINE F(m) == RoundHalfUp(m.amount * rate, RateUnit)
           w == [m \in T |-> F(m)]
           E(i) == [s \in SUBSET T |-> IF s = {} THEN 0 ELSE F(Pick(s)) + i[s \ {Pick(s)}]]
           h == CHOOSE i : i = E(i)
<1>1. InBase(rate, T) = h[T]
  BY Zenon DEF InBase, MapThenSumSet, MapThenFoldSet, Pick
<1> HIDE DEF F
<1>2. \A s \in SUBSET T : s # {} => w[Pick(s)] = F(Pick(s))
  BY PickIn
<1>3. ASSUME NEW i PROVE SumEq(w, T, i) <=> i = E(i)
  <2>1. [s \in SUBSET T |-> IF s = {} THEN 0 ELSE w[Pick(s)] + i[s \ {Pick(s)}]] = E(i)
    BY <1>2
  <2> QED
    BY <2>1 DEF SumEq
<1> HIDE DEF E, w
<1>4. SumEq(w, T, h)
  <2>1. PICK g : SumEq(w, T, g)
    BY SumExists
  <2>2. h = E(h)
    BY <1>3, <2>1
  <2> HIDE DEF h
  <2> QED
    BY <1>3, <2>2
<1>5. h[T] = SumOf(w, T)
  <2> HIDE DEF h
  <2> QED
    BY <1>4, SumIs
<1> QED
  BY <1>1, <1>5 DEF w, F

LEMMA PartsSumIs ==
  ASSUME NEW T, IsFiniteSet(T), NEW s
  PROVE  PartsSum(s, T) = SumOf([d \in T |-> AmountFor(s, d)], T)
<1> DEFINE F(d) == AmountFor(s, d)
           w == [d \in T |-> F(d)]
           E(i) == [r \in SUBSET T |-> IF r = {} THEN 0 ELSE F(Pick(r)) + i[r \ {Pick(r)}]]
           h == CHOOSE i : i = E(i)
<1>1. PartsSum(s, T) = h[T]
  BY Zenon DEF PartsSum, MapThenSumSet, MapThenFoldSet, Pick
<1> HIDE DEF F
<1>2. \A r \in SUBSET T : r # {} => w[Pick(r)] = F(Pick(r))
  BY PickIn
<1>3. ASSUME NEW i PROVE SumEq(w, T, i) <=> i = E(i)
  <2>1. [r \in SUBSET T |-> IF r = {} THEN 0 ELSE w[Pick(r)] + i[r \ {Pick(r)}]] = E(i)
    BY <1>2
  <2> QED
    BY <2>1 DEF SumEq
<1> HIDE DEF E, w
<1>4. SumEq(w, T, h)
  <2>1. PICK g : SumEq(w, T, g)
    BY SumExists
  <2>2. h = E(h)
    BY <1>3, <2>1
  <2> HIDE DEF h
  <2> QED
    BY <1>3, <2>2
<1>5. h[T] = SumOf(w, T)
  <2> HIDE DEF h
  <2> QED
    BY <1>4, SumIs
<1> QED
  BY <1>1, <1>5 DEF w, F

\* One payment more.
LEMMA AmountsAdd ==
  ASSUME NEW T, IsFiniteSet(T), NEW x, x \notin T, \A m \in T \cup {x} : m.amount \in Nat
  PROVE  Amounts(T \cup {x}) = x.amount + Amounts(T)
<1> DEFINE U == T \cup {x}
           w == [m \in U |-> m.amount]
           v == [m \in T |-> m.amount]
<1>1. IsFiniteSet(U)
  BY FS_AddElement
<1>2. \A m \in U : w[m] \in Int
  OBVIOUS
<1>3. \A m \in T : w[m] = v[m]
  OBVIOUS
<1>4. w[x] = x.amount
  OBVIOUS
<1> HIDE DEF w, v
<1>5. Amounts(U) = SumOf(w, U)
  <2> HIDE DEF U
  <2> QED
    BY <1>1, AmountsIs DEF w
<1>6. Amounts(T) = SumOf(v, T)
  BY AmountsIs DEF v
<1>7. SumOf(v, T) = SumOf(w, T)
  BY <1>3, SumSame
<1>8. SumOf(w, U) = w[x] + SumOf(w, T)
  BY <1>2, SumAdd
<1> QED
  BY <1>4, <1>5, <1>6, <1>7, <1>8

LEMMA InBaseAdd ==
  ASSUME NEW T, IsFiniteSet(T), NEW x, x \notin T, NEW rate \in Nat,
         \A m \in T \cup {x} : m.amount \in Nat
  PROVE  InBase(rate, T \cup {x}) = RoundHalfUp(x.amount * rate, RateUnit) + InBase(rate, T)
<1> DEFINE U == T \cup {x}
           F(m) == RoundHalfUp(m.amount * rate, RateUnit)
           w == [m \in U |-> F(m)]
           v == [m \in T |-> F(m)]
<1>1. IsFiniteSet(U)
  BY FS_AddElement
<1>2. ASSUME NEW m \in U PROVE F(m) \in Int
  <2>1. m.amount * rate \in Nat /\ RateUnit \in Nat \ {0}
    BY TotalsAreSane
  <2> QED
    BY <2>1, RoundHalfUpType
<1>3. \A m \in T : w[m] = v[m]
  OBVIOUS
<1>4. w[x] = F(x)
  OBVIOUS
<1>5. \A m \in U : w[m] \in Int
  <2> HIDE DEF F
  <2> QED
    BY <1>2
<1> HIDE DEF w, v
<1>6. InBase(rate, U) = SumOf(w, U)
  <2> HIDE DEF U
  <2> QED
    BY <1>1, InBaseIs DEF w
<1>7. InBase(rate, T) = SumOf(v, T)
  BY InBaseIs DEF v
<1>8. SumOf(v, T) = SumOf(w, T)
  BY <1>3, SumSame
<1>9. SumOf(w, U) = w[x] + SumOf(w, T)
  BY <1>5, SumAdd
<1> QED
  BY <1>4, <1>6, <1>7, <1>8, <1>9

LEMMA NothingAddsUp ==
  /\ Amounts({}) = 0
  /\ \A rate : InBase(rate, {}) = 0
BY FS_EmptySet, AmountsIs, InBaseIs, SumEmpty

\* What the payments table says of itself: a payment is of an invoice that was
\* issued, has a key or else a bank line, and the line is marked as matched.
PaymentsMarked ==
  /\ IsFiniteSet(payments)
  /\ \A m \in payments :
       /\ invoice[m.doc].status \notin {"ABSENT", "DRAFT"}
       /\ m.key = NoKey <=> m.line # NoLine
       /\ m.line # NoLine => m.line \in matched

\* PaymentsJournalled and LineSettlesOnce, with their sums named.
Journalled == \A d \in Docs : ledger[d].settled = InBase(invoice[d].rate, PaymentsOf(d))

LinesSettled ==
  \A l \in BankLines :
    Amounts({m \in payments : m.line = l}) = IF l \in matched THEN LineAmount[l] ELSE 0

SettledInv == PaymentsMarked /\ Journalled /\ LinesSettled

LEMMA SumsNamed == Journalled /\ LinesSettled => PaymentsJournalled /\ LineSettlesOnce
<1>1. Journalled => PaymentsJournalled
  BY Zenon DEF Journalled, PaymentsJournalled, Base, InBase
<1>2. LinesSettled => LineSettlesOnce
  BY Zenon DEF LinesSettled, LineSettlesOnce, Amounts
<1> QED
  BY <1>1, <1>2

LEMMA SettledInvInit == InvoicingInit => SettledInv
<1> SUFFICES ASSUME InvoicingInit PROVE SettledInv
  OBVIOUS
<1>1. payments = {} /\ matched = {} /\ \A d \in Docs : ledger[d].settled = 0
  BY DEF InvoicingInit
<1>2. PaymentsMarked
  BY <1>1, FS_EmptySet DEF PaymentsMarked
<1>3. Journalled
  <2>1. \A d \in Docs : PaymentsOf(d) = {}
    BY <1>1 DEF PaymentsOf
  <2> QED
    BY <1>1, <2>1, NothingAddsUp DEF Journalled
<1>4. LinesSettled
  <2>1. \A l : {m \in payments : m.line = l} = {}
    BY <1>1
  <2> QED
    BY <1>1, <2>1, NothingAddsUp DEF LinesSettled
<1> QED
  BY <1>2, <1>3, <1>4 DEF SettledInv

\* What a commit adds to the table: one new payment for each of its invoices.
NewPayment(s, d) == [key |-> s.key, line |-> s.line, doc |-> d, amount |-> AmountFor(s, d)]
NewPayments(s) == {NewPayment(s, d) : d \in PartDocs(s)}

LEMMA CommitAdds ==
  ASSUME SettlementInv, SettledInv, NEW p \in Payers, CommitSettlement(p), NEW s, s = payer[p].ask
  PROVE  /\ s \in Settlements /\ AddsUp(s) /\ Fresh(s)
         /\ payments' = payments \cup NewPayments(s)
         /\ matched' = matched \cup ({s.line} \ {NoLine})
         /\ \A d \in Docs :
              ledger'[d].settled =
                IF d \in PartDocs(s) THEN ledger[d].settled + Posted(s, d) ELSE ledger[d].settled
         /\ \A d \in PartDocs(s) :
              /\ d \in Docs /\ AmountFor(s, d) \in Nat \ {0}
              /\ invoice[d].status \notin {"ABSENT", "DRAFT"}
              /\ NewPayment(s, d) \notin payments
         /\ IsFiniteSet(PartDocs(s))
<1>1. /\ payer[p] # Idle /\ Len(payer[p].seen) = Len(payer[p].ask.parts)
      /\ AddsUp(s) /\ Fresh(s)
      /\ matched' = matched \cup ({s.line} \ {NoLine})
  BY DEF CommitSettlement
<1>2. payments' = payments \cup NewPayments(s)
  BY DEF CommitSettlement, NewPayments, NewPayment
<1>3. s \in Settlements
  BY <1>1 DEF SettlementInv, InvoiceTypeOK
<1>4. ASSUME NEW d \in Docs
      PROVE  ledger'[d].settled =
               IF d \in PartDocs(s) THEN ledger[d].settled + Posted(s, d) ELSE ledger[d].settled
  <2>1. ledger[d] \in [billed : Nat, settled : Nat]
    BY DEF SettlementInv, InvoiceTypeOK
  <2>2. ledger'[d] = IF d \in PartDocs(s)
                     THEN [ledger[d] EXCEPT !.settled = ledger[d].settled + Posted(s, d)]
                     ELSE ledger[d]
    BY DEF CommitSettlement
  <2> QED
    BY <2>1, <2>2
<1>5. ASSUME NEW d \in PartDocs(s)
      PROVE  /\ d \in Docs /\ AmountFor(s, d) \in Nat \ {0}
             /\ invoice[d].status \notin {"ABSENT", "DRAFT"}
             /\ NewPayment(s, d) \notin payments
  <2>1. d \in Docs /\ AmountFor(s, d) \in Nat \ {0}
    BY <1>3, AmountForType
  <2>2. invoice[d].status \notin {"ABSENT", "DRAFT"}
    BY <1>1, SettledFits DEF SettlementInv
  <2>3. NewPayment(s, d) \notin payments
    <3> DEFINE n == NewPayment(s, d)
    <3>1. n.key = s.key /\ n.line = s.line
      BY DEF NewPayment
    <3>2. s.line \notin matched /\ (s.key # NoKey => \A m \in payments : m.key # s.key)
      BY <1>1 DEF Fresh
    <3>3. \A m \in payments : (m.key = NoKey <=> m.line # NoLine) /\ (m.line # NoLine => m.line \in matched)
      BY DEF SettledInv, PaymentsMarked
    <3> HIDE DEF n
    <3> QED
      BY <3>1, <3>2, <3>3 DEF n
  <2> QED
    BY <2>1, <2>2, <2>3
<1>6. IsFiniteSet(PartDocs(s))
  <2>1. PartDocs(s) \subseteq Docs
    BY <1>5
  <2> QED
    BY <2>1, SettlementsAreSane, FS_Subset
<1> QED
  BY <1>1, <1>2, <1>3, <1>4, <1>5, <1>6

\* An invoice that has left DRAFT keeps its amounts and its rate.
LEMMA RateStays ==
  ASSUME SettlementInv, [InvoicingNext]_vars, NEW e \in Docs,
         invoice[e].status \notin {"ABSENT", "DRAFT"}
  PROVE  /\ invoice'[e].status \notin {"ABSENT", "DRAFT"}
         /\ invoice'[e].rate = invoice[e].rate
         /\ invoice'[e].net = invoice[e].net /\ invoice'[e].tax = invoice[e].tax
<1> DEFINE Kept(row) == row.rate = invoice[e].rate /\ row.net = invoice[e].net
                          /\ row.tax = invoice[e].tax
<1>0. SUFFICES Kept(invoice'[e])
  BY RowStepFacts
<1>1. RowStep(e)
  BY EveryStepIsRowStep
<1>2. invoice[e] \in Invoice
  BY DEF SettlementInv, InvoiceTypeOK
<1>3. ASSUME NEW st \in Statuses
      PROVE  Kept([invoice[e] EXCEPT !.status = st])
  BY <1>2 DEF Invoice
<1>4. ASSUME NEW n \in Nat, NEW st \in Statuses
      PROVE  Kept([invoice[e] EXCEPT !.paid = n, !.status = st])
  BY <1>2 DEF Invoice
<1>5. CASE invoice'[e] = invoice[e]
  BY <1>5
<1>6. ASSUME NEW n \in Nat
      PROVE  Kept([invoice[e] EXCEPT !.status = "ISSUED", !.number = n])
  BY <1>2 DEF Invoice
<1>7. CASE invoice'[e] = [invoice[e] EXCEPT !.status = "VOID"]
  BY <1>3, <1>7 DEF Statuses
<1>8. CASE \E n \in Nat : invoice'[e] = WithPaid(e, n)
  <2>1. PICK n \in Nat : invoice'[e] = WithPaid(e, n)
    BY <1>8
  <2>2. PICK st \in Statuses : invoice'[e] = [invoice[e] EXCEPT !.paid = n, !.status = st]
    BY <2>1, Zenon DEF WithPaid, Statuses
  <2> QED
    BY <1>4, <2>2
<1> HIDE DEF Kept
<1> QED
  BY <1>1, <1>5, <1>6, <1>7, <1>8, Zenon DEF RowStep

\* Nothing but a commit touches the payments, the lines or what was settled.
LEMMA NothingSettled ==
  ASSUME SettlementInv, [InvoicingNext]_vars, \A p \in Payers : ~CommitSettlement(p)
  PROVE  /\ payments' = payments /\ matched' = matched
         /\ \A d \in Docs : ledger'[d].settled = ledger[d].settled
<1>0. ledger \in [Docs -> [billed : Nat, settled : Nat]]
  BY DEF SettlementInv, InvoiceTypeOK
<1>1. CASE \E d \in Docs : IssueInvoice(d)
  <2>1. PICK d \in Docs : IssueInvoice(d)
    BY <1>1
  <2>2. /\ ledger' = [ledger EXCEPT ![d].billed = Billed(d)]
        /\ payments' = payments /\ matched' = matched
    BY <2>1 DEF IssueInvoice
  <2> QED
    BY <1>0, <2>2
<1>2. CASE \E d \in Docs : VoidInvoice(d)
  <2>1. PICK d \in Docs : VoidInvoice(d)
    BY <1>2
  <2>2. /\ ledger' = [ledger EXCEPT ![d].billed = 0]
        /\ payments' = payments /\ matched' = matched
    BY <2>1 DEF VoidInvoice
  <2> QED
    BY <1>0, <2>2
<1>3. CASE UNCHANGED <<ledger, payments, matched>>
  BY <1>3
<1>4. ASSUME NEW d \in Docs, NEW t \in Totals, CreateDraft(d, t) \/ UpdateDraft(d, t)
      PROVE  UNCHANGED <<ledger, payments, matched>>
  BY <1>4 DEF CreateDraft, UpdateDraft
<1>5. ASSUME NEW p \in Payers,
             (\E s \in Settlements : BeginSettlement(p, s)) \/ ReadInvoice(p) \/ AbortSettlement(p)
      PROVE  UNCHANGED <<ledger, payments, matched>>
  BY <1>5 DEF BeginSettlement, ReadInvoice, AbortSettlement
<1>6. UNCHANGED invoiceVars \/ UNCHANGED vars => UNCHANGED <<ledger, payments, matched>>
  BY DEF vars, invoiceVars
<1> QED
  BY <1>1, <1>2, <1>3, <1>4, <1>5, <1>6, Zenon DEF InvoicingNext

LEMMA SettledInvStay ==
  ASSUME SettlementInv, SettledInv, [InvoicingNext]_vars, \A p \in Payers : ~CommitSettlement(p)
  PROVE  SettledInv'
<1>1. /\ payments' = payments /\ matched' = matched
      /\ \A d \in Docs : ledger'[d].settled = ledger[d].settled
  BY NothingSettled
<1>2. \A m \in payments : m.doc \in Docs /\ invoice[m.doc].status \notin {"ABSENT", "DRAFT"}
  BY DEF SettledInv, PaymentsMarked, SettlementInv, InvoiceTypeOK, Payment
<1>3. PaymentsMarked'
  <2>1. \A m \in payments : invoice'[m.doc].status \notin {"ABSENT", "DRAFT"}
    BY <1>2, RateStays
  <2> QED
    BY <1>1, <2>1 DEF SettledInv, PaymentsMarked
<1>4. ASSUME NEW d \in Docs
      PROVE  ledger'[d].settled = InBase(invoice'[d].rate, PaymentsOf(d)')
  <2>1. PaymentsOf(d)' = PaymentsOf(d)
    BY <1>1 DEF PaymentsOf
  <2>2. ledger[d].settled = InBase(invoice[d].rate, PaymentsOf(d))
    BY DEF SettledInv, Journalled
  <2>3. CASE PaymentsOf(d) = {}
    BY <1>1, <2>1, <2>2, <2>3, NothingAddsUp
  <2>4. CASE PaymentsOf(d) # {}
    <3>1. invoice[d].status \notin {"ABSENT", "DRAFT"}
      BY <1>2, <2>4 DEF PaymentsOf
    <3>2. invoice'[d].rate = invoice[d].rate
      BY <3>1, RateStays
    <3> QED
      BY <1>1, <2>1, <2>2, <3>2
  <2> QED
    BY <2>3, <2>4
<1>5. Journalled'
  BY <1>4 DEF Journalled
<1>6. LinesSettled'
  BY <1>1 DEF SettledInv, LinesSettled
<1> QED
  BY <1>3, <1>5, <1>6 DEF SettledInv

\* A committed settlement adds up to its bank line.
LEMMA NewAddsUp ==
  ASSUME NEW s \in Settlements, s.line # NoLine, AddsUp(s), IsFiniteSet(PartDocs(s))
  PROVE  Amounts(NewPayments(s)) = LineAmount[s.line]
<1> DEFINE S == PartDocs(s)
           f == [d \in S |-> NewPayment(s, d)]
           w == [d \in S |-> AmountFor(s, d)]
           T == {f[d] : d \in S}
           v == [m \in T |-> m.amount]
<1>1. LineAmount[s.line] = PartsSum(s, S)
  BY Zenon DEF AddsUp, PartsSum
<1>2. PartsSum(s, S) = SumOf(w, S)
  BY PartsSumIs
<1>3. T = NewPayments(s)
  BY DEF NewPayments
<1>4. \A d, e \in S : f[d] = f[e] => d = e
  BY DEF NewPayment
<1>5. \A d \in S : w[d] \in Int /\ v[f[d]] = w[d]
  <2>1. ASSUME NEW d \in S PROVE AmountFor(s, d) \in Int /\ f[d].amount = w[d] /\ f[d] \in T
    BY AmountForType DEF NewPayment
  <2> HIDE DEF f, w
  <2> QED
    BY <2>1, AmountForType DEF w
<1>6. IsFiniteSet(T)
  <2> HIDE DEF f
  <2> QED
    BY ImageFinite
<1> HIDE DEF S, f, w, v
<1>7. SumOf(v, T) = SumOf(w, S)
  BY <1>4, <1>5, SumRenamed DEF S
<1>8. Amounts(T) = SumOf(v, T)
  <2> HIDE DEF T
  <2> QED
    BY <1>6, AmountsIs DEF v
<1> QED
  BY <1>1, <1>2, <1>3, <1>7, <1>8

LEMMA SettledInvCommit ==
  ASSUME SettlementInv, SettledInv, [InvoicingNext]_vars, NEW p \in Payers, CommitSettlement(p)
  PROVE  SettledInv'
<1> DEFINE s == payer[p].ask
           S == PartDocs(s)
<1>1. /\ s \in Settlements /\ AddsUp(s) /\ Fresh(s)
      /\ payments' = payments \cup NewPayments(s)
      /\ matched' = matched \cup ({s.line} \ {NoLine})
      /\ IsFiniteSet(S)
  BY CommitAdds
<1>2. ASSUME NEW d \in S
      PROVE  /\ d \in Docs /\ AmountFor(s, d) \in Nat \ {0}
             /\ invoice[d].status \notin {"ABSENT", "DRAFT"}
             /\ NewPayment(s, d) \notin payments
  BY CommitAdds
<1>3. ASSUME NEW d \in Docs
      PROVE  ledger'[d].settled =
               IF d \in S THEN ledger[d].settled + Posted(s, d) ELSE ledger[d].settled
  BY CommitAdds
<1>4. /\ IsFiniteSet(payments)
      /\ \A m \in payments :
           /\ m.doc \in Docs /\ m.amount \in Nat
           /\ invoice[m.doc].status \notin {"ABSENT", "DRAFT"}
           /\ m.key = NoKey <=> m.line # NoLine
           /\ m.line # NoLine => m.line \in matched
  BY DEF SettledInv, PaymentsMarked, SettlementInv, InvoiceTypeOK, Payment
<1>5. (s.key = NoKey <=> s.line # NoLine) /\ s.line \in BankLines \cup {NoLine}
  BY <1>1, SettlementsAreSane
<1> HIDE DEF s
<1>6. \A d : /\ NewPayment(s, d).key = s.key /\ NewPayment(s, d).line = s.line
             /\ NewPayment(s, d).doc = d /\ NewPayment(s, d).amount = AmountFor(s, d)
  BY DEF NewPayment
<1>7. PaymentsMarked'
  <2>1. IsFiniteSet(NewPayments(s))
    <3> DEFINE f == [d \in S |-> NewPayment(s, d)]
    <3>1. NewPayments(s) = {f[d] : d \in S}
      BY DEF NewPayments
    <3> HIDE DEF f
    <3> QED
      BY <1>1, <3>1, ImageFinite
  <2>2. IsFiniteSet(payments')
    BY <1>1, <1>4, <2>1, FS_Union
  <2>3. ASSUME NEW m \in payments
        PROVE  /\ invoice'[m.doc].status \notin {"ABSENT", "DRAFT"}
               /\ m.key = NoKey <=> m.line # NoLine
               /\ m.line # NoLine => m.line \in matched'
    BY <1>1, <1>4, RateStays
  <2>4. ASSUME NEW d \in S
        PROVE  /\ invoice'[d].status \notin {"ABSENT", "DRAFT"}
               /\ s.key = NoKey <=> s.line # NoLine
               /\ s.line # NoLine => s.line \in matched'
    BY <1>1, <1>2, <1>5, RateStays
  <2>5. ASSUME NEW m \in NewPayments(s)
        PROVE  /\ invoice'[m.doc].status \notin {"ABSENT", "DRAFT"}
               /\ m.key = NoKey <=> m.line # NoLine
               /\ m.line # NoLine => m.line \in matched'
    <3>1. PICK d \in S : m = NewPayment(s, d)
      BY DEF NewPayments
    <3> QED
      BY <1>6, <2>4, <3>1
  <2> QED
    BY <1>1, <2>2, <2>3, <2>5 DEF PaymentsMarked
<1>8. ASSUME NEW d \in Docs
      PROVE  ledger'[d].settled = InBase(invoice'[d].rate, PaymentsOf(d)')
  <2> DEFINE n == NewPayment(s, d)
             T == PaymentsOf(d)
  <2>1. PaymentsOf(d)' = IF d \in S THEN T \cup {n} ELSE T
    BY <1>1, <1>6 DEF PaymentsOf, NewPayments
  <2>2. ledger[d].settled = InBase(invoice[d].rate, T)
    BY DEF SettledInv, Journalled
  <2>3. IsFiniteSet(T) /\ \A m \in T : m.amount \in Nat
    BY <1>4, FS_Subset DEF PaymentsOf
  <2>4. CASE d \in S
    <3>1. invoice'[d].rate = invoice[d].rate
      BY <1>2, <2>4, RateStays
    <3>2. n \notin T /\ n.amount = AmountFor(s, d) /\ AmountFor(s, d) \in Nat
      BY <1>2, <1>6, <2>4 DEF PaymentsOf
    <3>3. invoice[d].rate \in Nat /\ ledger[d].settled \in Nat
      BY DEF SettlementInv, InvoiceTypeOK, Invoice
    <3> HIDE DEF n, T
    <3>4. InBase(invoice[d].rate, T \cup {n})
            = RoundHalfUp(n.amount * invoice[d].rate, RateUnit) + InBase(invoice[d].rate, T)
      <4>1. \A m \in T \cup {n} : m.amount \in Nat
        BY <2>3, <3>2
      <4> QED
        BY <2>3, <3>2, <3>3, <4>1, InBaseAdd
    <3>5. Posted(s, d) = RoundHalfUp(n.amount * invoice[d].rate, RateUnit)
      BY <3>2 DEF Posted, Base
    <3>6. Posted(s, d) \in Nat
      BY <3>2, BaseType DEF Posted, SettlementInv
    <3> QED
      BY <1>3, <2>1, <2>2, <2>4, <3>1, <3>3, <3>4, <3>5, <3>6
  <2>5. CASE d \notin S
    <3>1. CASE T = {}
      BY <1>3, <2>1, <2>2, <2>5, <3>1, NothingAddsUp
    <3>2. CASE T # {}
      <4>1. invoice[d].status \notin {"ABSENT", "DRAFT"}
        BY <1>4, <3>2 DEF PaymentsOf
      <4>2. invoice'[d].rate = invoice[d].rate
        BY <4>1, RateStays
      <4> HIDE DEF T
      <4> QED
        BY <1>3, <2>1, <2>2, <2>5, <4>2
    <3> QED
      BY <3>1, <3>2
  <2> QED
    BY <2>4, <2>5
<1>9. ASSUME NEW l \in BankLines
      PROVE  Amounts({m \in payments' : m.line = l}) = IF l \in matched' THEN LineAmount[l] ELSE 0
  <2>1. \A m \in NewPayments(s) : m.line = s.line
    BY <1>6 DEF NewPayments
  <2>2. l # NoLine
    BY TotalsAreSane
  <2>3. CASE l = s.line
    <3>1. {m \in payments : m.line = l} = {}
      BY <1>1, <1>4, <2>2, <2>3 DEF Fresh
    <3>2. {m \in payments' : m.line = l} = NewPayments(s)
      BY <1>1, <2>1, <2>3, <3>1
    <3>3. l \in matched'
      BY <1>1, <2>2, <2>3
    <3>4. Amounts(NewPayments(s)) = LineAmount[l]
      BY <1>1, <2>2, <2>3, NewAddsUp
    <3> QED
      BY <3>2, <3>3, <3>4
  <2>4. CASE l # s.line
    <3>1. {m \in payments' : m.line = l} = {m \in payments : m.line = l}
      BY <1>1, <2>1, <2>4
    <3>2. l \in matched' <=> l \in matched
      BY <1>1, <2>4
    <3>3. Amounts({m \in payments : m.line = l}) = IF l \in matched THEN LineAmount[l] ELSE 0
      BY DEF SettledInv, LinesSettled
    <3> QED
      BY <3>1, <3>2, <3>3
  <2> QED
    BY <2>3, <2>4
<1> QED
  BY <1>7, <1>8, <1>9 DEF SettledInv, Journalled, LinesSettled

\* However settlements overlap, and whatever is voided beside them: a payment is
\* journalled once and for its amount, a bank line settles invoices once and for
\* exactly its amount, and a key pays once.
THEOREM SettlementsAlwaysSettleOnce == InvoicingSpec => []SettlesOnce
<1>1. InvoicingSpec => []SettlementInv
  BY SettlementInvInit, SettlementInvStep, PTL DEF InvoicingSpec
<1>2. SettlementInv /\ SettledInv /\ [InvoicingNext]_vars => SettledInv'
  BY SettledInvStay, SettledInvCommit
<1>3. SettledInv /\ KeyPaysOnce => SettlesOnce
  BY SumsNamed DEF SettledInv, SettlesOnce
<1> QED
  BY <1>1, <1>2, <1>3, SettledInvInit, KeyAlwaysPaysOnce, PTL DEF InvoicingSpec

----------------------------------------------------------------------------
(* Settlements in turn.  What a settlement read is still so when it commits, *)
(* and the invoice, its payments, the ledger and the shelf move together.    *)

Standing(d) == invoice[d].status \in {"ISSUED", "PARTIAL", "PAID"}

OneAtATime == \A p, q \in Payers : payer[p] # Idle /\ payer[q] # Idle => p = q

ReadsCurrent ==
  \A p \in Payers : payer[p] # Idle =>
    \A k \in 1 .. Len(payer[p].seen) :
      /\ payer[p].seen[k] = invoice[payer[p].ask.parts[k].doc].paid
      /\ Payable(payer[p].ask.parts[k].doc)

\* PaidIsReceived with its sum named.
PaidAddsUp == \A d \in Docs : invoice[d].paid = Amounts(PaymentsOf(d))

BilledWhileStanding ==
  \A d \in Docs : ledger[d].billed = IF Standing(d) THEN Billed(d) ELSE 0

InTurnInv == OneAtATime /\ ReadsCurrent /\ PaidAddsUp /\ BilledWhileStanding /\ StockFollowsInvoice

TurnInv == overlap \/ InTurnInv

LEMMA PaidNamed == PaidAddsUp => PaidIsReceived
BY Zenon DEF PaidAddsUp, PaidIsReceived, PaidTo, Amounts

\* Payments that add up to nothing are no payments.
LEMMA NoPayments ==
  ASSUME NEW T, IsFiniteSet(T), \A m \in T : m.amount \in Nat \ {0}, Amounts(T) = 0
  PROVE  T = {}
<1>1. SUFFICES ASSUME NEW x \in T PROVE FALSE
  OBVIOUS
<1> DEFINE R == T \ {x}
<1>2. IsFiniteSet(R) /\ x \notin R /\ T = R \cup {x}
  BY FS_RemoveElement
<1> HIDE DEF R
<1>3. \A m \in R \cup {x} : m.amount \in Nat
  BY <1>2
<1>4. Amounts(R \cup {x}) = x.amount + Amounts(R)
  BY <1>2, <1>3, AmountsAdd
<1>5. Amounts(R) \in Nat
  <2> DEFINE w == [m \in R |-> m.amount]
  <2>1. \A m \in R : w[m] \in Nat
    BY <1>2
  <2>2. Amounts(R) = SumOf(w, R)
    BY <1>2, AmountsIs
  <2> HIDE DEF w
  <2> QED
    BY <1>2, <2>1, <2>2, SumType
<1>6. x.amount \in Nat /\ x.amount # 0
  BY <1>2
<1> QED
  BY <1>2, <1>4, <1>5, <1>6

LEMMA Cancel ==
  ASSUME NEW u \in Nat \ {0}, NEW x \in Int, NEW y \in Int, u * x <= u * y
  PROVE  x <= y
<1>1. SUFFICES ASSUME x >= y + 1 PROVE FALSE
  OBVIOUS
<1>2. u * x >= u * (y + 1)
  BY <1>1
<1>3. u * (y + 1) = u * y + u /\ u * y \in Int
  OBVIOUS
<1> QED
  BY <1>2, <1>3

\* The three conversions of an invoice and one of each payment leave half a unit
\* each between the ledger and the invoice, and no more.
LEMMA RoundingOff ==
  ASSUME NEW u \in Nat \ {0}, NEW r \in Nat, NEW c \in Nat,
         NEW net \in Nat, NEW tax \in Nat, NEW paid \in Nat,
         NEW bn \in Nat, NEW bt \in Nat, NEW bo \in Nat, NEW got \in Int,
         (2 * u) * bn <= 2 * (net * r) + u, 2 * (net * r) <= (2 * u) * bn + u,
         (2 * u) * bt <= 2 * (tax * r) + u, 2 * (tax * r) <= (2 * u) * bt + u,
         (2 * u) * bo <= 2 * ((net + tax - paid) * r) + u,
         2 * ((net + tax - paid) * r) <= (2 * u) * bo + u,
         (2 * u) * got <= (2 * r) * paid + u * c, (2 * r) * paid <= (2 * u) * got + u * c
  PROVE  LET off == ((bn + bt) - got) - bo
         IN  2 * off <= 3 + c /\ -2 * off <= 3 + c
<1> DEFINE off == ((bn + bt) - got) - bo
<1>1. (net + tax - paid) * r = net * r + tax * r - paid * r /\ (2 * r) * paid = 2 * (paid * r)
  OBVIOUS
<1>2. /\ u * (2 * off) = (2 * u) * bn + (2 * u) * bt - (2 * u) * got - (2 * u) * bo
      /\ u * (-2 * off) = (2 * u) * got + (2 * u) * bo - (2 * u) * bn - (2 * u) * bt
      /\ u * (3 + c) = 3 * u + u * c
  OBVIOUS
<1>3. PICK N, X, P, A, B, O, G, C \in Int :
        /\ N = net * r /\ X = tax * r /\ P = paid * r /\ C = u * c
        /\ A = (2 * u) * bn /\ B = (2 * u) * bt /\ O = (2 * u) * bo /\ G = (2 * u) * got
  <2>1. /\ net * r \in Int /\ tax * r \in Int /\ paid * r \in Int /\ u * c \in Int
        /\ (2 * u) * bn \in Int /\ (2 * u) * bt \in Int /\ (2 * u) * bo \in Int
        /\ (2 * u) * got \in Int
    OBVIOUS
  <2> QED
    BY <2>1, Zenon
<1>4. u * (2 * off) <= u * (3 + c) /\ u * (-2 * off) <= u * (3 + c)
  BY <1>1, <1>2, <1>3
<1>5. off \in Int /\ 3 + c \in Int
  OBVIOUS
<1> HIDE DEF off
<1>6. 2 * off \in Int /\ -2 * off \in Int
  BY <1>5
<1>7. 2 * off <= 3 + c
  BY <1>4, <1>5, <1>6, Cancel
<1>8. -2 * off <= 3 + c
  BY <1>4, <1>5, <1>6, Cancel
<1> QED
  BY <1>7, <1>8 DEF off

LEMMA LedgerTellsOutstanding ==
  ASSUME SettlementInv, SettledInv, PaidAddsUp, BilledWhileStanding
  PROVE  ReceivablesReconcile
<1> SUFFICES ASSUME NEW d \in Docs
             PROVE  LET ar == ledger[d].billed - ledger[d].settled
                        off == ar - Base(d, Outstanding(d))
                        halves == 3 + Cardinality(PaymentsOf(d))
                    IN  IF Standing(d)
                        THEN 2 * off <= halves /\ -2 * off <= halves
                        ELSE ar = 0
  BY DEF ReceivablesReconcile, Standing
<1> DEFINE T == PaymentsOf(d)
           r == invoice[d].rate
           w == [m \in T |-> RoundHalfUp(m.amount * r, RateUnit)]
           v == [m \in T |-> m.amount]
<1>1. /\ invoice[d].net \in Nat /\ invoice[d].tax \in Nat /\ invoice[d].paid \in Nat
      /\ r \in Nat /\ RateUnit \in Nat \ {0} /\ invoice[d].status \in Statuses
  BY TotalsAreSane DEF SettlementInv, InvoiceTypeOK, Invoice
<1>2. IsFiniteSet(T) /\ \A m \in T : m.amount \in Nat \ {0}
  BY FS_Subset DEF SettledInv, PaymentsMarked, SettlementInv, InvoiceTypeOK, Payment, PaymentsOf
<1>3. ledger[d].settled = InBase(r, T) /\ invoice[d].paid = Amounts(T)
  BY DEF SettledInv, Journalled, PaidAddsUp
<1>4. CASE ~Standing(d)
  <2>1. invoice[d].paid = 0
    BY <1>1, <1>4 DEF Standing, Statuses, SettlementInv, StatusMatchesBalance
  <2>2. T = {}
    <3> HIDE DEF T
    <3> QED
      BY <1>2, <1>3, <2>1, NoPayments
  <2>3. ledger[d].settled = 0
    BY <1>3, <2>2, NothingAddsUp
  <2>4. ledger[d].billed = 0
    BY <1>4 DEF BilledWhileStanding
  <2> QED
    BY <1>4, <2>3, <2>4
<1>5. CASE Standing(d)
  <2>1. ASSUME NEW m \in T
        PROVE  /\ v[m] \in Int /\ w[m] \in Int
               /\ (2 * RateUnit) * w[m] <= (2 * r) * v[m] + RateUnit
               /\ (2 * r) * v[m] <= (2 * RateUnit) * w[m] + RateUnit
    <3> DEFINE n == m.amount * r
    <3>1. n \in Nat /\ v[m] = m.amount /\ v[m] \in Nat /\ (2 * r) * v[m] = 2 * n
      BY <1>1, <1>2
    <3>2. w[m] = RoundHalfUp(n, RateUnit)
      OBVIOUS
    <3> HIDE DEF n, w, v
    <3>3. w[m] \in Nat /\ (2 * RateUnit) * w[m] <= 2 * n + RateUnit
          /\ 2 * n <= (2 * RateUnit) * w[m] + RateUnit
      BY <1>1, <3>1, <3>2, RoundHalfUpNear
    <3> QED
      BY <3>1, <3>3
  <2>2. ledger[d].settled = SumOf(w, T) /\ invoice[d].paid = SumOf(v, T)
    BY <1>2, <1>3, InBaseIs, AmountsIs
  <2>3. 2 * RateUnit \in Int /\ 2 * r \in Int /\ RateUnit \in Nat
    BY <1>1
  <2> HIDE DEF w, v
  <2>4. /\ ledger[d].settled \in Int /\ Cardinality(T) \in Nat
        /\ (2 * RateUnit) * ledger[d].settled
             <= (2 * r) * invoice[d].paid + RateUnit * Cardinality(T)
        /\ (2 * r) * invoice[d].paid
             <= (2 * RateUnit) * ledger[d].settled + RateUnit * Cardinality(T)
    <3>1. /\ SumOf(w, T) \in Int /\ Cardinality(T) \in Nat
          /\ (2 * RateUnit) * SumOf(w, T) <= (2 * r) * SumOf(v, T) + RateUnit * Cardinality(T)
          /\ (2 * r) * SumOf(v, T) <= (2 * RateUnit) * SumOf(w, T) + RateUnit * Cardinality(T)
      <4> HIDE DEF T, r
      <4> QED
        BY <1>2, <2>1, <2>3, SumNear
    <3> QED
      BY <2>2, <3>1
  <2>5. invoice[d].paid <= invoice[d].net + invoice[d].tax
    BY <1>1, <1>5 DEF Standing, SettlementInv, StatusMatchesBalance, Total
  <2> DEFINE left == invoice[d].net + invoice[d].tax - invoice[d].paid
  <2>6. left \in Nat /\ Outstanding(d) = left
    BY <1>1, <2>5 DEF Outstanding, Total
  <2>7. ASSUME NEW n \in Nat
        PROVE  /\ Base(d, n) \in Nat
               /\ (2 * RateUnit) * Base(d, n) <= 2 * (n * r) + RateUnit
               /\ 2 * (n * r) <= (2 * RateUnit) * Base(d, n) + RateUnit
    <3>1. n * r \in Nat
      BY <1>1
    <3> QED
      BY <1>1, <3>1, RoundHalfUpNear DEF Base
  <2>8. ledger[d].billed = Base(d, invoice[d].net) + Base(d, invoice[d].tax)
    BY <1>5 DEF BilledWhileStanding, Billed
  <2>9. PICK bn, bt, bo \in Nat :
          /\ bn = Base(d, invoice[d].net) /\ bt = Base(d, invoice[d].tax) /\ bo = Base(d, left)
    BY <1>1, <2>6, <2>7
  <2>10. /\ (2 * RateUnit) * bn <= 2 * (invoice[d].net * r) + RateUnit
         /\ 2 * (invoice[d].net * r) <= (2 * RateUnit) * bn + RateUnit
    BY <1>1, <2>7, <2>9
  <2>11. /\ (2 * RateUnit) * bt <= 2 * (invoice[d].tax * r) + RateUnit
         /\ 2 * (invoice[d].tax * r) <= (2 * RateUnit) * bt + RateUnit
    BY <1>1, <2>7, <2>9
  <2>12. /\ (2 * RateUnit) * bo <= 2 * (left * r) + RateUnit
         /\ 2 * (left * r) <= (2 * RateUnit) * bo + RateUnit
    BY <2>6, <2>7, <2>9
  <2> HIDE DEF T, r
  <2>13. LET off == ((bn + bt) - ledger[d].settled) - bo
         IN  2 * off <= 3 + Cardinality(T) /\ -2 * off <= 3 + Cardinality(T)
    BY <1>1, <2>4, <2>10, <2>11, <2>12, RoundingOff
  <2> QED
    BY <1>5, <2>6, <2>8, <2>9, <2>13 DEF T
<1> QED
  BY <1>4, <1>5

\* Without an overlap, whatever is served is served while no settlement is under
\* way, or is a step of the only one.
Alone(p) == \A q \in Payers \ {p} : payer[q] = Idle /\ payer'[q] = Idle

SettlementStep(p) ==
  \/ \E s \in Settlements : BeginSettlement(p, s)
  \/ ReadInvoice(p)
  \/ CommitSettlement(p)
  \/ AbortSettlement(p)

OtherStep ==
  \/ \E d \in Docs, t \in Totals : CreateDraft(d, t) \/ UpdateDraft(d, t)
  \/ \E d \in Docs : IssueInvoice(d)
  \/ \E d \in Docs : VoidInvoice(d)
  \/ WarehouseStep /\ UNCHANGED invoiceVars
  \/ UNCHANGED vars

LEMMA ServedAlone ==
  ASSUME InvoiceTypeOK, TurnInv, [TurnNext]_turnVars, ~overlap'
  PROVE  /\ ~overlap /\ InTurnInv /\ [InvoicingNext]_vars
         /\ \/ OtherStep /\ payer' = payer
                 /\ (UNCHANGED vars \/ \A p \in Payers : payer[p] = Idle)
            \/ \E p \in Payers : SettlementStep(p) /\ Alone(p)
<1>0. payer \in [Payers -> [ask : Settlements, seen : Seq(Nat)] \cup {Idle}]
  BY DEF InvoiceTypeOK
<1>1. [InvoicingNext]_vars /\ (UNCHANGED vars \/ (InvoicingNext /\ InTurn)) /\ ~overlap
  <2>1. CASE TurnNext
    <3>1. InvoicingNext /\ overlap' = (overlap \/ ~InTurn)
      BY <2>1 DEF TurnNext
    <3>2. ASSUME overlap \/ ~InTurn PROVE FALSE
      <4>1. (overlap \/ ~InTurn) = TRUE
        BY <3>2, Zenon
      <4> QED
        BY <3>1, <4>1, Zenon
    <3> QED
      BY <3>1, <3>2, Zenon
  <2>2. CASE UNCHANGED turnVars
    BY <2>2 DEF turnVars
  <2> QED
    BY <2>1, <2>2
<1>2. InTurnInv
  BY <1>1 DEF TurnInv
<1>3. CASE UNCHANGED vars
  BY <1>1, <1>2, <1>3 DEF OtherStep, vars, invoiceVars
<1>4. CASE InvoicingNext /\ InTurn
  <2>1. CASE OtherStep /\ payer' = payer
    <3>1. \A p \in Payers : payer[p] = Idle
      BY <1>4, <2>1 DEF InTurn
    <3> QED
      BY <1>1, <1>2, <2>1, <3>1
  <2>2. ASSUME NEW p \in Payers, SettlementStep(p) PROVE Alone(p)
    <3>1. \A q \in Payers \ {p} : payer'[q] = payer[q]
      <4>1. ASSUME NEW s \in Settlements, BeginSettlement(p, s)
            PROVE  \A q \in Payers \ {p} : payer'[q] = payer[q]
        BY <1>0, <4>1 DEF BeginSettlement
      <4>2. ASSUME ReadInvoice(p) PROVE \A q \in Payers \ {p} : payer'[q] = payer[q]
        BY <1>0, <4>2 DEF ReadInvoice
      <4>3. ASSUME CommitSettlement(p) PROVE \A q \in Payers \ {p} : payer'[q] = payer[q]
        BY <1>0, <4>3 DEF CommitSettlement
      <4>4. ASSUME AbortSettlement(p) PROVE \A q \in Payers \ {p} : payer'[q] = payer[q]
        BY <1>0, <4>4 DEF AbortSettlement
      <4> QED
        BY <2>2, <4>1, <4>2, <4>3, <4>4, Zenon DEF SettlementStep
    <3>2. \A q \in Payers \ {p} : payer[q] = Idle
      BY <1>4, <3>1 DEF InTurn
    <3> QED
      BY <3>1, <3>2 DEF Alone
  <2>3. (OtherStep /\ payer' = payer) \/ \E p \in Payers : SettlementStep(p)
    <3>1. ASSUME NEW d \in Docs, NEW t \in Totals, CreateDraft(d, t) \/ UpdateDraft(d, t)
          PROVE  OtherStep /\ payer' = payer
      BY <3>1 DEF OtherStep, CreateDraft, UpdateDraft
    <3>2. ASSUME NEW d \in Docs, IssueInvoice(d)
          PROVE  OtherStep /\ payer' = payer
      BY <3>2, Zenon DEF OtherStep, IssueInvoice
    <3>3. ASSUME NEW d \in Docs, VoidInvoice(d)
          PROVE  OtherStep /\ payer' = payer
      BY <3>3, Zenon DEF OtherStep, VoidInvoice
    <3>4. ASSUME WarehouseStep /\ UNCHANGED invoiceVars
          PROVE  OtherStep /\ payer' = payer
      BY <3>4 DEF OtherStep, invoiceVars
    <3> QED
      BY <1>4, <3>1, <3>2, <3>3, <3>4, Zenon DEF InvoicingNext, SettlementStep
  <2> QED
    BY <1>1, <1>2, <2>1, <2>2, <2>3
<1> QED
  BY <1>1, <1>3, <1>4

\* What a commit writes back to an invoice is the invoice it read, so much more paid.
LEMMA CommitInTurn ==
  ASSUME SettlementInv, ReadsCurrent, NEW p \in Payers, CommitSettlement(p),
         NEW s, s = payer[p].ask
  PROVE  /\ \A d \in Docs \ PartDocs(s) : invoice'[d] = invoice[d]
         /\ \A d \in PartDocs(s) :
              /\ d \in Docs /\ Payable(d)
              /\ AmountFor(s, d) \in Nat \ {0}
              /\ invoice'[d] = WithPaid(d, invoice[d].paid + AmountFor(s, d))
<1> DEFINE parts == payer[p].ask.parts
<1>1. /\ payer[p] # Idle /\ Len(payer[p].seen) = Len(parts)
      /\ invoice' = [d \in Docs |-> IF d \in PartDocs(s) THEN Settled(d, payer[p]) ELSE invoice[d]]
  BY DEF CommitSettlement
<1>2. payer[p].ask \in Settlements /\ payer[p].seen \in Seq(Nat)
  BY <1>1, PayerType DEF SettlementInv
<1>3. parts \in Seq(Part)
  BY <1>2, SettlementsAreSane
<1>4. ASSUME NEW d \in PartDocs(s)
      PROVE  /\ d \in Docs /\ Payable(d)
             /\ AmountFor(s, d) \in Nat \ {0}
             /\ invoice'[d] = WithPaid(d, invoice[d].paid + AmountFor(s, d))
  <2>1. PICK k \in DOMAIN parts : k = PartFor(s, d)
    BY DEF PartDocs, PartFor
  <2>2. parts[k].doc = d
    BY <2>1 DEF PartDocs, PartFor
  <2>3. k \in 1 .. Len(payer[p].seen)
    BY <1>1, <1>2, <1>3
  <2>4. payer[p].seen[k] = invoice[d].paid /\ Payable(d)
    BY <1>1, <2>2, <2>3 DEF ReadsCurrent
  <2>5. d \in Docs /\ AmountFor(s, d) \in Nat \ {0}
    BY <1>2, AmountForType
  <2>6. Settled(d, payer[p]) = WithPaid(d, invoice[d].paid + AmountFor(s, d))
    BY <2>1, <2>4 DEF Settled
  <2> QED
    BY <1>1, <2>4, <2>5, <2>6
<1> QED
  BY <1>1, <1>4

\* Nothing but a commit changes what is paid.
LEMMA PaidStays ==
  ASSUME SettlementInv, [InvoicingNext]_vars, \A p \in Payers : ~CommitSettlement(p), NEW e \in Docs
  PROVE  invoice'[e].paid = invoice[e].paid
<1>0. invoice[e] \in Invoice /\ InvoiceTypeOK /\ lastNumber \in Nat
  BY DEF SettlementInv, InvoiceTypeOK
<1>1. ASSUME NEW d \in Docs, NEW t \in Totals, CreateDraft(d, t) \/ UpdateDraft(d, t)
      PROVE  invoice'[e].paid = invoice[e].paid
  <2>1. Draft(d, t)
    BY <1>1 DEF CreateDraft, UpdateDraft
  <2> QED
    BY <1>0, <2>1, RowAfterDraft
<1>2. ASSUME NEW d \in Docs, IssueInvoice(d)
      PROVE  invoice'[e].paid = invoice[e].paid
  <2>1. /\ \A c \in Docs \ {d} : invoice'[c] = invoice[c]
        /\ invoice'[d] = [invoice[d] EXCEPT !.status = "ISSUED", !.number = lastNumber + 1]
    BY <1>0, <1>2, RowAfterIssue, Zenon
  <2>2. CASE e = d
    BY <1>0, <2>1, <2>2 DEF Invoice
  <2> QED
    BY <2>1, <2>2
<1>3. ASSUME NEW d \in Docs, VoidInvoice(d)
      PROVE  invoice'[e].paid = invoice[e].paid
  <2>1. /\ \A c \in Docs \ {d} : invoice'[c] = invoice[c]
        /\ invoice'[d] = [invoice[d] EXCEPT !.status = "VOID"]
    BY <1>0, <1>3, RowAfterVoid, Zenon
  <2>2. CASE e = d
    BY <1>0, <2>1, <2>2 DEF Invoice
  <2> QED
    BY <2>1, <2>2
<1>4. CASE UNCHANGED invoice
  BY <1>4
<1>5. ASSUME NEW p \in Payers,
             (\E s \in Settlements : BeginSettlement(p, s)) \/ ReadInvoice(p) \/ AbortSettlement(p)
      PROVE  UNCHANGED invoice
  BY <1>5 DEF BeginSettlement, ReadInvoice, AbortSettlement
<1>6. UNCHANGED invoiceVars \/ UNCHANGED vars => UNCHANGED invoice
  BY DEF vars, invoiceVars
<1> QED
  BY <1>1, <1>2, <1>3, <1>4, <1>5, <1>6, Zenon DEF InvoicingNext

LEMMA TurnReads ==
  ASSUME InvoiceTypeOK, TurnInv, [TurnNext]_turnVars, ~overlap'
  PROVE  OneAtATime' /\ ReadsCurrent'
<1>0. payer \in [Payers -> [ask : Settlements, seen : Seq(Nat)] \cup {Idle}]
  BY DEF InvoiceTypeOK
<1>1. /\ InTurnInv
      /\ \/ OtherStep /\ payer' = payer
              /\ (UNCHANGED vars \/ \A p \in Payers : payer[p] = Idle)
         \/ \E p \in Payers : SettlementStep(p) /\ Alone(p)
  BY ServedAlone
<1>2. CASE UNCHANGED vars
  <2>1. UNCHANGED <<payer, invoice>>
    BY <1>2 DEF vars, invoiceVars
  <2> QED
    BY <1>1, <2>1 DEF InTurnInv, OneAtATime, ReadsCurrent, Payable
<1>3. CASE payer' = payer /\ \A p \in Payers : payer[p] = Idle
  BY <1>3 DEF OneAtATime, ReadsCurrent
<1>4. CASE \E p \in Payers : SettlementStep(p) /\ Alone(p)
  <2>1. PICK p \in Payers : SettlementStep(p) /\ Alone(p)
    BY <1>4
  <2>2. \A q \in Payers : payer'[q] # Idle => q = p
    BY <2>1 DEF Alone
  <2>3. OneAtATime'
    BY <2>2 DEF OneAtATime
  <2>4. SUFFICES ASSUME payer'[p] # Idle, NEW k \in 1 .. Len(payer'[p].seen)
                 PROVE  /\ payer'[p].seen[k] = invoice'[payer'[p].ask.parts[k].doc].paid
                        /\ invoice'[payer'[p].ask.parts[k].doc].status \in {"ISSUED", "PARTIAL"}
    BY <2>2, <2>3 DEF ReadsCurrent, Payable
  <2>5. CASE \E s \in Settlements : BeginSettlement(p, s)
    <3>1. PICK s \in Settlements : payer' = [payer EXCEPT ![p] = [ask |-> s, seen |-> <<>>]]
      BY <2>5 DEF BeginSettlement
    <3>2. payer'[p] = [ask |-> s, seen |-> <<>>]
      BY <1>0, <3>1
    <3> QED
      BY <2>4, <3>2
  <2>6. CASE ReadInvoice(p)
    <3> DEFINE parts == payer[p].ask.parts
               seen == payer[p].seen
    <3>0. PICK n : n = Len(seen) + 1
      OBVIOUS
    <3>1. payer[p] \in [ask : Settlements, seen : Seq(Nat)]
      BY <1>0, <2>6 DEF ReadInvoice
    <3>2. /\ n <= Len(parts) /\ Payable(parts[n].doc) /\ invoice' = invoice
          /\ payer' = [payer EXCEPT ![p] =
                         [payer[p] EXCEPT !.seen = Append(seen, invoice[parts[n].doc].paid)]]
      BY <1>0, <2>6, <3>0, Zenon DEF ReadInvoice
    <3> DEFINE paid == invoice[parts[n].doc].paid
    <3>3. payer'[p].ask = payer[p].ask /\ payer'[p].seen = Append(seen, paid)
      BY <1>0, <3>1, <3>2
    <3>4. n \in DOMAIN parts /\ parts[n].doc \in Docs
      <4>1. parts \in Seq(Part) /\ seen \in Seq(Nat) /\ payer[p].ask \in Settlements
        BY <3>1, SettlementsAreSane
      <4>2. n \in DOMAIN parts
        BY <3>0, <3>2, <4>1
      <4> QED
        BY <4>1, <4>2, PartType
    <3>5. paid \in Nat
      BY <3>4 DEF InvoiceTypeOK, Invoice
    <3>6. \A j \in 1 .. Len(seen) :
            seen[j] = invoice[parts[j].doc].paid /\ Payable(parts[j].doc)
      BY <1>1, <2>6 DEF InTurnInv, ReadsCurrent, ReadInvoice
    <3>7. /\ Append(seen, paid)[n] = paid /\ Len(Append(seen, paid)) = n
          /\ \A j \in 1 .. Len(seen) : Append(seen, paid)[j] = seen[j]
          /\ \A j \in 1 .. n : j = n \/ j \in 1 .. Len(seen)
      BY <3>0, <3>1, <3>5
    <3> HIDE DEF parts, seen
    <3>8. k = n \/ k \in 1 .. Len(seen)
      BY <2>4, <3>3, <3>7
    <3>9. CASE k = n
      BY <3>2, <3>3, <3>7, <3>9 DEF Payable, parts
    <3>10. CASE k \in 1 .. Len(seen)
      BY <3>2, <3>3, <3>6, <3>7, <3>10 DEF Payable, parts
    <3> QED
      BY <3>8, <3>9, <3>10
  <2>7. CASE CommitSettlement(p) \/ AbortSettlement(p)
    <3>1. payer' = [payer EXCEPT ![p] = Idle]
      BY <2>7 DEF CommitSettlement, AbortSettlement
    <3> QED
      BY <1>0, <2>4, <3>1
  <2> QED
    BY <2>1, <2>5, <2>6, <2>7, Zenon DEF SettlementStep
<1> QED
  BY <1>1, <1>2, <1>3, <1>4

LEMMA TurnPaid ==
  ASSUME SettlementInv, SettledInv, InTurnInv, [InvoicingNext]_vars
  PROVE  PaidAddsUp'
<1> SUFFICES ASSUME NEW d \in Docs
             PROVE  invoice'[d].paid = Amounts(PaymentsOf(d)')
  BY DEF PaidAddsUp
<1>0. invoice[d].paid = Amounts(PaymentsOf(d)) /\ invoice[d].paid \in Nat /\ invoice[d] \in Invoice
  BY DEF InTurnInv, PaidAddsUp, SettlementInv, InvoiceTypeOK, Invoice
<1>1. CASE \A p \in Payers : ~CommitSettlement(p)
  <2>1. payments' = payments /\ invoice'[d].paid = invoice[d].paid
    BY <1>1, NothingSettled, PaidStays
  <2>2. PaymentsOf(d)' = PaymentsOf(d)
    BY <2>1 DEF PaymentsOf
  <2> QED
    BY <1>0, <2>1, <2>2
<1>2. ASSUME NEW p \in Payers, CommitSettlement(p)
      PROVE  invoice'[d].paid = Amounts(PaymentsOf(d)')
  <2>1. PICK s : s = payer[p].ask
    OBVIOUS
  <2>2. /\ payments' = payments \cup NewPayments(s)
        /\ \A e \in PartDocs(s) : NewPayment(s, e) \notin payments
    BY <1>2, <2>1, CommitAdds
  <2>3. /\ \A e \in Docs \ PartDocs(s) : invoice'[e] = invoice[e]
        /\ \A e \in PartDocs(s) :
             /\ AmountFor(s, e) \in Nat \ {0}
             /\ invoice'[e] = WithPaid(e, invoice[e].paid + AmountFor(s, e))
    BY <1>2, <2>1, CommitInTurn DEF InTurnInv
  <2>4. \A e : NewPayment(s, e).doc = e /\ NewPayment(s, e).amount = AmountFor(s, e)
    BY DEF NewPayment
  <2> DEFINE n == NewPayment(s, d)
             T == PaymentsOf(d)
  <2>5. PaymentsOf(d)' = IF d \in PartDocs(s) THEN T \cup {n} ELSE T
    BY <2>2, <2>4 DEF PaymentsOf, NewPayments
  <2>6. CASE d \notin PartDocs(s)
    BY <1>0, <2>3, <2>5, <2>6
  <2>7. CASE d \in PartDocs(s)
    <3>1. n \notin T /\ n.amount = AmountFor(s, d) /\ AmountFor(s, d) \in Nat
      BY <2>2, <2>3, <2>4, <2>7 DEF PaymentsOf
    <3>2. IsFiniteSet(T) /\ \A m \in T : m.amount \in Nat
      BY FS_Subset DEF SettledInv, PaymentsMarked, SettlementInv, InvoiceTypeOK, Payment, PaymentsOf
    <3>3. invoice'[d].paid = invoice[d].paid + AmountFor(s, d)
      <4>1. \A x \in Nat : WithPaid(d, x).paid = x
        BY <1>0 DEF WithPaid, Invoice
      <4>2. invoice[d].paid + AmountFor(s, d) \in Nat
        BY <1>0, <3>1
      <4> QED
        BY <2>3, <2>7, <4>1, <4>2
    <3> HIDE DEF n, T
    <3>4. \A m \in T \cup {n} : m.amount \in Nat
      BY <3>1, <3>2
    <3>5. Amounts(T \cup {n}) = n.amount + Amounts(T)
      BY <3>1, <3>2, <3>4, AmountsAdd
    <3>6. invoice[d].paid = Amounts(T)
      BY <1>0 DEF T
    <3> QED
      BY <1>0, <2>5, <2>7, <3>1, <3>3, <3>5, <3>6
  <2> QED
    BY <2>6, <2>7
<1> QED
  BY <1>1, <1>2

LEMMA TurnBilled ==
  ASSUME SettlementInv, InTurnInv, [InvoicingNext]_vars, NEW d \in Docs
  PROVE  /\ ledger'[d].billed = IF Standing(d)' THEN Billed(d)' ELSE 0
         /\ (\A e \in Docs : ~IssueInvoice(e) /\ ~VoidInvoice(e)) => Standing(d)' = Standing(d)
<1>0. /\ invoice[d] \in Invoice /\ InvoiceTypeOK /\ lastNumber \in Nat
      /\ ledger \in [Docs -> [billed : Nat, settled : Nat]]
      /\ ledger[d] \in [billed : Nat, settled : Nat]
      /\ ledger[d].billed = IF Standing(d) THEN Billed(d) ELSE 0
  BY DEF SettlementInv, InvoiceTypeOK, InTurnInv, BilledWhileStanding
<1>1. ASSUME invoice'[d].rate = invoice[d].rate, invoice'[d].net = invoice[d].net,
             invoice'[d].tax = invoice[d].tax
      PROVE  Billed(d)' = Billed(d)
  BY <1>1 DEF Billed, Base
<1>2. CASE invoice'[d] = invoice[d] /\ ledger'[d].billed = ledger[d].billed
  <2>1. Standing(d)' = Standing(d) /\ Billed(d)' = Billed(d)
    BY <1>1, <1>2 DEF Standing
  <2> QED
    BY <1>0, <1>2, <2>1
<1>3. ASSUME NEW e \in Docs, NEW t \in Totals, CreateDraft(e, t) \/ UpdateDraft(e, t)
      PROVE  /\ ledger'[d].billed = IF Standing(d)' THEN Billed(d)' ELSE 0
             /\ Standing(d)' = Standing(d)
  <2>1. /\ Draft(e, t) /\ invoice[e].status \in {"ABSENT", "DRAFT"} /\ ledger' = ledger
    BY <1>3 DEF CreateDraft, UpdateDraft
  <2>2. invoice'[e].status = "DRAFT" /\ \A c \in Docs \ {e} : invoice'[c] = invoice[c]
    BY <1>0, <2>1, RowAfterDraft
  <2>3. CASE d = e
    BY <1>0, <2>1, <2>2, <2>3 DEF Standing
  <2> QED
    BY <1>2, <2>1, <2>2, <2>3 DEF Standing
<1>4. ASSUME NEW e \in Docs, IssueInvoice(e)
      PROVE  ledger'[d].billed = IF Standing(d)' THEN Billed(d)' ELSE 0
  <2>1. /\ \A c \in Docs \ {e} : invoice'[c] = invoice[c]
        /\ invoice'[e] = [invoice[e] EXCEPT !.status = "ISSUED", !.number = lastNumber + 1]
    BY <1>0, <1>4, RowAfterIssue, Zenon
  <2>2. ledger' = [ledger EXCEPT ![e].billed = Billed(e)]
    BY <1>4 DEF IssueInvoice
  <2>3. CASE d = e
    <3>1. ledger'[d].billed = Billed(d)
      BY <1>0, <2>2, <2>3
    <3>2. /\ invoice'[d].status = "ISSUED" /\ invoice'[d].rate = invoice[d].rate
          /\ invoice'[d].net = invoice[d].net /\ invoice'[d].tax = invoice[d].tax
      BY <1>0, <2>1, <2>3 DEF Invoice
    <3> QED
      BY <1>1, <3>1, <3>2 DEF Standing
  <2> QED
    BY <1>0, <1>2, <2>1, <2>2, <2>3
<1>5. ASSUME NEW e \in Docs, VoidInvoice(e)
      PROVE  ledger'[d].billed = IF Standing(d)' THEN Billed(d)' ELSE 0
  <2>1. /\ \A c \in Docs \ {e} : invoice'[c] = invoice[c]
        /\ invoice'[e] = [invoice[e] EXCEPT !.status = "VOID"]
    BY <1>0, <1>5, RowAfterVoid, Zenon
  <2>2. ledger' = [ledger EXCEPT ![e].billed = 0]
    BY <1>5 DEF VoidInvoice
  <2>3. CASE d = e
    <3>1. ledger'[d].billed = 0 /\ invoice'[d].status = "VOID"
      BY <1>0, <2>1, <2>2, <2>3 DEF Invoice
    <3> QED
      BY <3>1 DEF Standing
  <2> QED
    BY <1>0, <1>2, <2>1, <2>2, <2>3
<1>6. ASSUME NEW p \in Payers, CommitSettlement(p)
      PROVE  /\ ledger'[d].billed = IF Standing(d)' THEN Billed(d)' ELSE 0
             /\ Standing(d)' = Standing(d)
  <2>1. PICK s : s = payer[p].ask
    OBVIOUS
  <2>2. /\ \A e \in Docs \ PartDocs(s) : invoice'[e] = invoice[e]
        /\ \A e \in PartDocs(s) :
             /\ Payable(e) /\ AmountFor(s, e) \in Nat \ {0}
             /\ invoice'[e] = WithPaid(e, invoice[e].paid + AmountFor(s, e))
    BY <1>6, <2>1, CommitInTurn DEF InTurnInv
  <2>3. ledger'[d].billed = ledger[d].billed
    <3>1. ledger'[d] = IF d \in PartDocs(s)
                       THEN [ledger[d] EXCEPT !.settled = ledger[d].settled + Posted(s, d)]
                       ELSE ledger[d]
      BY <1>6, <2>1 DEF CommitSettlement
    <3> QED
      BY <1>0, <3>1
  <2>4. CASE d \in PartDocs(s)
    <3>1. Standing(d) /\ invoice[d].status \notin {"ABSENT", "DRAFT"}
      BY <2>2, <2>4 DEF Payable, Standing
    <3>2. /\ invoice'[d].rate = invoice[d].rate /\ invoice'[d].net = invoice[d].net
          /\ invoice'[d].tax = invoice[d].tax
      BY <3>1, RateStays
    <3>3. \A n : WithPaid(d, n).status \in {"PAID", "PARTIAL"}
      BY <1>0 DEF WithPaid, Invoice
    <3>4. Standing(d)'
      BY <2>2, <2>4, <3>3 DEF Standing
    <3>5. Billed(d)' = Billed(d)
      BY <1>1, <3>2
    <3>6. Standing(d) = TRUE /\ Standing(d)' = TRUE
      BY <3>1, <3>4 DEF Standing
    <3> QED
      BY <1>0, <2>3, <3>1, <3>4, <3>5, <3>6
  <2> QED
    BY <1>2, <2>2, <2>3, <2>4 DEF Standing
<1>7. CASE UNCHANGED <<invoice, ledger>>
  BY <1>2, <1>7 DEF Standing
<1>8. ASSUME NEW p \in Payers,
             (\E s \in Settlements : BeginSettlement(p, s)) \/ ReadInvoice(p) \/ AbortSettlement(p)
      PROVE  UNCHANGED <<invoice, ledger>>
  BY <1>8 DEF BeginSettlement, ReadInvoice, AbortSettlement
<1>9. UNCHANGED invoiceVars \/ UNCHANGED vars => UNCHANGED <<invoice, ledger>>
  BY DEF vars, invoiceVars
<1> QED
  BY <1>3, <1>4, <1>5, <1>6, <1>7, <1>8, <1>9, Zenon DEF InvoicingNext

\* What an invoice has out, as StockFollowsInvoice has it.
OutOf(d) == {i \in Sold(d) : Returns(d, i) = {}}

LEMMA OutStays ==
  ASSUME LedgerInv, NEW d,
         \A i \in Items :
           \/ history'[i] = history[i]
           \/ \E m \in Movement : history'[i] = Append(history[i], m) /\ m.doc # d
  PROVE  OutOf(d)' = OutOf(d)
<1>1. ASSUME NEW i \in Items
      PROVE  Sales(d, i)' = Sales(d, i) /\ Returns(d, i)' = Returns(d, i)
  <2>1. CASE history'[i] = history[i]
    BY <2>1 DEF Sales, Returns
  <2>2. CASE \E m \in Movement : history'[i] = Append(history[i], m) /\ m.doc # d
    <3>1. PICK m \in Movement : history'[i] = Append(history[i], m) /\ m.doc # d
      BY <2>2
    <3>2. history[i] \in Seq(Movement)
      BY DEF LedgerInv, StockTypeOK
    <3>3. PICK n : n = Len(history[i]) + 1
      OBVIOUS
    <3> QED
      BY <3>1, <3>2, <3>3, SalesAfter
  <2> QED
    BY <2>1, <2>2
<1> QED
  BY <1>1 DEF OutOf, Sold

LEMMA OutAfterIssue ==
  ASSUME LedgerInv, HistoryInv, NEW d \in Docs, IssueStock(d)
  PROVE  /\ OutOf(d)' = Wanted(d)
         /\ \A e \in Docs \ {d} : OutOf(e)' = OutOf(e)
<1>0. Sold(d) = {}
  BY DEF IssueStock
<1>1. ASSUME NEW i \in Items
      PROVE  /\ Sales(d, i) = {} /\ Returns(d, i) = {}
  BY <1>0 DEF Sold, HistoryInv, SoldOnce
<1>2. ASSUME NEW i \in Wanted(d)
      PROVE  Sales(d, i)' # {} /\ Returns(d, i)' = {}
  <2>1. i \in Items
    BY DEF Wanted
  <2>2. PICK m \in Movement : Extended(i, m) /\ Answers(i, m) /\ m.doc = d
    BY <2>1, IssueStockMoves
  <2>3. m.delta < 0 /\ m.delta \in Int
    BY <1>0, <2>2 DEF Answers, Movement
  <2>4. PICK n : n = Len(history[i]) + 1
    OBVIOUS
  <2>5. history[i] \in Seq(Movement) /\ history'[i] = Append(history[i], m)
    BY <2>1, <2>2 DEF LedgerInv, StockTypeOK, Extended
  <2>6. /\ Sales(d, i)' = IF m.doc = d /\ m.delta < 0 THEN Sales(d, i) \cup {n} ELSE Sales(d, i)
        /\ Returns(d, i)' = IF m.doc = d /\ m.delta > 0 THEN Returns(d, i) \cup {n} ELSE Returns(d, i)
    BY <2>1, <2>4, <2>5, SalesAfter
  <2> QED
    BY <1>1, <2>1, <2>2, <2>3, <2>6
<1>3. ASSUME NEW i \in Items \ Wanted(d)
      PROVE  Sales(d, i)' = {}
  <2>1. history'[i] = history[i]
    BY IssueStockMoves
  <2> QED
    BY <1>1, <2>1 DEF Sales
<1>4. OutOf(d)' = Wanted(d)
  BY <1>2, <1>3 DEF OutOf, Sold, Wanted
<1>5. ASSUME NEW e \in Docs \ {d} PROVE OutOf(e)' = OutOf(e)
  <2>1. \A i \in Items :
           \/ history'[i] = history[i]
           \/ \E m \in Movement : history'[i] = Append(history[i], m) /\ m.doc # e
    BY IssueStockMoves DEF Extended
  <2> QED
    BY <2>1, OutStays
<1> QED
  BY <1>4, <1>5

LEMMA OutAfterReturn ==
  ASSUME LedgerInv, NEW d \in Docs, ReturnStock(d)
  PROVE  /\ OutOf(d)' = {}
         /\ \A e \in Docs \ {d} : OutOf(e)' = OutOf(e)
<1>1. ASSUME NEW i \in Sold(d) PROVE Returns(d, i)' # {}
  <2>1. i \in Items
    BY DEF Sold
  <2>2. PICK m \in Movement : Extended(i, m) /\ m.doc = d /\ m.delta > 0
    BY <2>1, ReturnStockMoves
  <2>3. PICK n : n = Len(history[i]) + 1
    OBVIOUS
  <2>4. history[i] \in Seq(Movement) /\ history'[i] = Append(history[i], m)
    BY <2>1, <2>2 DEF LedgerInv, StockTypeOK, Extended
  <2>5. Returns(d, i)' = IF m.doc = d /\ m.delta > 0 THEN Returns(d, i) \cup {n} ELSE Returns(d, i)
    BY <2>1, <2>3, <2>4, SalesAfter
  <2> QED
    BY <2>2, <2>5
<1>2. ASSUME NEW i \in Items \ Sold(d) PROVE Sales(d, i)' = {}
  <2>1. history'[i] = history[i]
    BY ReturnStockMoves
  <2> QED
    BY <2>1 DEF Sales, Sold
<1>3. OutOf(d)' = {}
  BY <1>1, <1>2 DEF OutOf, Sold
<1>4. ASSUME NEW e \in Docs \ {d} PROVE OutOf(e)' = OutOf(e)
  <2>1. \A i \in Items :
           \/ history'[i] = history[i]
           \/ \E m \in Movement : history'[i] = Append(history[i], m) /\ m.doc # e
    BY ReturnStockMoves DEF Extended
  <2> QED
    BY <2>1, OutStays
<1> QED
  BY <1>3, <1>4

LEMMA TurnStock ==
  ASSUME LedgerInv, HistoryInv, SettlementInv, InTurnInv, [InvoicingNext]_vars
  PROVE  StockFollowsInvoice'
<1> SUFFICES ASSUME NEW d \in Docs
             PROVE  OutOf(d)' = IF Standing(d)' THEN Wanted(d) ELSE {}
  BY DEF StockFollowsInvoice, OutOf, Standing, Wanted
<1>0. /\ OutOf(d) = IF Standing(d) THEN Wanted(d) ELSE {}
      /\ invoice[d] \in Invoice /\ InvoiceTypeOK /\ lastNumber \in Nat
  BY DEF InTurnInv, StockFollowsInvoice, OutOf, Standing, SettlementInv, InvoiceTypeOK
<1>1. CASE \E e \in Docs : IssueInvoice(e)
  <2>1. PICK e \in Docs : IssueInvoice(e)
    BY <1>1
  <2>2. /\ \A c \in Docs \ {e} : invoice'[c] = invoice[c]
        /\ invoice'[e] = [invoice[e] EXCEPT !.status = "ISSUED", !.number = lastNumber + 1]
    BY <1>0, <2>1, RowAfterIssue, Zenon
  <2>3. IssueStock(e)
    BY <2>1, Zenon DEF IssueInvoice
  <2>4. OutOf(e)' = Wanted(e) /\ \A c \in Docs \ {e} : OutOf(c)' = OutOf(c)
    BY <2>3, OutAfterIssue
  <2>5. CASE d = e
    <3>1. invoice'[d].status = "ISSUED"
      BY <1>0, <2>2, <2>5 DEF Invoice
    <3> QED
      BY <2>4, <2>5, <3>1 DEF Standing
  <2>6. CASE d # e
    <3>1. invoice'[d] = invoice[d] /\ OutOf(d)' = OutOf(d)
      BY <2>2, <2>4, <2>6
    <3> QED
      BY <1>0, <3>1 DEF Standing
  <2> QED
    BY <2>5, <2>6
<1>2. CASE \E e \in Docs : VoidInvoice(e)
  <2>1. PICK e \in Docs : VoidInvoice(e)
    BY <1>2
  <2>2. /\ \A c \in Docs \ {e} : invoice'[c] = invoice[c]
        /\ invoice'[e] = [invoice[e] EXCEPT !.status = "VOID"]
    BY <1>0, <2>1, RowAfterVoid, Zenon
  <2>3. OutOf(e)' = {} /\ \A c \in Docs \ {e} : OutOf(c)' = OutOf(c)
    <3>1. CASE Sold(e) = {}
      <4>1. history' = history
        BY <2>1, <3>1 DEF VoidInvoice, stockVars
      <4>2. \A c \in Docs : OutOf(c)' = OutOf(c)
        BY <4>1, OutStays
      <4>3. OutOf(e) = {}
        BY <3>1 DEF OutOf
      <4> QED
        BY <4>2, <4>3
    <3>2. CASE Sold(e) # {}
      <4>1. ReturnStock(e)
        BY <2>1, <3>2, Zenon DEF VoidInvoice
      <4> QED
        BY <4>1, OutAfterReturn
    <3> QED
      BY <3>1, <3>2
  <2>5. CASE d = e
    <3>1. invoice'[d].status = "VOID"
      BY <1>0, <2>2, <2>5 DEF Invoice
    <3> QED
      BY <2>3, <2>5, <3>1 DEF Standing
  <2>6. CASE d # e
    <3>1. invoice'[d] = invoice[d] /\ OutOf(d)' = OutOf(d)
      BY <2>2, <2>3, <2>6
    <3> QED
      BY <1>0, <3>1 DEF Standing
  <2> QED
    BY <2>5, <2>6
<1>3. CASE \A e \in Docs : ~IssueInvoice(e) /\ ~VoidInvoice(e)
  <2>1. Standing(d)' = Standing(d)
    BY <1>3, TurnBilled
  <2>2. \A i \in Items : PlainMoves(i)
    <3>1. CASE WarehouseStep
      BY <3>1, WarehouseMoves
    <3>2. CASE UNCHANGED stockVars
      BY <3>2 DEF stockVars, PlainMoves
    <3>3. ASSUME NEW e \in Docs, NEW t \in Totals, CreateDraft(e, t) \/ UpdateDraft(e, t)
          PROVE  UNCHANGED stockVars
      BY <3>3 DEF CreateDraft, UpdateDraft
    <3>4. ASSUME NEW p \in Payers,
                 (\E s \in Settlements : BeginSettlement(p, s)) \/ ReadInvoice(p)
                   \/ CommitSettlement(p) \/ AbortSettlement(p)
          PROVE  UNCHANGED stockVars
      BY <3>4 DEF BeginSettlement, ReadInvoice, CommitSettlement, AbortSettlement
    <3>5. UNCHANGED vars => UNCHANGED stockVars
      BY DEF vars
    <3> QED
      BY <1>3, <3>1, <3>2, <3>3, <3>4, <3>5, Zenon DEF InvoicingNext
  <2>3. \A i \in Items :
           \/ history'[i] = history[i]
           \/ \E m \in Movement : history'[i] = Append(history[i], m) /\ m.doc # d
    BY <2>2, ConstantsAreSane DEF PlainMoves, Extended
  <2>4. OutOf(d)' = OutOf(d)
    BY <2>3, OutStays
  <2> QED
    BY <1>0, <2>1, <2>4
<1> QED
  BY <1>1, <1>2, <1>3

\* A void invoice is paid by no step, unless a settlement read it before.
LEMMA TurnVoid ==
  ASSUME SettlementInv, InTurnInv, [InvoicingNext]_vars,
         NEW d \in Docs, invoice[d].status = "VOID"
  PROVE  invoice'[d].status = "VOID"
<1>0. invoice[d] \in Invoice /\ invoice[d].paid = 0
  BY DEF SettlementInv, InvoiceTypeOK, StatusMatchesBalance
<1>1. CASE \E p \in Payers : CommitSettlement(p)
  <2>1. PICK p \in Payers : CommitSettlement(p)
    BY <1>1
  <2>2. PICK s : s = payer[p].ask
    OBVIOUS
  <2>3. /\ \A e \in Docs \ PartDocs(s) : invoice'[e] = invoice[e]
        /\ \A e \in PartDocs(s) : Payable(e)
    BY <2>1, <2>2, CommitInTurn DEF InTurnInv
  <2>4. d \notin PartDocs(s)
    BY <2>3 DEF Payable
  <2> QED
    BY <2>3, <2>4
<1>2. CASE \A p \in Payers : ~CommitSettlement(p)
  <2>1. invoice'[d].paid = 0
    BY <1>0, <1>2, PaidStays
  <2>2. \A n \in Nat \ {0} : WithPaid(d, n).paid = n
    BY <1>0 DEF WithPaid, Invoice
  <2>3. RowStep(d)
    BY EveryStepIsRowStep
  <2>4. CASE invoice'[d] = [invoice[d] EXCEPT !.status = "VOID"]
    BY <1>0, <2>4 DEF Invoice
  <2>5. ~ \E n \in Nat \ {0} : n <= Total(d) /\ invoice'[d] = WithPaid(d, n)
    BY <2>1, <2>2
  <2>6. CASE invoice'[d] = invoice[d]
    BY <2>6
  <2> QED
    BY <2>3, <2>4, <2>5, <2>6, Zenon DEF RowStep
<1> QED
  BY <1>1, <1>2

LEMMA TurnInvInit == TurnInit => TurnInv
<1> SUFFICES ASSUME TurnInit PROVE InTurnInv
  BY DEF TurnInv
<1>1. /\ payer = [p \in Payers |-> Idle] /\ payments = {}
      /\ \A d \in Docs : /\ invoice[d].status = "ABSENT" /\ invoice[d].paid = 0
                         /\ ledger[d].billed = 0
      /\ \A i \in Items : history[i] = <<>>
  BY DEF TurnInit, InvoicingInit, StockInit
<1>2. OneAtATime /\ ReadsCurrent
  BY <1>1 DEF OneAtATime, ReadsCurrent
<1>3. PaidAddsUp
  <2>1. \A d \in Docs : PaymentsOf(d) = {}
    BY <1>1 DEF PaymentsOf
  <2> QED
    BY <1>1, <2>1, NothingAddsUp DEF PaidAddsUp
<1>4. BilledWhileStanding
  BY <1>1 DEF BilledWhileStanding, Standing
<1>5. StockFollowsInvoice
  <2>1. \A d, i : i \in Items => Sales(d, i) = {}
    BY <1>1 DEF Sales
  <2>2. \A d : Sold(d) = {}
    BY <2>1 DEF Sold
  <2> QED
    BY <1>1, <2>2 DEF StockFollowsInvoice
<1> QED
  BY <1>2, <1>3, <1>4, <1>5 DEF InTurnInv

\* Everything the settlements rest on, together.
WholeInv == LedgerInv /\ HistoryInv /\ SettlementInv /\ SettledInv /\ TurnInv

LEMMA TurnInvStep ==
  ASSUME WholeInv, [TurnNext]_turnVars
  PROVE  TurnInv'
<1> SUFFICES ASSUME ~overlap' PROVE InTurnInv'
  BY DEF TurnInv
<1>1. InTurnInv /\ [InvoicingNext]_vars
  BY ServedAlone DEF WholeInv, SettlementInv
<1>2. OneAtATime' /\ ReadsCurrent'
  BY TurnReads DEF WholeInv, SettlementInv
<1>3. PaidAddsUp'
  BY <1>1, TurnPaid DEF WholeInv
<1>4. BilledWhileStanding'
  BY <1>1, TurnBilled DEF WholeInv, BilledWhileStanding
<1>5. StockFollowsInvoice'
  BY <1>1, TurnStock DEF WholeInv
<1> QED
  BY <1>2, <1>3, <1>4, <1>5 DEF InTurnInv

LEMMA WholeInvAlways == TurnSpec => []WholeInv
<1>1. TurnSpec => InvoicingSpec
  <2>1. TurnInit => InvoicingInit
    BY DEF TurnInit
  <2>2. [TurnNext]_turnVars => [InvoicingNext]_vars
    BY DEF TurnNext, turnVars
  <2> QED
    BY <2>1, <2>2, PTL DEF TurnSpec, InvoicingSpec
<1>2. InvoicingSpec => [](LedgerInv /\ HistoryInv)
  BY InvoicingUsesStock, HistoryInvAlways, PTL
<1>3. InvoicingSpec => [](SettlementInv /\ SettledInv)
  <2>1. SettlementInv /\ SettledInv /\ [InvoicingNext]_vars => SettledInv'
    BY SettledInvStay, SettledInvCommit
  <2> QED
    BY <2>1, SettlementInvInit, SettlementInvStep, SettledInvInit, PTL DEF InvoicingSpec
<1>4. LedgerInv /\ HistoryInv /\ SettlementInv /\ SettledInv /\ TurnInv => WholeInv
  BY DEF WholeInv
<1> QED
  BY <1>1, <1>2, <1>3, <1>4, TurnInvInit, TurnInvStep, PTL DEF TurnSpec

\* As long as no request is served while a settlement is under way, the invoice's
\* balance is the sum of its payments, the receivables account is within half a
\* cent per conversion of what is outstanding, and the stock an invoice took is out
\* exactly while it stands: for any totals, rates, splits and servers.
THEOREM ModulesAlwaysAgreeInTurn == TurnSpec => []AgreeInTurn
<1>1. WholeInv => AgreeInTurn
  <2> SUFFICES ASSUME SettlementInv, SettledInv, InTurnInv PROVE ModulesAgree
    BY DEF WholeInv, TurnInv, AgreeInTurn
  <2>1. PaidIsReceived
    BY PaidNamed DEF InTurnInv
  <2>2. ReceivablesReconcile
    BY LedgerTellsOutstanding DEF InTurnInv
  <2> QED
    BY <2>1, <2>2 DEF InTurnInv, ModulesAgree
<1> QED
  BY <1>1, WholeInvAlways, PTL

LEMMA VoidStays ==
  ASSUME WholeInv, [TurnNext]_turnVars, NEW d \in Docs, ~overlap', invoice[d].status = "VOID"
  PROVE  invoice'[d].status = "VOID"
<1>1. InTurnInv /\ [InvoicingNext]_vars
  BY ServedAlone DEF WholeInv, SettlementInv
<1> QED
  BY <1>1, TurnVoid DEF WholeInv

\* As long as no request is served while a settlement is under way, a void invoice
\* stays void: the settlement that could revive it read it before it was voided.
THEOREM VoidAlwaysFinalInTurn == TurnSpec => VoidFinalInTurn
<1>1. WholeInv /\ [TurnNext]_turnVars
        => [\A d \in Docs : ~overlap' /\ invoice[d].status = "VOID"
                              => invoice'[d].status = "VOID"]_turnVars
  BY VoidStays
<1> QED
  BY <1>1, WholeInvAlways, PTL DEF TurnSpec, VoidFinalInTurn
=============================================================================
