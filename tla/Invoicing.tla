----------------------------- MODULE Invoicing -----------------------------
(***************************************************************************)
(* Invoices and their settlement: server/src/invoicing.ts and the two      *)
(* bank-line matches of server/src/bank-reconciliation.ts, over the stock  *)
(* ledger they share a transaction with.                                   *)
(*                                                                         *)
(* Drafting, issuing and voiding lock the invoice row first, so each is    *)
(* one action.  A settlement (recordPayment, a match of a bank line to one *)
(* invoice or a split of it over several) reads every invoice it pays      *)
(* without a lock and writes back the balance it computed from that read:  *)
(* it is one step per read and one for its commit.                         *)
(***************************************************************************)
EXTENDS StockLedger

CONSTANTS
  Totals,       \* what a draft may add up to: [net, tax, rate]
  RateUnit,     \* a rate of RateUnit converts one to one (1_000_000 in mulRate)
  Payers,       \* server processes that handle settlements at the same time
  PayKeys,      \* idempotency keys of payments
  BankLines,    \* imported bank lines with money coming in
  LineAmount,   \* LineAmount[l]: the amount of a bank line
  Settlements,  \* what a user may ask for: [key, line, parts]
  NoLine        \* a settlement that is not made from a bank line

VARIABLES
  invoice,      \* the invoices table
  lastNumber,   \* number_sequences: the last invoice number given out
  payments,     \* the payments table
  ledger,       \* AR debits of the invoice and AR credits of its payments
  matched,      \* bank lines with a matched_journal_entry_id
  payer         \* the settlement a process is in the middle of

invoiceVars == <<invoice, lastNumber, payments, ledger, matched, payer>>
vars == <<stockVars, invoiceVars>>

Part == [doc : Docs, amount : Nat \ {0}]

ASSUME TotalsAreSane ==
  /\ RateUnit \in Nat \ {0}
  /\ Totals \subseteq [net : Nat, tax : Nat, rate : Nat \ {0}]
  /\ NoLine \notin BankLines

\* A payment has a key, one part and no line; a match has a line and one
\* part; a split has a line and two or more parts, each for another invoice.
ASSUME SettlementsAreSane ==
  /\ IsFiniteSet(Docs)
  /\ LineAmount \in [BankLines -> Nat \ {0}]
  /\ Idle \notin [ask : Settlements, seen : Seq(Nat)]
  /\ \A s \in Settlements :
       /\ s \in [key : PayKeys \cup {NoKey}, line : BankLines \cup {NoLine}, parts : Seq(Part)]
       /\ s.key = NoKey <=> s.line # NoLine
       /\ s.parts # <<>>
       /\ s.line = NoLine => Len(s.parts) = 1
       /\ \A j, k \in DOMAIN s.parts : s.parts[j].doc = s.parts[k].doc => j = k

Statuses == {"ABSENT", "DRAFT", "ISSUED", "PARTIAL", "PAID", "VOID"}

Invoice ==
  [status : Statuses, net : Nat, tax : Nat, rate : Nat \ {0}, paid : Nat, number : Nat]

Payment ==
  [key : PayKeys \cup {NoKey}, line : BankLines \cup {NoLine}, doc : Docs, amount : Nat \ {0}]

InvoiceTypeOK ==
  /\ invoice \in [Docs -> Invoice]
  /\ lastNumber \in Nat
  /\ payments \subseteq Payment
  /\ ledger \in [Docs -> [billed : Nat, settled : Nat]]
  /\ matched \subseteq BankLines
  /\ payer \in [Payers -> [ask : Settlements, seen : Seq(Nat)] \cup {Idle}]

InvoicingTypeOK == StockTypeOK /\ InvoiceTypeOK

InvoicingInit ==
  /\ StockInit
  /\ invoice = [d \in Docs |-> [status |-> "ABSENT", net |-> 0, tax |-> 0,
                                rate |-> RateUnit, paid |-> 0, number |-> 0]]
  /\ lastNumber = 0
  /\ payments = {}
  /\ ledger = [d \in Docs |-> [billed |-> 0, settled |-> 0]]
  /\ matched = {}
  /\ payer = [p \in Payers |-> Idle]

----------------------------------------------------------------------------
(* Money.                                                                  *)

\* mulRate: an amount of invoice d in the base currency, to the nearest cent.
Base(d, amount) == RoundHalfUp(amount * invoice[d].rate, RateUnit)

Total(d) == invoice[d].net + invoice[d].tax
Outstanding(d) == Total(d) - invoice[d].paid

\* The AR debit of issueInvoice: net and tax are converted apart.
Billed(d) == Base(d, invoice[d].net) + Base(d, invoice[d].tax)

\* Faulty variant: anything with a balance can be paid.
PayableIfOwed(d) == invoice[d].status # "ABSENT" /\ Outstanding(d) > 0

Payable(d) == invoice[d].status \in {"ISSUED", "PARTIAL"}

----------------------------------------------------------------------------
(* Row locks.                                                              *)

\* A split that went on to its next invoice has updated those before it, and
\* keeps their rows until it commits.
Holds(p, d) ==
  /\ payer[p] # Idle
  /\ \E k \in 1 .. Len(payer[p].seen) - 1 : payer[p].ask.parts[k].doc = d

Unlocked(p, d) == \A q \in Payers \ {p} : ~Holds(q, d)

----------------------------------------------------------------------------
(* Drafts.                                                                 *)

\* The lines are replaced as a whole and the totals computed from them.
\* The governed tax rates are part of what the lines add up to.
Draft(d, t) ==
  invoice' = [invoice EXCEPT ![d] =
    [status |-> "DRAFT", net |-> t.net, tax |-> t.tax, rate |-> t.rate,
     paid |-> invoice[d].paid, number |-> invoice[d].number]]

CreateDraft(d, t) ==
  /\ invoice[d].status = "ABSENT"
  /\ Draft(d, t)
  /\ UNCHANGED <<stockVars, lastNumber, payments, ledger, matched, payer>>

UpdateDraft(d, t) ==
  /\ invoice[d].status = "DRAFT"
  /\ Draft(d, t)
  /\ UNCHANGED <<stockVars, lastNumber, payments, ledger, matched, payer>>

----------------------------------------------------------------------------
(* Issue and void.                                                         *)

\* Faulty variant: the number is counted from the invoices that stand.
NumberByCount ==
  1 + Cardinality({d \in Docs : invoice[d].status \in {"ISSUED", "PARTIAL", "PAID"}})

\* nextDocNumber: the row of number_sequences stays locked until the commit.
NextDocNumber == lastNumber + 1

\* The number, the revenue journal (which postJournal refuses when the sales
\* line is zero), the stock and its cost, and the status: all or nothing.
IssueInvoice(d) ==
  /\ invoice[d].status = "DRAFT"
  /\ Base(d, invoice[d].net) > 0
  /\ lastNumber' = NextDocNumber
  /\ invoice' = [invoice EXCEPT ![d].status = "ISSUED", ![d].number = NextDocNumber]
  /\ ledger' = [ledger EXCEPT ![d].billed = Billed(d)]
  /\ IssueStock(d)
  /\ UNCHANGED <<payments, matched, payer>>

\* A draft is voided without any effect elsewhere; an issued invoice has its
\* journals reversed and its stock returned.
VoidInvoice(d) ==
  /\ invoice[d].status \notin {"ABSENT", "VOID"}
  /\ invoice[d].paid = 0
  /\ \A p \in Payers : ~Holds(p, d)
  /\ invoice' = [invoice EXCEPT ![d].status = "VOID"]
  /\ ledger' = [ledger EXCEPT ![d].billed = 0]
  /\ IF Sold(d) = {} THEN UNCHANGED stockVars ELSE ReturnStock(d)
  /\ UNCHANGED <<lastNumber, payments, matched, payer>>

----------------------------------------------------------------------------
(* Settlements.                                                            *)

\* Faulty variant: only the bank line is looked up.
FreshLine(s) == s.line \notin matched

\* Neither the bank line nor the payment key has been used.
Fresh(s) ==
  /\ s.line \notin matched
  /\ s.key # NoKey => \A m \in payments : m.key # s.key

\* A used payment key answers with the invoice, a matched line with a
\* conflict; neither changes anything.
BeginSettlement(p, s) ==
  /\ payer[p] = Idle
  /\ Fresh(s)
  /\ payer' = [payer EXCEPT ![p] = [ask |-> s, seen |-> <<>>]]
  /\ UNCHANGED <<stockVars, invoice, lastNumber, payments, ledger, matched>>

\* SELECT of the next invoice, without FOR UPDATE, and the checks on what it
\* returned.  Going on means that the invoice before was updated: its row
\* must be free.
ReadInvoice(p) ==
  /\ payer[p] # Idle
  /\ LET s == payer[p].ask
         k == Len(payer[p].seen) + 1
     IN  /\ k <= Len(s.parts)
         /\ Payable(s.parts[k].doc)
         /\ s.parts[k].amount <= Outstanding(s.parts[k].doc)
         /\ k > 1 => Unlocked(p, s.parts[k - 1].doc)
         /\ payer' = [payer EXCEPT ![p].seen = Append(@, invoice[s.parts[k].doc].paid)]
  /\ UNCHANGED <<stockVars, invoice, lastNumber, payments, ledger, matched>>

PartDocs(s) == {s.parts[k].doc : k \in DOMAIN s.parts}
PartFor(s, d) == CHOOSE k \in DOMAIN s.parts : s.parts[k].doc = d
AmountFor(s, d) == s.parts[PartFor(s, d)].amount

\* Faulty variant: an invoice is PAID only when it is overpaid.
WithPaidPastTotal(d, n) ==
  [invoice[d] EXCEPT !.paid = n, !.status = IF n > Total(d) THEN "PAID" ELSE "PARTIAL"]

WithPaid(d, n) ==
  [invoice[d] EXCEPT !.paid = n, !.status = IF n >= Total(d) THEN "PAID" ELSE "PARTIAL"]

\* Faulty variant: the last payment replaces what was paid before.
SettledLatest(d, a) == WithPaid(d, AmountFor(a.ask, d))

\* What settlement a, whose reads are in a.seen, leaves of invoice d.
Settled(d, a) == WithPaid(d, a.seen[PartFor(a.ask, d)] + AmountFor(a.ask, d))

\* What the journal credits to the AR account for invoice d.
Posted(s, d) == Base(d, AmountFor(s, d))

\* A bank line is settled whole.
AddsUp(s) ==
  s.line # NoLine =>
    LineAmount[s.line] = MapThenSumSet(LAMBDA d : AmountFor(s, d), PartDocs(s))

\* The payments, the journal and the new balances become visible together.
\* The unique index on payment keys and the conditional update of the bank
\* line are the only checks made against the state of the moment.
CommitSettlement(p) ==
  /\ payer[p] # Idle
  /\ Len(payer[p].seen) = Len(payer[p].ask.parts)
  /\ LET a == payer[p]
         s == a.ask
     IN  /\ AddsUp(s)
         /\ Fresh(s)
         /\ \A d \in PartDocs(s) : Unlocked(p, d)
         /\ \E d \in PartDocs(s) : Posted(s, d) > 0
         /\ invoice' = [d \in Docs |-> IF d \in PartDocs(s) THEN Settled(d, a) ELSE invoice[d]]
         /\ payments' = payments \cup
              {[key |-> s.key, line |-> s.line, doc |-> d, amount |-> AmountFor(s, d)] :
                 d \in PartDocs(s)}
         /\ ledger' = [d \in Docs |->
              IF d \in PartDocs(s)
              THEN [ledger[d] EXCEPT !.settled = @ + Posted(s, d)]
              ELSE ledger[d]]
         /\ matched' = matched \cup ({s.line} \ {NoLine})
  /\ payer' = [payer EXCEPT ![p] = Idle]
  /\ UNCHANGED <<stockVars, lastNumber>>

\* Any error, a lost connection or a crash of the process rolls it all back.
AbortSettlement(p) ==
  /\ payer[p] # Idle
  /\ payer' = [payer EXCEPT ![p] = Idle]
  /\ UNCHANGED <<stockVars, invoice, lastNumber, payments, ledger, matched>>

----------------------------------------------------------------------------

InvoicingNext ==
  \/ \E d \in Docs, t \in Totals : CreateDraft(d, t)
  \/ \E d \in Docs, t \in Totals : UpdateDraft(d, t)
  \/ \E d \in Docs : IssueInvoice(d)
  \/ \E d \in Docs : VoidInvoice(d)
  \/ \E p \in Payers, s \in Settlements : BeginSettlement(p, s)
  \/ \E p \in Payers : ReadInvoice(p)
  \/ \E p \in Payers : CommitSettlement(p)
  \/ \E p \in Payers : AbortSettlement(p)
  \/ WarehouseStep /\ UNCHANGED invoiceVars

InvoicingSpec == InvoicingInit /\ [][InvoicingNext]_vars

----------------------------------------------------------------------------
(* Properties.                                                             *)

PaymentsOf(d) == {m \in payments : m.doc = d}
PaidTo(d) == MapThenSumSet(LAMBDA m : m.amount, PaymentsOf(d))

\* The number sequence has no holes and no duplicates, whatever fails or is
\* voided: an invoice that is rolled back gives its number back.
NumbersGapless ==
  /\ {invoice[d].number : d \in Docs} \ {0} = 1 .. lastNumber
  /\ \A d, e \in Docs :
       invoice[d].number = invoice[e].number /\ invoice[d].number # 0 => d = e

\* However settlements overlap, the status tells the balance: an invoice is
\* PAID exactly when nothing is outstanding, and never paid beyond its total.
StatusMatchesBalance ==
  \A d \in Docs :
    /\ invoice[d].status \in {"ABSENT", "DRAFT", "ISSUED", "VOID"} => invoice[d].paid = 0
    /\ invoice[d].status = "PARTIAL" => invoice[d].paid > 0 /\ invoice[d].paid < Total(d)
    /\ invoice[d].status = "PAID" => invoice[d].paid = Total(d)

\* Every payment is posted to the AR account once, and nothing else is: the
\* ledger agrees with the payments table even where the invoice does not.
PaymentsJournalled ==
  \A d \in Docs :
    ledger[d].settled = MapThenSumSet(LAMBDA m : Base(d, m.amount), PaymentsOf(d))

\* A bank line settles invoices at most once and for exactly its amount,
\* whether it is matched or split and however many users take it up.
LineSettlesOnce ==
  \A l \in BankLines :
    MapThenSumSet(LAMBDA m : m.amount, {m \in payments : m.line = l}) =
      IF l \in matched THEN LineAmount[l] ELSE 0

\* An idempotency key pays once.
KeyPaysOnce == \A m, n \in payments : m.key # NoKey /\ m.key = n.key => m = n

\* The invoice's cached balance is what was received for it.
PaidIsReceived == \A d \in Docs : invoice[d].paid = PaidTo(d)

\* The AR control account carries the outstanding balance of every invoice.
\* Converting each part to whole base cents may leave half a cent per part.
ReceivablesReconcile ==
  \A d \in Docs :
    LET ar == ledger[d].billed - ledger[d].settled
        off == ar - Base(d, Outstanding(d))
        halves == 3 + Cardinality(PaymentsOf(d))
    IN  IF invoice[d].status \in {"ISSUED", "PARTIAL", "PAID"}
        THEN 2 * off <= halves /\ -2 * off <= halves
        ELSE ar = 0

\* Stock has left for an invoice exactly while the invoice stands.
StockFollowsInvoice ==
  \A d \in Docs :
    LET out == {i \in Sold(d) : Returns(d, i) = {}} IN
    out = IF invoice[d].status \in {"ISSUED", "PARTIAL", "PAID"} THEN Wanted(d) ELSE {}

\* Types and balances, whatever overlaps.
BalancesSound == InvoicingTypeOK /\ StatusMatchesBalance

\* However settlements overlap, a payment is journalled once, for its amount,
\* and neither a bank line nor a key is spent twice.
SettlesOnce == PaymentsJournalled /\ LineSettlesOnce /\ KeyPaysOnce

\* Customers, accounts and the shelf tell one story about an invoice.
ModulesAgree == PaidIsReceived /\ ReceivablesReconcile /\ StockFollowsInvoice
=============================================================================
