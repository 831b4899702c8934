------------------------------ MODULE Reports ------------------------------
(***************************************************************************)
(* The financial reports and their snapshots (server/src/reports.ts,       *)
(* statutory-report-pack.ts, vat-return-report.ts, customer-statements.ts, *)
(* ai/business-summary.ts, finance-report-snapshots.ts).  A report is a    *)
(* handful of SELECTs, each of which sees the ledger as it is at its own   *)
(* moment, so that every state is one that a SELECT may see.  A snapshot   *)
(* keeps one report for its key.                                           *)
(*                                                                         *)
(* Time is counted in half days, so that a posting falls on the morning or *)
(* the evening of its day; every invoice is of 2 and its tax of 1, in the  *)
(* base currency.  Postings are those of Invoicing, Procurement and the    *)
(* expense route, by what they do to the accounts that reports tell apart. *)
(***************************************************************************)
EXTENDS Integers, Sequences, FiniteSets, FiniteSetsExt

CONSTANTS Docs, Instants, ReportDays, Terms, Parts, MaxPostings, SnapshotKeys, Accountants, Absent

ASSUME ReportConstants ==
  /\ Instants \subseteq Nat /\ ReportDays \subseteq Nat /\ Terms \subseteq Nat
  /\ Parts \subseteq 1..3 /\ MaxPostings \in Nat /\ Absent \notin Docs

VARIABLES
  journal,    \* the journal entries, in the order they were posted
  invoice,    \* the columns of every invoice
  snapshot,   \* finance_report_snapshots, by idempotency key
  accountant, \* the snapshot request every accountant has under way
  answers     \* history: the reports answered for every key

reportVars == <<journal, invoice, snapshot, accountant, answers>>

NoInvoice == [status |-> "NONE", issued |-> 0, due |-> 0, paid |-> 0]

ReportInit ==
  /\ journal = <<>>
  /\ invoice = [d \in Docs |-> NoInvoice]
  /\ snapshot = [k \in SnapshotKeys |-> Absent]
  /\ accountant = [c \in Accountants |-> Absent]
  /\ answers = [k \in SnapshotKeys |-> {}]

----------------------------------------------------------------------------
(* The ledger.                                                             *)

AccountType ==
  [BANK |-> "ASSET", AR |-> "ASSET", VAT_INPUT |-> "ASSET",
   AP |-> "LIABILITY", GRNI |-> "LIABILITY", VAT_OUTPUT |-> "LIABILITY",
   SALES |-> "INCOME", COSTS |-> "EXPENSE"]

\* Debits positive.
EntryLines(e) ==
  CASE e.kind = "invoice"       -> [AR |-> 3, SALES |-> -2, VAT_OUTPUT |-> -1]
    [] e.kind = "invoice_void"  -> [AR |-> -3, SALES |-> 2, VAT_OUTPUT |-> 1]
    [] e.kind = "payment"       -> [BANK |-> e.amount, AR |-> -e.amount]
    [] e.kind = "bank_match"    -> [BANK |-> e.amount, AR |-> -e.amount]
    [] e.kind = "supplier_bill" -> [GRNI |-> 2, VAT_INPUT |-> 1, AP |-> -3]
    [] e.kind = "expense"       -> [COSTS |-> 1, BANK |-> -1]

Post(kind, source, at, amount) ==
  /\ Len(journal) < MaxPostings
  /\ journal' = Append(journal, [kind |-> kind, source |-> source, at |-> at, amount |-> amount])
  /\ UNCHANGED <<snapshot, accountant, answers>>

IssueInvoice(d, at, term) ==
  /\ invoice[d].status = "NONE"
  /\ Post("invoice", d, at, 3)
  /\ invoice' = [invoice EXCEPT ![d] = [status |-> "ISSUED", issued |-> at, due |-> at + term, paid |-> 0]]

Received(d, x) ==
  /\ invoice[d].status \in {"ISSUED", "PARTIAL"} /\ invoice[d].paid + x <= 3
  /\ invoice' = [invoice EXCEPT ![d].paid = @ + x,
                   ![d].status = IF invoice[d].paid + x = 3 THEN "PAID" ELSE "PARTIAL"]

\* Recorded or matched whole, the entry's source is the invoice; split over
\* several invoices it is the bank line.
RecordPayment(d, x, at) == Received(d, x) /\ Post("payment", d, at, x)
SplitPayment(d, x, at) == Received(d, x) /\ Post("bank_match", Absent, at, x)

VoidInvoice(d, at) ==
  /\ invoice[d].status = "ISSUED"
  /\ Post("invoice_void", d, at, 3)
  /\ invoice' = [invoice EXCEPT ![d].status = "VOID"]

\* The source of a bill is that bill.
PostBill(at) == Post("supplier_bill", Absent, at, 3) /\ UNCHANGED invoice
Spend(at) == Post("expense", Absent, at, 1) /\ UNCHANGED invoice

----------------------------------------------------------------------------
(* Reports.                                                                *)

\* From the first instant of a day to the last of another.
Within(at, from, to) == at \div 2 \in from..to

Entries(from, to) == {i \in DOMAIN journal : Within(journal[i].at, from, to)}

\* What the entries es moved on an account, debits positive.
Moved(es, a) ==
  LET upTo[i \in 0..Len(journal)] ==
        IF i = 0 THEN 0
        ELSE upTo[i - 1] + IF i \in es /\ a \in DOMAIN EntryLines(journal[i])
                           THEN EntryLines(journal[i])[a] ELSE 0
  IN upTo[Len(journal)]

OfType(t) == {a \in DOMAIN AccountType : AccountType[a] = t}

TrialBalance(asAt) == [a \in DOMAIN AccountType |-> Moved(Entries(0, asAt), a)]

OfTypes(tb, types) == MapThenSumSet(LAMBDA a : tb[a], UNION {OfType(t) : t \in types})

ProfitAndLoss(from, to) ==
  LET moved == [a \in DOMAIN AccountType |-> Moved(Entries(from, to), a)]
  IN [income |-> -OfTypes(moved, {"INCOME"}), expenses |-> OfTypes(moved, {"EXPENSE"})]

NetProfit(from, to) == ProfitAndLoss(from, to).income - ProfitAndLoss(from, to).expenses

\* Retained earnings are computed: no entry ever closes the income accounts.
BalanceSheet(asAt) ==
  LET tb == TrialBalance(asAt)
  IN [assets |-> OfTypes(tb, {"ASSET"}), liabilities |-> -OfTypes(tb, {"LIABILITY"}),
      equity |-> -OfTypes(tb, {"INCOME", "EXPENSE"})]

VatReport(from, to) ==
  [output |-> -Moved(Entries(from, to), "VAT_OUTPUT"), input |-> Moved(Entries(from, to), "VAT_INPUT")]

ControlBalance(asAt, account) == Moved(Entries(0, asAt), account)

\* The receivables that entries of an invoice's own still leave, by invoice.
ReceivableSources(asAt) ==
  LET left(d) == Moved({i \in Entries(0, asAt) : journal[i].source = d}, "AR")
  IN [d \in {d \in Docs : left(d) # 0} |-> left(d)]

Bucket(days) ==
  CASE days <= 0 -> "current" [] days \in 1..30 -> "d30" [] days \in 31..60 -> "d60"
    [] days \in 61..90 -> "d90" [] days > 90 -> "d90plus"
Buckets == {"current", "d30", "d60", "d90", "d90plus"}

Late(due, instant) == IF due >= instant THEN 0 ELSE (instant - due) \div 2

\* To the last instant of the day, which is just before the next.
Schedule(rows, control, asAt) ==
  LET bucket(d) == Bucket(Late(invoice[d].due, 2 * asAt + 1))
      scheduled == MapThenSumSet(LAMBDA d : rows[d], DOMAIN rows)
  IN [scheduled |-> scheduled, unallocated |-> control - scheduled,
      buckets |-> [b \in Buckets |-> MapThenSumSet(LAMBDA d : rows[d], {d \in DOMAIN rows : bucket(d) = b})]]

\* The dashboard's ageing and the business summary read the invoices' columns.
Outstanding(ds) == MapThenSumSet(LAMBDA d : 3 - invoice[d].paid, ds)
Owing == {d \in Docs : invoice[d].status \in {"ISSUED", "PARTIAL"}}

AgedReceivables(instant) ==
  LET bucket(d) == Bucket(Late(invoice[d].due, instant))
  IN [outstanding |-> Outstanding(Owing),
      overdue |-> Outstanding({d \in Owing : Late(invoice[d].due, instant) > 0}),
      buckets |-> [b \in Buckets |-> Outstanding({d \in Owing : bucket(d) = b})]]

Dashboard(monthStart, instant) ==
  [netProfit |-> NetProfit(monthStart, instant \div 2), receivables |-> AgedReceivables(instant)]

SummaryOverdue(instant) == Outstanding({d \in Owing : invoice[d].due < instant})

\* A statement as at a day: the invoices issued by then, as they are now.
CustomerStatement(instant) ==
  LET ds == {d \in Docs : /\ invoice[d].status \in {"ISSUED", "PARTIAL", "PAID"}
                          /\ invoice[d].issued <= instant}
  IN [invoiced |-> 3 * Cardinality(ds), paid |-> MapThenSumSet(LAMBDA d : invoice[d].paid, ds),
      outstanding |-> Outstanding(ds)]

----------------------------------------------------------------------------
(* Snapshots.                                                              *)

\* The fingerprint of a request is its type and period.
SameRequest(stored, type, day) == stored.type = type /\ stored.day = day

SnapshotLook(c, k, type, day) ==
  /\ accountant[c] = Absent
  /\ IF snapshot[k] = Absent
     THEN accountant' = [accountant EXCEPT ![c] = [key |-> k, type |-> type, day |-> day, from |-> Len(journal)]]
          /\ UNCHANGED answers
     ELSE /\ SameRequest(snapshot[k], type, day)
          /\ answers' = [answers EXCEPT ![k] = @ \cup {snapshot[k]}]
          /\ UNCHANGED accountant
  /\ UNCHANGED <<journal, invoice, snapshot>>

\* The key's row is answered, made now or by another meanwhile.
Answered(own, stored) == stored

\* A pack's control balance and its rows are SELECTs of their own.
SnapshotCommit(c) ==
  LET r == accountant[c]
  IN /\ r # Absent
     /\ \E control \in r.from..Len(journal), rows \in r.from..Len(journal) :
          LET own == [type |-> r.type, day |-> r.day, control |-> control, rows |-> rows]
              stored == IF snapshot[r.key] = Absent THEN own ELSE snapshot[r.key]
          IN /\ r.type = "VAT" => control = rows
             /\ snapshot' = [snapshot EXCEPT ![r.key] = stored]
             /\ answers' = IF SameRequest(stored, r.type, r.day)
                           THEN [answers EXCEPT ![r.key] = @ \cup {Answered(own, stored)}] ELSE answers
     /\ accountant' = [accountant EXCEPT ![c] = Absent]
     /\ UNCHANGED <<journal, invoice>>

ReportNext ==
  \/ \E d \in Docs, at \in Instants :
       \/ \E term \in Terms : IssueInvoice(d, at, term)
       \/ \E x \in Parts : RecordPayment(d, x, at) \/ SplitPayment(d, x, at)
       \/ VoidInvoice(d, at)
  \/ \E at \in Instants : PostBill(at) \/ Spend(at)
  \/ \E c \in Accountants : \/ \E k \in SnapshotKeys, type \in {"VAT", "STATUTORY"}, day \in ReportDays : SnapshotLook(c, k, type, day)
                            \/ SnapshotCommit(c)

----------------------------------------------------------------------------
(* Properties.                                                             *)

\* Whatever has been posted, the pack's internal tie-outs pass, and what is reported
\* of two periods that meet adds up to what is reported of both: no posting is in
\* neither, or in both.
PeriodsAddUp ==
  \A d \in ReportDays :
    LET bs == BalanceSheet(d)
        last == Max(ReportDays)
    IN /\ bs.assets = bs.liabilities + bs.equity
       /\ bs.equity = NetProfit(0, d)
       /\ NetProfit(0, d) + NetProfit(d + 1, last) = NetProfit(0, last)
       /\ VatReport(0, d).output + VatReport(d + 1, last).output = VatReport(0, last).output
       /\ ProfitAndLoss(0, d).income = 2 * VatReport(0, d).output

\* What a pack whose SELECTs saw the same ledger cannot put to an invoice is what
\* split payments took off, and its buckets hold all that it schedules.
ScheduleExplained ==
  \A d \in ReportDays :
    LET s == Schedule(ReceivableSources(d), ControlBalance(d, "AR"), d)
    IN /\ s.unallocated = Moved({i \in Entries(0, d) : journal[i].kind = "bank_match"}, "AR")
       /\ s.scheduled = MapThenSumSet(LAMBDA b : s.buckets[b], Buckets)

\* Reports made from the columns of invoices agree with the ledger and with each
\* other, once nothing lies in their future: a statement as at an earlier day has
\* later payments in it, and an invoice less than a day late is overdue in the
\* business summary alone.
ColumnsAgree ==
  LET now == 2 * Max(ReportDays) + 1
      aged == Dashboard(0, now).receivables
      statement == CustomerStatement(now)
  IN /\ aged.outstanding = ControlBalance(Max(ReportDays), "AR")
     /\ statement.outstanding = aged.outstanding /\ statement.paid + statement.outstanding = statement.invoiced
     /\ \A at \in Instants :
          /\ LET a == AgedReceivables(at)
             IN /\ a.outstanding = a.overdue + a.buckets["current"]
                /\ SummaryOverdue(at) - a.overdue = Outstanding({d \in Owing : at - invoice[d].due = 1})
          /\ CustomerStatement(at).outstanding <= CustomerStatement(now).outstanding

\* Whoever asks under a key is answered with the one report that is kept, however
\* many made one of their own meanwhile.
OneAnswerPerKey == \A k \in SnapshotKeys : answers[k] \subseteq {snapshot[k]}

ReportsSound == PeriodsAddUp /\ ScheduleExplained /\ ColumnsAgree /\ OneAnswerPerKey
=============================================================================
