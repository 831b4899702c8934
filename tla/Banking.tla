------------------------------ MODULE Banking ------------------------------
(***************************************************************************)
(* Bank lines and their reconciliation (server/src/bank-reconciliation.ts): *)
(* an imported line is matched with one journal entry, as a bank fee, one   *)
(* side of a transfer or a customer's receipt, by handlers that read it     *)
(* without a lock; a statement is reconciled in a worksheet, which another  *)
(* transaction stores and a third approves.                                 *)
(*                                                                          *)
(* What a receipt does to its invoices is in Invoicing, how lines are       *)
(* imported once in Migration.                                              *)
(***************************************************************************)
EXTENDS Integers, FiniteSets, FiniteSetsExt

CONSTANTS BankLines, BankAccounts, Days, Amounts, Closings, Cashiers, Nil,
          RateToBase    \* of every account's currency

ASSUME BankingConstants ==
  /\ Days \subseteq Nat /\ Amounts \subseteq Int \ {0} /\ Closings \subseteq Int
  /\ RateToBase \in [BankAccounts -> Nat \ {0}]
  /\ Nil \notin BankAccounts \cup BankLines
  /\ IsFiniteSet(BankLines)

VARIABLES
  line,       \* bank_transactions
  books,      \* the balance of every bank account's ledger account
  entries,    \* history: how many journal entries carry each line
  statement,  \* bank_reconciliations, by account and statement date
  cashier     \* the request every cashier has under way

bankVars == <<line, books, entries, statement, cashier>>

AbsentLine == [account |-> Nil, day |-> 0, amount |-> 0, match |-> "NONE", other |-> Nil]

BankInit ==
  /\ line = [l \in BankLines |-> AbsentLine]
  /\ books = [a \in BankAccounts |-> 0]
  /\ entries = [l \in BankLines |-> 0]
  /\ statement = [x \in BankAccounts \X Days |-> Nil]
  /\ cashier = [c \in Cashiers |-> Nil]

Imported == {l \in BankLines : line[l].account # Nil}
LinesOf(a) == {l \in Imported : line[l].account = a}
Unreviewed(ls) == {l \in ls : line[l].match = "NONE"}
Total(ls) == SumFunction([l \in ls |-> line[l].amount])

ImportLine(l, a, d, amount) ==
  /\ l \notin Imported
  /\ line' = [line EXCEPT ![l] = [AbsentLine EXCEPT !.account = a, !.day = d, !.amount = amount]]
  /\ UNCHANGED <<books, entries, statement, cashier>>

----------------------------------------------------------------------------
(* Matching.  A request reads its lines, then writes; a journal entry that  *)
(* postJournal refuses ends it like any other failure, in Abandon.          *)

MayPostFee(l) == l \in Unreviewed(Imported) /\ line[l].amount < 0

MayTransfer(l, m) ==
  /\ {l, m} \subseteq Unreviewed(Imported)
  /\ line[l].account # line[m].account
  /\ RateToBase[line[l].account] = RateToBase[line[m].account]
  /\ line[l].amount + line[m].amount = 0

MayMatchReceipt(l) == l \in Unreviewed(Imported) /\ line[l].amount > 0

\* The lines offered as the other side of a transfer: no more than a week away.
TransferCandidates(l) ==
  IF l \notin Unreviewed(Imported) THEN {}
  ELSE {m \in Unreviewed(Imported) :
          /\ RateToBase[line[m].account] = RateToBase[line[l].account]
          /\ line[m].account # line[l].account
          /\ line[m].amount = -line[l].amount
          /\ line[m].day \in (line[l].day - 7)..(line[l].day + 7)}

Take(c, request) ==
  /\ cashier[c] = Nil
  /\ cashier' = [cashier EXCEPT ![c] = request]
  /\ UNCHANGED <<line, books, entries, statement>>

ReadForFee(c, l) == MayPostFee(l) /\ Take(c, [task |-> "FEE", of |-> {l}])
ReadForTransfer(c, l, m) == MayTransfer(l, m) /\ Take(c, [task |-> "TRANSFER", of |-> {l, m}])
ReadForReceipt(c, l) == MayMatchReceipt(l) /\ Take(c, [task |-> "RECEIPT", of |-> {l}])

Matching(c) == cashier[c] # Nil /\ cashier[c].task \in {"FEE", "TRANSFER", "RECEIPT"}

\* A plausible slip: the update counts the rows it found, not those it wrote.
StillThere(ls) == ls \subseteq Imported

\* matched_journal_entry_id IS NULL, of every line of the request.
StillUnreviewed(ls) == ls = Unreviewed(ls)

\* A receipt is booked at its invoice's rate; a fee and a transfer one for one.
Booked(task, l) ==
  line[l].amount * (IF task = "RECEIPT" THEN RateToBase[line[l].account] ELSE 1)

CommitMatch(c) ==
  LET r == cashier[c]
  IN /\ Matching(c) /\ StillUnreviewed(r.of)
     /\ line' = [l \in BankLines |-> IF l \notin r.of THEN line[l]
          ELSE [line[l] EXCEPT !.match = r.task,
                  !.other = IF r.of = {l} THEN Nil ELSE CHOOSE m \in r.of : m # l]]
     /\ entries' = [l \in BankLines |-> entries[l] + IF l \in r.of THEN 1 ELSE 0]
     /\ books' = [a \in BankAccounts |-> books[a] +
          SumFunction([l \in r.of \cap LinesOf(a) |-> Booked(r.task, l)])]
     /\ cashier' = [cashier EXCEPT ![c] = Nil]
     /\ UNCHANGED statement

\* "matched by another process", a refused journal entry, or a crash: nothing
\* of the transaction stays.
Abandon(c) ==
  /\ cashier[c] # Nil
  /\ cashier' = [cashier EXCEPT ![c] = Nil]
  /\ UNCHANGED <<line, books, entries, statement>>

----------------------------------------------------------------------------
(* Reconciliation.                                                          *)

\* The lines up to the end of the statement's day.
Covered(a, d) == {l \in LinesOf(a) : line[l].day <= d}

\* An account opens at nothing: no code sets opening_balance.  present is
\* history, the lines there were.
Worksheet(a, d, closing) ==
  LET ls == Covered(a, d)
  IN [task |-> "WORKSHEET", of |-> a, day |-> d, closing |-> closing,
      total |-> Cardinality(ls), unreviewed |-> Cardinality(Unreviewed(ls)),
      difference |-> Total(ls) - closing, status |-> "PREPARED",
      present |-> LinesOf(a)]

ReadWorksheet(c, a, d, closing) == Take(c, Worksheet(a, d, closing))

PrepareReconciliation(c) ==
  LET w == cashier[c]
  IN /\ w # Nil /\ w.task = "WORKSHEET"
     /\ statement[w.of, w.day] = Nil
     /\ statement' = [statement EXCEPT ![<<w.of, w.day>>] = w]
     /\ cashier' = [cashier EXCEPT ![c] = Nil]
     /\ UNCHANGED <<line, books, entries>>

Balanced(w) == w.difference = 0 /\ w.unreviewed = 0

ApproveReconciliation(a, d) ==
  /\ statement[a, d] # Nil /\ statement[a, d].status = "PREPARED"
  /\ Balanced(statement[a, d])
  /\ statement' = [statement EXCEPT ![<<a, d>>].status = "APPROVED"]
  /\ UNCHANGED <<line, books, entries, cashier>>

\* The report of a statement: its worksheet's figures, and the lines of its days
\* as they now are.
Report(a, d) ==
  [figures |-> statement[a, d], matched |-> [l \in Covered(a, d) |-> line[l].match # "NONE"]]

BankNext ==
  \/ \E l \in BankLines, a \in BankAccounts, d \in Days, x \in Amounts : ImportLine(l, a, d, x)
  \/ \E c \in Cashiers, l \in BankLines :
       \/ ReadForFee(c, l) \/ ReadForReceipt(c, l)
       \/ \E m \in BankLines : ReadForTransfer(c, l, m)
  \/ \E c \in Cashiers : CommitMatch(c) \/ Abandon(c) \/ PrepareReconciliation(c)
  \/ \E a \in BankAccounts, d \in Days :
       \/ \E c \in Cashiers, closing \in Closings : ReadWorksheet(c, a, d, closing)
       \/ ApproveReconciliation(a, d)

BankSpec == BankInit /\ [][BankNext]_bankVars

----------------------------------------------------------------------------
(* Properties.                                                              *)

\* Every line is carried by the one journal entry it is matched with, however
\* many requests read it unmatched, and transfers match both of their lines with
\* each other or neither.
MatchedOnce ==
  /\ \A l \in BankLines : entries[l] = IF line[l].match = "NONE" THEN 0 ELSE 1
  /\ \A l \in BankLines : line[l].match = "TRANSFER" =>
       LET m == line[l].other
       IN /\ m \in BankLines /\ line[m].match = "TRANSFER" /\ line[m].other = l
          /\ line[l].amount + line[m].amount = 0 /\ line[l].account # line[m].account

\* In the base currency, the ledger account of a bank account stands at what the
\* summary shows as matched.
BooksFollowStatements ==
  \A a \in BankAccounts : RateToBase[a] = 1 =>
    books[a] = Total(LinesOf(a) \ Unreviewed(LinesOf(a)))

\* An approved statement was complete when its worksheet was taken: its report
\* still lists whatever lines there were of its days, as many as its figures say,
\* all matched, and they add up to what the bank says.  Lines imported since are
\* listed beside them, and nothing tells them apart.
ApprovedIsComplete ==
  \A a \in BankAccounts, d \in Days :
    LET r == Report(a, d)
        ls == {l \in r.figures.present : line[l].day <= d}
    IN statement[a, d] # Nil /\ r.figures.status = "APPROVED" =>
         /\ \A l \in ls : l \in DOMAIN r.matched /\ r.matched[l]
         /\ Cardinality(ls) = r.figures.total /\ Total(ls) = r.figures.closing

\* What is offered as a transfer is accepted as one.
OffersAccepted == \A l \in BankLines : \A m \in TransferCandidates(l) : MayTransfer(l, m)

BankingSound == MatchedOnce /\ BooksFollowStatements /\ ApprovedIsComplete /\ OffersAccepted
=============================================================================
