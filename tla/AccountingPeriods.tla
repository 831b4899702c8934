------------------------- MODULE AccountingPeriods -------------------------
(***************************************************************************)
(* The closing of months and the journal it protects:                      *)
(* server/src/accounting-periods.ts and postJournal of accounting.ts.      *)
(*                                                                         *)
(* postJournal looks the month up with a plain SELECT, and the trigger     *)
(* under it (drizzle/0034) does the same when the entry is inserted.  Both *)
(* happen before the posting's transaction commits, and a close that       *)
(* commits in between waits for nobody: a posting is a step that looks     *)
(* (PeriodOpen, Postable) and a step that makes the entry visible (Enter). *)
(***************************************************************************)
EXTENDS Integers, Sequences, Functions

CONSTANTS
  LastMonth,      \* bound: months are 1..LastMonth
  Sources         \* the documents entries are posted for

VARIABLES
  today,          \* the current month
  closed,         \* months whose accounting_periods row is CLOSED
  journal         \* journal_entries by source, in the order they were posted

periodVars == <<today, closed>>

ASSUME PeriodConstants == LastMonth \in Nat \ {0}

Months == 1..LastMonth

PeriodsInit ==
  /\ today = 1
  /\ closed = {}
  /\ journal = [s \in Sources |-> <<>>]

\* External: the calendar.
NextMonth ==
  /\ today < LastMonth
  /\ today' = today + 1
  /\ UNCHANGED <<closed, journal>>

\* closeAccountingPeriod and reopenAccountingPeriod hold the period's row.
CloseMonth(m) ==
  /\ m < today
  /\ m \notin closed
  /\ closed' = closed \cup {m}
  /\ UNCHANGED <<today, journal>>

ReopenMonth(m) ==
  /\ m \in closed
  /\ closed' = closed \ {m}
  /\ UNCHANGED <<today, journal>>

\* Faulty variant: the month of the clock is looked up, not the entry's.
PeriodOpenNow(m) == today \notin closed

\* assertPeriodOpen.
PeriodOpen(m) == m \notin closed

\* What postJournal accepts: debits equal to credits, and no line of nothing.
Postable(debits, credits) ==
  /\ \A i \in DOMAIN debits : debits[i] > 0
  /\ \A i \in DOMAIN credits : credits[i] > 0
  /\ FoldFunction(+, 0, debits) = FoldFunction(+, 0, credits)

\* The entry becomes visible with the transaction that posts it.
Enter(s, entry) == journal' = [journal EXCEPT ![s] = Append(@, entry)]

EntriesIn(m) ==
  [s \in Sources |-> {<<i, journal[s][i]>> : i \in {j \in DOMAIN journal[s] : journal[s][j].month = m}}]
=============================================================================
