--------------------------- MODULE Payroll_proofs ---------------------------
(***************************************************************************)
(* Posting and reversing payroll runs, for any number of clerks, runs and  *)
(* users; and what payslips and journal come to, for any tables.           *)
(*                                                                         *)
(* Who may post and when does not depend on the amounts: there T stands    *)
(* for whatever set they are in.  StockLedger_proofs is extended for its   *)
(* lemmas on sums and on rounding alone, which say nothing of the stock.   *)
(***************************************************************************)
EXTENDS Payroll, StockLedger_proofs, SequenceTheorems, TLAPS

Rows(T) ==
  [status : {"ABSENT", "DRAFT", "POSTED", "REVERSED", "DELETED"}, month : Months,
   totals : T, createdBy : Users \cup {None}]

Entries(T) == [kind : {"POST", "REVERSE"}, month : Months, totals : T, by : Users \cup {None}]

RequestsOf(T) ==
  [op : {"ADJUST", "DELETE", "POST", "REVERSE"}, step : {"READ", "READY"},
   run : Runs, user : Users \cup {None}, totals : T, month : Months,
   who : Staff \cup {None}, allowances : Nat, stale : BOOLEAN]

Shape(T) ==
  /\ today \in Months
  /\ run \in [Runs -> Rows(T)]
  /\ journal \in [Runs -> Seq(Entries(T))]
  /\ clerk \in [Clerks -> RequestsOf(T) \cup {None}]

\* A request about a run exists only for a run that has existed, and a posting
\* in hand has passed the policy with the amount it carries.
Checked ==
  \A c \in Clerks : clerk[c] # None =>
    /\ run[clerk[c].run].status # "ABSENT"
    /\ clerk[c].op = "POST" =>
         \/ clerk[c].totals.gross < SecondPersonFrom
         \/ clerk[c].user # run[clerk[c].run].createdBy

PostingInv == (\E T : Shape(T)) /\ PostedOnce /\ Checked /\ NobodyPaysAlone

LEMMA PostingInvInit == PayrollInit => PostingInv
<1> SUFFICES ASSUME PayrollInit PROVE PostingInv
  OBVIOUS
<1> DEFINE T == {Totals(NoSlips)}
<1>0. 1 \in Months
  BY PeriodConstants DEF Months
<1>1. run \in [Runs -> Rows(T)]
  BY <1>0 DEF PayrollInit, Rows
<1>2. journal = [r \in Runs |-> <<>>]
  BY PayrollConstants DEF PayrollInit, PeriodsInit
<1> HIDE DEF T
<1>a. journal \in [Runs -> Seq(Entries(T))]
  BY <1>2
<1>b. clerk \in [Clerks -> RequestsOf(T) \cup {None}]
  BY DEF PayrollInit
<1>3. Shape(T)
  BY <1>0, <1>1, <1>a, <1>b DEF PayrollInit, PeriodsInit, Shape
<1>4. PostedOnce /\ NobodyPaysAlone
  BY <1>2 DEF PayrollInit, PostedOnce, NobodyPaysAlone
<1>5. Checked
  BY DEF PayrollInit, Checked
<1> QED
  BY <1>3, <1>4, <1>5 DEF PostingInv

\* More amounts, more entries.
LEMMA EntriesGrow ==
  ASSUME NEW T, NEW U, T \subseteq U
  PROVE  Seq(Entries(T)) \subseteq Seq(Entries(U))
BY SeqMonotonic DEF Entries

----------------------------------------------------------------------------
(* What every kind of step leaves of the invariant.                        *)

\* A step of the clerks alone keeps what is true of runs and journal.
LEMMA RunsUntouched ==
  ASSUME PostingInv, UNCHANGED <<run, journal>>
  PROVE  PostedOnce' /\ NobodyPaysAlone'
BY DEF PostingInv, PostedOnce, NobodyPaysAlone

LEMMA BeginKeeps ==
  ASSUME PostingInv, NEW c \in Clerks, NEW op \in {"ADJUST", "DELETE", "POST", "REVERSE"},
         NEW r \in Runs, NEW u \in Users \cup {None}, NEW e \in Staff \cup {None}, NEW a \in Nat,
         run[r].status # "ABSENT",
         op = "POST" => MayPost(u, r),
         Begin(c, op, r, u, e, a)
  PROVE  PostingInv'
<1> PICK T : Shape(T)
  BY DEF PostingInv
<1> DEFINE q == [op |-> op, step |-> "READ", run |-> r, user |-> u, totals |-> run[r].totals,
                 month |-> run[r].month, who |-> e, allowances |-> a, stale |-> FALSE]
<1>1. q \in RequestsOf(T)
  BY DEF Shape, Rows, RequestsOf
<1>2. clerk' = [clerk EXCEPT ![c] = q] /\ UNCHANGED <<today, run, journal>>
  BY DEF Begin, periodVars
<1>3. Shape(T)'
  BY <1>1, <1>2 DEF Shape, Months
<1>4. /\ q.run = r /\ q.op = op /\ q.user = u /\ q.totals = run[r].totals
  OBVIOUS
<1> HIDE DEF q
<1>5. Checked'
  <2> SUFFICES ASSUME NEW d \in Clerks, clerk'[d] # None
               PROVE  /\ run[clerk'[d].run].status # "ABSENT"
                      /\ clerk'[d].op = "POST" =>
                           \/ clerk'[d].totals.gross < SecondPersonFrom
                           \/ clerk'[d].user # run[clerk'[d].run].createdBy
    BY <1>2 DEF Checked
  <2>1. CASE d = c
    <3>1. clerk'[d] = q
      BY <1>2, <2>1 DEF Shape
    <3> QED
      BY <3>1, <1>4 DEF MayPost
  <2>2. CASE d # c
    <3>1. clerk'[d] = clerk[d]
      BY <1>2, <2>2 DEF Shape
    <3> QED
      BY <3>1 DEF PostingInv, Checked
  <2> QED
    BY <2>1, <2>2
<1> QED
  BY <1>2, <1>3, <1>5, RunsUntouched DEF PostingInv

\* A request in hand that only advances, or is dropped, or is outdated.
LEMMA HandsKeep ==
  ASSUME PostingInv, NEW T, NEW U, Shape(T), Shape(U)',
         UNCHANGED <<run, journal>>,
         \A c \in Clerks :
           clerk'[c] # None =>
             /\ clerk[c] # None
             /\ clerk'[c].run = clerk[c].run
             /\ clerk'[c].user = clerk[c].user
             /\ clerk'[c].op = clerk[c].op
             /\ clerk[c].op = "POST" => clerk'[c].totals = clerk[c].totals
  PROVE  PostingInv'
<1>1. Checked'
  BY DEF PostingInv, Checked
<1> QED
  BY <1>1, RunsUntouched DEF PostingInv

LEMMA SumSlipsKeeps ==
  ASSUME PostingInv, NEW c \in Clerks, SumSlips(c)
  PROVE  PostingInv'
<1> PICK T : Shape(T)
  BY DEF PostingInv
<1> DEFINE sum == TotalsWith(slips[clerk[c].run], clerk[c].who, clerk[c].allowances)
           next == [clerk[c] EXCEPT !.step = "READY", !.totals = sum]
<1>1. clerk[c] \in RequestsOf(T) /\ clerk[c].op = "ADJUST" /\ clerk[c] # None
  BY DEF SumSlips, InHand, Shape
<1>2. clerk' = [clerk EXCEPT ![c] = next] /\ UNCHANGED <<today, run, journal>>
  BY DEF SumSlips, periodVars, Shape
<1>u. PICK U : U = T \cup {sum}
  OBVIOUS
<1> HIDE DEF sum
<1>3. next \in RequestsOf(U) /\ next.run = clerk[c].run /\ next.op = clerk[c].op
        /\ next.user = clerk[c].user
  BY <1>1, <1>u DEF RequestsOf
<1> HIDE DEF next
<1>4. RequestsOf(T) \subseteq RequestsOf(U) /\ Rows(T) \subseteq Rows(U)
  BY <1>u DEF RequestsOf, Rows
<1>5. Seq(Entries(T)) \subseteq Seq(Entries(U))
  BY <1>u, EntriesGrow
<1>6. clerk' \in [Clerks -> RequestsOf(U) \cup {None}]
  BY <1>2, <1>3, <1>4 DEF Shape
<1>7. run' \in [Runs -> Rows(U)] /\ journal' \in [Runs -> Seq(Entries(U))] /\ today' \in Months
  BY <1>2, <1>4, <1>5 DEF Shape
<1>8. Shape(U)'
  BY <1>6, <1>7 DEF Shape, Months
<1>9. \A d \in Clerks : clerk'[d] # None =>
        /\ clerk[d] # None
        /\ clerk'[d].run = clerk[d].run
        /\ clerk'[d].user = clerk[d].user
        /\ clerk'[d].op = clerk[d].op
        /\ clerk[d].op = "POST" => clerk'[d].totals = clerk[d].totals
  BY <1>1, <1>2, <1>3 DEF Shape
<1> QED
  BY <1>2, <1>8, <1>9, HandsKeep

LEMMA EnterJournalKeeps ==
  ASSUME PostingInv, NEW c \in Clerks, clerk[c] # None, NEW m \in Months, EnterJournal(c, m)
  PROVE  PostingInv'
<1> PICK T : Shape(T)
  BY DEF PostingInv
<1> DEFINE next == [clerk[c] EXCEPT !.step = "READY", !.month = m]
<1>1. clerk[c] \in RequestsOf(T)
  BY DEF Shape
<1>2. clerk' = [clerk EXCEPT ![c] = next] /\ UNCHANGED <<today, run, journal>>
  BY DEF EnterJournal, periodVars, Shape
<1>3. next \in RequestsOf(T) /\ next.run = clerk[c].run /\ next.op = clerk[c].op
        /\ next.user = clerk[c].user /\ next.totals = clerk[c].totals
  BY <1>1 DEF RequestsOf
<1> HIDE DEF next
<1>4. Shape(T)'
  BY <1>2, <1>3 DEF Shape, Months
<1>5. \A d \in Clerks : clerk'[d] # None =>
        /\ clerk[d] # None
        /\ clerk'[d].run = clerk[d].run
        /\ clerk'[d].user = clerk[d].user
        /\ clerk'[d].op = clerk[d].op
        /\ clerk[d].op = "POST" => clerk'[d].totals = clerk[d].totals
  BY <1>2, <1>3 DEF Shape
<1> QED
  BY <1>2, <1>4, <1>5, HandsKeep

LEMMA GiveUpKeeps ==
  ASSUME PostingInv, NEW c \in Clerks, GiveUp(c)
  PROVE  PostingInv'
<1> PICK T : Shape(T)
  BY DEF PostingInv
<1>1. clerk' = [clerk EXCEPT ![c] = None] /\ UNCHANGED <<today, run, journal>>
  BY DEF GiveUp, periodVars
<1>2. Shape(T)'
  BY <1>1 DEF Shape, Months
<1>3. \A d \in Clerks : clerk'[d] # None => clerk'[d] = clerk[d]
  BY <1>1 DEF Shape
<1> QED
  BY <1>1, <1>2, <1>3, HandsKeep

LEMMA CloseKeeps ==
  ASSUME PostingInv, NEW m \in Months, Close(m)
  PROVE  PostingInv'
<1> PICK T : Shape(T)
  BY DEF PostingInv
<1>1. UNCHANGED <<today, run, journal>>
  BY DEF Close, CloseMonth
<1>2. \A d \in Clerks : \/ clerk'[d] = clerk[d]
                        \/ clerk[d] # None /\ clerk'[d] = [clerk[d] EXCEPT !.stale = TRUE]
  BY DEF Close
<1>3. \A q \in RequestsOf(T) :
        /\ [q EXCEPT !.stale = TRUE] \in RequestsOf(T)
        /\ [q EXCEPT !.stale = TRUE].run = q.run
        /\ [q EXCEPT !.stale = TRUE].op = q.op
        /\ [q EXCEPT !.stale = TRUE].user = q.user
        /\ [q EXCEPT !.stale = TRUE].totals = q.totals
  BY DEF RequestsOf
<1>4. \A d \in Clerks : clerk[d] \in RequestsOf(T) \cup {None}
  BY DEF Shape
<1>5. \A d \in Clerks : clerk'[d] \in RequestsOf(T) \cup {None}
  BY <1>2, <1>3, <1>4
<1>6. clerk' = [d \in Clerks |-> clerk'[d]]
  BY DEF Close
<1>7. clerk' \in [Clerks -> RequestsOf(T) \cup {None}]
  BY <1>5, <1>6
<1>8. Shape(T)'
  BY <1>1, <1>7 DEF Shape, Months
<1>9. \A d \in Clerks : clerk'[d] # None =>
        /\ clerk[d] # None
        /\ clerk'[d].run = clerk[d].run
        /\ clerk'[d].user = clerk[d].user
        /\ clerk'[d].op = clerk[d].op
        /\ clerk[d].op = "POST" => clerk'[d].totals = clerk[d].totals
  BY <1>2, <1>3, <1>4
<1> QED
  BY <1>1, <1>8, <1>9, HandsKeep

----------------------------------------------------------------------------
(* The steps that write a run or the journal.                              *)

\* What a commit leaves in the clerks' hands.
LEMMA CommitHands ==
  ASSUME NEW T, Shape(T), NEW c \in Clerks, Commit(c)
  PROVE  /\ clerk' \in [Clerks -> RequestsOf(T) \cup {None}]
         /\ today' = today
         /\ \A d \in Clerks : clerk'[d] # None =>
              /\ clerk[d] # None
              /\ clerk'[d].run = clerk[d].run
              /\ clerk'[d].user = clerk[d].user
              /\ clerk'[d].op = clerk[d].op
              /\ clerk'[d].totals = clerk[d].totals
<1>1. \A d \in Clerks : \/ clerk'[d] = None
                        \/ clerk'[d] = clerk[d]
                        \/ clerk[d] # None /\ clerk'[d] = [clerk[d] EXCEPT !.stale = TRUE]
  BY DEF Commit
<1>2. \A q \in RequestsOf(T) :
        /\ [q EXCEPT !.stale = TRUE] \in RequestsOf(T)
        /\ [q EXCEPT !.stale = TRUE].run = q.run
        /\ [q EXCEPT !.stale = TRUE].op = q.op
        /\ [q EXCEPT !.stale = TRUE].user = q.user
        /\ [q EXCEPT !.stale = TRUE].totals = q.totals
  BY DEF RequestsOf
<1>3. \A d \in Clerks : clerk[d] \in RequestsOf(T) \cup {None}
  BY DEF Shape
<1>4. \A d \in Clerks : clerk'[d] \in RequestsOf(T) \cup {None}
  BY <1>1, <1>2, <1>3
<1>5. clerk' = [d \in Clerks |-> clerk'[d]]
  BY DEF Commit
<1>6. clerk' \in [Clerks -> RequestsOf(T) \cup {None}]
  BY <1>4, <1>5
<1>7. \A d \in Clerks : clerk'[d] # None =>
        /\ clerk[d] # None
        /\ clerk'[d].run = clerk[d].run
        /\ clerk'[d].user = clerk[d].user
        /\ clerk'[d].op = clerk[d].op
        /\ clerk'[d].totals = clerk[d].totals
  BY <1>1, <1>2, <1>3
<1> QED
  BY <1>6, <1>7 DEF Commit, periodVars

\* Nobody's approval is undone by a write that keeps who prepared the run.
LEMMA CommitKeepsChecked ==
  ASSUME NEW T, Shape(T), Checked, NEW c \in Clerks, Commit(c),
         \A r \in Runs : /\ run'[r].createdBy = run[r].createdBy
                         /\ run[r].status # "ABSENT" => run'[r].status # "ABSENT"
  PROVE  Checked'
<1>1. \A d \in Clerks : clerk[d] # None => clerk[d].run \in Runs
  BY DEF Shape, RequestsOf
<1> QED
  BY <1>1, CommitHands DEF Checked

LEMMA CommitAdjustKeeps ==
  ASSUME PostingInv, NEW c \in Clerks, CommitAdjust(c)
  PROVE  PostingInv'
<1> PICK T : Shape(T)
  BY DEF PostingInv
<1> DEFINE q == clerk[c]
           row == [run[q.run] EXCEPT !.totals = q.totals]
<1>1. q \in RequestsOf(T)
  BY DEF CommitAdjust, InHand, Shape
<1>2. q.run \in Runs /\ q.totals \in T
  BY <1>1 DEF RequestsOf
<1>3. row \in Rows(T) /\ row.status = run[q.run].status /\ row.createdBy = run[q.run].createdBy
  BY <1>2 DEF Shape, Rows
<1>4. run' = [run EXCEPT ![q.run] = row] /\ journal' = journal
  BY DEF CommitAdjust, Shape
<1> HIDE DEF row
<1>5. \A r \in Runs : run'[r].status = run[r].status /\ run'[r].createdBy = run[r].createdBy
  BY <1>2, <1>3, <1>4 DEF Shape
<1>6. Shape(T)'
  BY <1>2, <1>3, <1>4, CommitHands DEF CommitAdjust, Shape, Months
<1>7. PostedOnce' /\ NobodyPaysAlone'
  BY <1>4, <1>5 DEF PostingInv, PostedOnce, NobodyPaysAlone
<1>8. Checked'
  BY <1>5, CommitKeepsChecked DEF PostingInv, CommitAdjust
<1> QED
  BY <1>6, <1>7, <1>8 DEF PostingInv

LEMMA CommitDeleteKeeps ==
  ASSUME PostingInv, NEW c \in Clerks, CommitDelete(c)
  PROVE  PostingInv'
<1> PICK T : Shape(T)
  BY DEF PostingInv
<1> DEFINE q == clerk[c]
           row == [run[q.run] EXCEPT !.status = "DELETED"]
<1>1. q.run \in Runs
  BY DEF CommitDelete, InHand, Shape, RequestsOf
<1>2. row \in Rows(T) /\ row.status = "DELETED" /\ row.createdBy = run[q.run].createdBy
  BY <1>1 DEF Shape, Rows
<1>3. run' = [run EXCEPT ![q.run] = row] /\ journal' = journal
  BY DEF CommitDelete, Shape
<1> HIDE DEF row
<1>4. \A r \in Runs : /\ run'[r].createdBy = run[r].createdBy
                      /\ run'[r].status \in {run[r].status, "DELETED"}
  BY <1>1, <1>2, <1>3 DEF Shape
<1>5. Shape(T)'
  BY <1>1, <1>2, <1>3, CommitHands DEF CommitDelete, Shape, Months
<1>6. PostedOnce'
  BY <1>3, <1>4 DEF PostingInv, PostedOnce
<1>7. NobodyPaysAlone'
  BY <1>3, <1>4 DEF PostingInv, NobodyPaysAlone
<1>8. Checked'
  BY <1>4, CommitKeepsChecked DEF PostingInv, CommitDelete
<1> QED
  BY <1>5, <1>6, <1>7, <1>8 DEF PostingInv

LEMMA EntryShape ==
  ASSUME NEW T, Shape(T), NEW c \in Clerks, clerk[c] # None, clerk[c].op \in {"POST", "REVERSE"}
  PROVE  EntryOf(c) \in Entries(T) /\ EntryOf(c).kind = clerk[c].op
<1>1. clerk[c] \in RequestsOf(T)
  BY DEF Shape
<1> QED
  BY <1>1 DEF EntryOf, Entries, RequestsOf

LEMMA Appended ==
  ASSUME NEW S, NEW s \in Seq(S), NEW e \in S
  PROVE  /\ Append(s, e) \in Seq(S)
         /\ Len(Append(s, e)) = Len(s) + 1
         /\ \A i \in 1..Len(s) : Append(s, e)[i] = s[i]
         /\ Append(s, e)[Len(s) + 1] = e
         /\ DOMAIN Append(s, e) = 1..(Len(s) + 1)
OBVIOUS

\* A posting and a reversal write the same way: the status turns and the entry
\* stands last in the journal of the run.
LEMMA CommitEntryKeeps ==
  ASSUME PostingInv, NEW c \in Clerks, clerk[c] # None,
         NEW old \in {"DRAFT", "POSTED"}, NEW new \in {"POSTED", "REVERSED"},
         \/ clerk[c].op = "POST" /\ old = "DRAFT" /\ new = "POSTED"
         \/ clerk[c].op = "REVERSE" /\ old = "POSTED" /\ new = "REVERSED",
         run[clerk[c].run].status = old,
         run' = [run EXCEPT ![clerk[c].run].status = new],
         Enter(clerk[c].run, EntryOf(c)),
         Commit(c)
  PROVE  PostingInv'
<1> PICK T : Shape(T)
  BY DEF PostingInv
<1> DEFINE x == clerk[c].run
           row == [run[x] EXCEPT !.status = new]
           e == EntryOf(c)
<1>1. x \in Runs
  BY DEF Shape, RequestsOf
<1>2. row \in Rows(T) /\ row.status = new /\ row.createdBy = run[x].createdBy
  BY <1>1 DEF Shape, Rows
<1>3. run' = [run EXCEPT ![x] = row]
  BY DEF Shape
<1>4. e \in Entries(T) /\ e.kind = clerk[c].op
  BY EntryShape
<1>5. e.totals = clerk[c].totals /\ e.by = clerk[c].user
  BY DEF EntryOf
<1> HIDE DEF row
<1>6. journal' = [journal EXCEPT ![x] = Append(journal[x], e)]
  BY DEF Enter
<1>7. /\ journal[x] \in Seq(Entries(T))
      /\ Append(journal[x], e) \in Seq(Entries(T))
  BY <1>1, <1>4, Appended DEF Shape
<1> HIDE DEF e
<1>8. Shape(T)'
  BY <1>1, <1>2, <1>3, <1>6, <1>7, CommitHands DEF Shape, Months
<1>9. \A r \in Runs : r # x => run'[r] = run[r] /\ journal'[r] = journal[r]
  BY <1>1, <1>3, <1>6 DEF Shape
<1>10. run'[x] = row /\ journal'[x] = Append(journal[x], e)
  BY <1>1, <1>3, <1>6 DEF Shape
<1>11. /\ Len(journal'[x]) = Len(journal[x]) + 1
       /\ Len(journal[x]) \in Nat
       /\ \A i \in 1..Len(journal[x]) : journal'[x][i] = journal[x][i]
       /\ journal'[x][Len(journal[x]) + 1] = e
       /\ DOMAIN journal'[x] = 1..(Len(journal[x]) + 1)
       /\ DOMAIN journal[x] = 1..Len(journal[x])
  BY <1>4, <1>7, <1>10, Appended, LenProperties
<1>12. PostedOnce'
  <2>1. Len(journal[x]) = IF old = "DRAFT" THEN 0 ELSE 1
    BY <1>1 DEF PostingInv, PostedOnce
  <2>2. ASSUME old = "POSTED" PROVE journal'[x][1].kind = "POST"
    BY <1>1, <1>11, <2>1, <2>2 DEF PostingInv, PostedOnce
  <2>3. /\ Len(journal'[x]) = IF new = "POSTED" THEN 1 ELSE 2
        /\ journal'[x][1].kind = "POST"
        /\ new = "REVERSED" => journal'[x][2].kind = "REVERSE"
    BY <1>4, <1>11, <2>1, <2>2
  <2>4. /\ Len(journal'[x]) <= 2
        /\ Len(journal'[x]) = 2 => journal'[x][2].kind = "REVERSE"
        /\ run'[x].status = new
        /\ new = "POSTED" => Len(journal'[x]) = 1
        /\ new = "REVERSED" => Len(journal'[x]) = 2
    BY <1>2, <1>10, <2>3
  <2> QED
    BY <1>9, <2>3, <2>4 DEF PostingInv, PostedOnce
<1>13. NobodyPaysAlone'
  <2> SUFFICES ASSUME NEW r \in Runs, NEW i \in DOMAIN journal'[r], journal'[r][i].kind = "POST"
               PROVE  \/ journal'[r][i].totals.gross < SecondPersonFrom
                      \/ journal'[r][i].by # run'[r].createdBy
    BY DEF NobodyPaysAlone
  <2>1. CASE r # x
    BY <1>9, <2>1 DEF PostingInv, NobodyPaysAlone
  <2>2. CASE r = x /\ i \in 1..Len(journal[x])
    BY <1>1, <1>2, <1>10, <1>11, <2>2 DEF PostingInv, NobodyPaysAlone
  <2>3. CASE r = x /\ i = Len(journal[x]) + 1
    <3>1. journal'[r][i] = e /\ clerk[c].op = "POST"
      BY <1>4, <1>11, <2>3
    <3> QED
      BY <1>2, <1>5, <1>10, <2>3, <3>1 DEF PostingInv, Checked
  <2> QED
    BY <1>11, <2>1, <2>2, <2>3
<1>14. Checked'
  BY <1>1, <1>2, <1>9, <1>10, CommitKeepsChecked DEF PostingInv
<1> QED
  BY <1>8, <1>12, <1>13, <1>14 DEF PostingInv

LEMMA CreateKeeps ==
  ASSUME PostingInv, NEW r \in Runs, NEW m \in Months, NEW u \in Users, CreatePayrollRun(r, m, u)
  PROVE  PostingInv'
<1> PICK T : Shape(T)
  BY DEF PostingInv
<1> DEFINE sum == Totals([e \in Active |-> SlipFor(employee[e].basicSalary, 0)])
           row == [status |-> "DRAFT", month |-> m, totals |-> sum, createdBy |-> u]
<1>1. PICK U : U = T \cup {sum}
  OBVIOUS
<1>2. run' = [run EXCEPT ![r] = row] /\ UNCHANGED <<today, journal, clerk>>
  BY DEF CreatePayrollRun, periodVars
<1> HIDE DEF sum
<1>3. row \in Rows(U) /\ row.status = "DRAFT"
  BY <1>1 DEF Rows
<1> HIDE DEF row
<1>4. Rows(T) \subseteq Rows(U) /\ RequestsOf(T) \subseteq RequestsOf(U)
  BY <1>1 DEF Rows, RequestsOf
<1>5. Seq(Entries(T)) \subseteq Seq(Entries(U))
  BY <1>1, EntriesGrow
<1>6. run' \in [Runs -> Rows(U)]
  BY <1>2, <1>3, <1>4 DEF Shape
<1>7. Shape(U)'
  BY <1>2, <1>4, <1>5, <1>6 DEF Shape, Months
<1>8. run[r].status = "ABSENT"
  BY DEF CreatePayrollRun
<1>9. \A s \in Runs : s # r => run'[s] = run[s]
  BY <1>2 DEF Shape
<1>10. run'[r] = row
  BY <1>2 DEF Shape
<1>11. PostedOnce'
  BY <1>2, <1>3, <1>8, <1>9, <1>10 DEF PostingInv, PostedOnce
<1>12. NobodyPaysAlone'
  <2>1. journal[r] \in Seq(Entries(T)) /\ Len(journal[r]) = 0
    BY <1>8 DEF PostingInv, PostedOnce, Shape
  <2>2. DOMAIN journal[r] = {}
    BY <2>1
  <2> QED
    BY <1>2, <1>9, <2>2 DEF PostingInv, NobodyPaysAlone
<1>13. \A c \in Clerks : clerk[c] # None => clerk[c].run \in Runs
  BY DEF Shape, RequestsOf
<1>14. \A c \in Clerks : clerk[c] # None => clerk[c].run # r
  BY <1>8 DEF PostingInv, Checked
<1>15. Checked'
  BY <1>2, <1>9, <1>13, <1>14 DEF PostingInv, Checked
<1> QED
  BY <1>7, <1>11, <1>12, <1>15 DEF PostingInv

----------------------------------------------------------------------------
LEMMA PostingInvStep == PostingInv /\ [PayrollNext]_vars => PostingInv'
<1> SUFFICES ASSUME PostingInv, [PayrollNext]_vars PROVE PostingInv'
  OBVIOUS
<1> PICK T : Shape(T)
  BY DEF PostingInv
<1>1. ASSUME UNCHANGED <<run, journal, clerk>>, today' \in Months PROVE PostingInv'
  <2>1. Shape(T)'
    BY <1>1 DEF Shape, Months
  <2> QED
    BY <1>1, <2>1 DEF PostingInv, PostedOnce, Checked, NobodyPaysAlone
<1>2. CASE Calendar
  <2>1. today' \in Months
    BY <1>2, PeriodConstants DEF Calendar, NextMonth, ReopenMonth, Shape, Months
  <2> QED
    BY <1>1, <1>2, <2>1 DEF Calendar, NextMonth, ReopenMonth, payrollVars
<1>3. CASE \E m \in Months : Close(m)
  BY <1>3, CloseKeeps
<1>4. CASE Register
  BY <1>1, <1>4 DEF Register, CreateEmployee, UpdateEmployee, periodVars, Shape
<1>5. CASE Arrival
  <2> PICK r \in Runs :
        \/ \E m \in Months, u \in Users : CreatePayrollRun(r, m, u)
        \/ \E c \in Clerks :
             \/ \E e \in Staff, a \in Allowances : BeginAdjust(c, r, e, a)
             \/ BeginDelete(c, r)
             \/ \E u \in Users : BeginPost(c, r, u)
             \/ BeginReverse(c, r)
    BY <1>5 DEF Arrival
  <2>1. CASE \E m \in Months, u \in Users : CreatePayrollRun(r, m, u)
    BY <2>1, CreateKeeps
  <2>2. ASSUME NEW c \in Clerks, NEW e \in Staff, NEW a \in Allowances, BeginAdjust(c, r, e, a)
        PROVE  PostingInv'
    <3>1. a \in Nat
      BY PayrollConstants
    <3> QED
      BY <2>2, <3>1, BeginKeeps DEF BeginAdjust
  <2>3. ASSUME NEW c \in Clerks, BeginDelete(c, r) PROVE PostingInv'
    BY <2>3, BeginKeeps DEF BeginDelete
  <2>4. ASSUME NEW c \in Clerks, NEW u \in Users, BeginPost(c, r, u) PROVE PostingInv'
    BY <2>4, BeginKeeps DEF BeginPost
  <2>5. ASSUME NEW c \in Clerks, BeginReverse(c, r) PROVE PostingInv'
    BY <2>5, BeginKeeps DEF BeginReverse
  <2> QED
    BY <2>1, <2>2, <2>3, <2>4, <2>5
<1>6. CASE Handling
  <2> PICK c \in Clerks :
        \/ SumSlips(c) \/ CommitAdjust(c)
        \/ CommitDelete(c)
        \/ JournalPost(c) \/ CommitPost(c)
        \/ JournalReverse(c) \/ CommitReverse(c)
        \/ GiveUp(c)
    BY <1>6 DEF Handling
  <2>1. CASE SumSlips(c)
    BY <2>1, SumSlipsKeeps
  <2>2. CASE CommitAdjust(c)
    BY <2>2, CommitAdjustKeeps
  <2>3. CASE CommitDelete(c)
    BY <2>3, CommitDeleteKeeps
  <2>4. CASE JournalPost(c)
    <3>1. clerk[c] # None /\ clerk[c].month \in Months
      BY <2>4 DEF JournalPost, InHand, Shape, RequestsOf
    <3> QED
      BY <2>4, <3>1, EnterJournalKeeps DEF JournalPost
  <2>5. CASE JournalReverse(c)
    BY <2>5, EnterJournalKeeps DEF JournalReverse, InHand, Shape
  <2>6. CASE CommitPost(c)
    BY <2>6, CommitEntryKeeps DEF CommitPost, InHand, Still
  <2>7. CASE CommitReverse(c)
    BY <2>7, CommitEntryKeeps DEF CommitReverse, InHand, Still
  <2>8. CASE GiveUp(c)
    BY <2>8, GiveUpKeeps
  <2> QED
    BY <2>1, <2>2, <2>3, <2>4, <2>5, <2>6, <2>7, <2>8
<1>7. CASE UNCHANGED vars
  BY <1>1, <1>7 DEF vars, periodVars, payrollVars, Shape
<1> QED
  BY <1>2, <1>3, <1>4, <1>5, <1>6, <1>7 DEF PayrollNext

\* Whatever clerks read at the same moment, a run is posted once and reversed
\* once, and its status says so (the condition of the last update).
THEOREM RunsPostOnce == PayrollSpec => []PostedOnce
<1>1. PostingInv => PostedOnce
  BY DEF PostingInv
<1> QED
  BY <1>1, PostingInvInit, PostingInvStep, PTL DEF PayrollSpec

\* A payroll the policy wants a second person for is in the journal only if
\* somebody else than its preparer posted it, though the policy was asked about
\* a total read earlier: that total is the one that is posted.
THEOREM NobodyEverPaysAlone == PayrollSpec => []NobodyPaysAlone
<1>1. PostingInv => NobodyPaysAlone
  BY DEF PostingInv
<1> QED
  BY <1>1, PostingInvInit, PostingInvStep, PTL DEF PayrollSpec
----------------------------------------------------------------------------
(* The closing of months.                                                  *)

Underway(q) == q.op \in {"POST", "REVERSE"} /\ q.step = "READY"

\* A posting that has looked at its month has found it open; a close since then
\* is on record with it.
LookedInTime ==
  \A c \in Clerks :
    clerk[c] # None /\ Underway(clerk[c]) /\ clerk[c].month \in closed => clerk[c].stale

CloseInv == PostingInv /\ LookedInTime

LEMMA CloseMarksThem ==
  ASSUME CloseInv, NEW m \in Months, Close(m)
  PROVE  LookedInTime'
<1> PICK T : Shape(T)
  BY DEF CloseInv, PostingInv
<1>1. closed' = closed \cup {m}
  BY DEF Close, CloseMonth
<1> SUFFICES ASSUME NEW d \in Clerks, clerk'[d] # None, Underway(clerk'[d]), clerk'[d].month \in closed'
             PROVE  clerk'[d].stale
  BY DEF LookedInTime
<1>2. \A q \in RequestsOf(T) : [q EXCEPT !.stale = TRUE].stale
  BY DEF RequestsOf
<1>3. clerk[d] \in RequestsOf(T) \cup {None}
  BY DEF Shape
<1>4. CASE clerk'[d] = clerk[d]
  <2>1. CASE clerk[d].month \in closed
    BY <1>4, <2>1 DEF CloseInv, LookedInTime
  <2>2. CASE clerk[d].month = m
    <3>1. clerk'[d] = [clerk[d] EXCEPT !.stale = TRUE]
      BY <1>4, <2>2 DEF Close, Underway
    <3> QED
      BY <1>2, <1>3, <1>4, <3>1
  <2> QED
    BY <1>1, <1>4, <2>1, <2>2
<1>5. CASE clerk[d] # None /\ clerk'[d] = [clerk[d] EXCEPT !.stale = TRUE]
  BY <1>2, <1>3, <1>5
<1> QED
  BY <1>4, <1>5 DEF Close

LEMMA CommitLeavesLooks ==
  ASSUME CloseInv, NEW c \in Clerks, Commit(c)
  PROVE  LookedInTime'
<1> PICK T : Shape(T)
  BY DEF CloseInv, PostingInv
<1> SUFFICES ASSUME NEW d \in Clerks, clerk'[d] # None, Underway(clerk'[d]), clerk'[d].month \in closed'
             PROVE  clerk'[d].stale
  BY DEF LookedInTime
<1>1. closed' = closed
  BY DEF Commit, periodVars
<1>2. \A q \in RequestsOf(T) : [q EXCEPT !.stale = TRUE].stale
  BY DEF RequestsOf
<1>3. clerk[d] \in RequestsOf(T) \cup {None}
  BY DEF Shape
<1>4. \/ clerk'[d] = clerk[d]
      \/ clerk[d] # None /\ clerk'[d] = [clerk[d] EXCEPT !.stale = TRUE]
  BY DEF Commit
<1> QED
  BY <1>1, <1>2, <1>3, <1>4 DEF CloseInv, LookedInTime

\* One clerk goes on: to a state that is not under way, or that has just looked.
LEMMA OneHandKeepsLooks ==
  ASSUME CloseInv, NEW c \in Clerks, NEW q, clerk' = [clerk EXCEPT ![c] = q], closed' = closed,
         q = None \/ ~Underway(q) \/ q.month \notin closed
  PROVE  LookedInTime'
<1> PICK T : Shape(T)
  BY DEF CloseInv, PostingInv
<1>1. \A d \in Clerks : clerk'[d] = IF d = c THEN q ELSE clerk[d]
  BY DEF Shape
<1> QED
  BY <1>1 DEF CloseInv, LookedInTime

LEMMA LookedInTimeStep ==
  ASSUME CloseInv, [PayrollNext]_vars
  PROVE  LookedInTime'
<1> PICK T : Shape(T)
  BY DEF CloseInv, PostingInv
<1>1. ASSUME clerk' = clerk, closed' \subseteq closed PROVE LookedInTime'
  BY <1>1 DEF CloseInv, LookedInTime
<1>2. CASE Calendar \/ Register \/ UNCHANGED vars
  BY <1>1, <1>2
  DEF Calendar, NextMonth, ReopenMonth, payrollVars, Register, CreateEmployee, UpdateEmployee,
      periodVars, vars
<1>3. CASE \E m \in Months : Close(m)
  BY <1>3, CloseMarksThem
<1>4. CASE \E r \in Runs, m \in Months, u \in Users : CreatePayrollRun(r, m, u)
  BY <1>1, <1>4 DEF CreatePayrollRun, periodVars
<1>5. ASSUME NEW c \in Clerks, NEW op, NEW r, NEW u, NEW e, NEW a, Begin(c, op, r, u, e, a)
      PROVE  LookedInTime'
  <2> DEFINE q == [op |-> op, step |-> "READ", run |-> r, user |-> u, totals |-> run[r].totals,
                   month |-> run[r].month, who |-> e, allowances |-> a, stale |-> FALSE]
  <2>1. clerk' = [clerk EXCEPT ![c] = q] /\ closed' = closed
    BY <1>5 DEF Begin, periodVars
  <2>2. ~Underway(q)
    BY DEF Underway
  <2> HIDE DEF q
  <2> QED
    BY <2>1, <2>2, OneHandKeepsLooks
<1>6. CASE Arrival
  BY <1>4, <1>5, <1>6 DEF Arrival, BeginAdjust, BeginDelete, BeginPost, BeginReverse
<1>7. ASSUME NEW c \in Clerks, SumSlips(c) PROVE LookedInTime'
  <2> DEFINE sum == TotalsWith(slips[clerk[c].run], clerk[c].who, clerk[c].allowances)
             q == [clerk[c] EXCEPT !.step = "READY", !.totals = sum]
  <2>1. clerk[c] \in RequestsOf(T) /\ clerk[c].op = "ADJUST"
    BY <1>7 DEF SumSlips, InHand, Shape
  <2>2. clerk' = [clerk EXCEPT ![c] = q] /\ closed' = closed
    BY <1>7 DEF SumSlips, periodVars, Shape
  <2> HIDE DEF sum
  <2>3. q.op = "ADJUST"
    BY <2>1 DEF RequestsOf
  <2>4. ~Underway(q)
    BY <2>3 DEF Underway
  <2> HIDE DEF q
  <2> QED
    BY <2>2, <2>4, OneHandKeepsLooks
<1>8. ASSUME NEW c \in Clerks, clerk[c] # None, NEW m, EnterJournal(c, m) PROVE LookedInTime'
  <2> DEFINE q == [clerk[c] EXCEPT !.step = "READY", !.month = m]
  <2>1. clerk[c] \in RequestsOf(T)
    BY <1>8 DEF Shape
  <2>2. clerk' = [clerk EXCEPT ![c] = q] /\ closed' = closed /\ m \notin closed
    BY <1>8 DEF EnterJournal, PeriodOpen, periodVars, Shape
  <2>3. q.month = m
    BY <2>1 DEF RequestsOf
  <2> HIDE DEF q
  <2> QED
    BY <2>2, <2>3, OneHandKeepsLooks
<1>9. ASSUME NEW c \in Clerks, GiveUp(c) PROVE LookedInTime'
  <2>1. clerk' = [clerk EXCEPT ![c] = None] /\ closed' = closed
    BY <1>9 DEF GiveUp, periodVars
  <2> QED
    BY <2>1, OneHandKeepsLooks
<1>10. CASE Handling
  BY <1>7, <1>8, <1>9, <1>10, CommitLeavesLooks
  DEF Handling, JournalPost, JournalReverse, CommitAdjust, CommitDelete, CommitPost, CommitReverse, InHand
<1> QED
  BY <1>2, <1>3, <1>6, <1>10 DEF PayrollNext

\* The only step that may touch a closed month is the commit of a stale look.
LEMMA ClosedMonthsStand ==
  ASSUME CloseInv, [PayrollNext]_vars, ~blind', NEW m \in closed
  PROVE  EntriesIn(m)' = EntriesIn(m)
<1> PICK T : Shape(T)
  BY DEF CloseInv, PostingInv
<1>1. CASE UNCHANGED journal
  BY <1>1 DEF EntriesIn
<1>2. ASSUME NEW c \in Clerks, CommitPost(c) \/ CommitReverse(c)
      PROVE  EntriesIn(m)' = EntriesIn(m)
  <2> DEFINE x == clerk[c].run
             e == EntryOf(c)
  <2>1. /\ clerk[c] # None /\ clerk[c].op \in {"POST", "REVERSE"} /\ Underway(clerk[c])
        /\ Commit(c) /\ Enter(x, e)
    BY <1>2 DEF CommitPost, CommitReverse, InHand, Underway
  <2>2. clerk[c].month \notin closed
    BY <2>1 DEF Commit, CloseInv, LookedInTime
  <2>3. e.month # m /\ e \in Entries(T)
    <3>1. e.month = clerk[c].month
      BY DEF EntryOf
    <3> QED
      BY <2>1, <2>2, <3>1, EntryShape
  <2>4. x \in Runs /\ journal[x] \in Seq(Entries(T))
    BY <2>1 DEF Shape, RequestsOf
  <2> HIDE DEF x, e
  <2>5. /\ journal'[x] = Append(journal[x], e)
        /\ \A s \in Runs : s # x => journal'[s] = journal[s]
    BY <2>1, <2>4 DEF Enter, Shape
  <2> DEFINE n == Len(journal[x])
  <2>6. /\ n \in Nat /\ DOMAIN journal[x] = 1..n /\ DOMAIN journal'[x] = 1..(n + 1)
        /\ \A i \in 1..n : journal'[x][i] = journal[x][i]
        /\ journal'[x][n + 1] = e
    BY <2>3, <2>4, <2>5, Appended, LenProperties
  <2> HIDE DEF n
  <2>7. {j \in DOMAIN journal'[x] : journal'[x][j].month = m}
          = {j \in DOMAIN journal[x] : journal[x][j].month = m}
    BY <2>3, <2>6
  <2>8. {<<i, journal'[x][i]>> : i \in {j \in DOMAIN journal'[x] : journal'[x][j].month = m}}
          = {<<i, journal[x][i]>> : i \in {j \in DOMAIN journal[x] : journal[x][j].month = m}}
    BY <2>6, <2>7
  <2>9. \A s \in Sources :
          {<<i, journal'[s][i]>> : i \in {j \in DOMAIN journal'[s] : journal'[s][j].month = m}}
            = {<<i, journal[s][i]>> : i \in {j \in DOMAIN journal[s] : journal[s][j].month = m}}
    BY <2>5, <2>8, PayrollConstants
  <2> QED
    BY <2>9 DEF EntriesIn
<1> QED
  BY <1>1, <1>2
  DEF PayrollNext, Calendar, NextMonth, ReopenMonth, Close, CloseMonth, Register, CreateEmployee,
      UpdateEmployee, Arrival, CreatePayrollRun, BeginAdjust, BeginDelete, BeginPost, BeginReverse,
      Begin, Handling, SumSlips, CommitAdjust, CommitDelete, JournalPost, JournalReverse,
      EnterJournal, GiveUp, vars

\* A closed month gains and loses nothing, for any number of clerks, but for a
\* posting that had looked at it before it was closed.
THEOREM ClosedMonthsAlwaysStand == PayrollSpec => ClosedUnlessUnderWay
<1>1. PayrollInit => CloseInv
  BY PostingInvInit DEF CloseInv, LookedInTime, PayrollInit
<1>2. CloseInv /\ [PayrollNext]_vars => CloseInv'
  BY PostingInvStep, LookedInTimeStep DEF CloseInv
<1>3. CloseInv /\ [PayrollNext]_vars => [~blind' => \A m \in closed : EntriesIn(m)' = EntriesIn(m)]_vars
  BY ClosedMonthsStand
<1> QED
  BY <1>1, <1>2, <1>3, PTL DEF PayrollSpec, ClosedUnlessUnderWay

----------------------------------------------------------------------------
(* What a payslip comes to.                                                *)

LEMMA MulRateNear ==
  ASSUME NEW x \in Nat, NEW r \in Nat
  PROVE  /\ MulRate(x, r) \in Nat
         /\ (2 * RateUnit) * MulRate(x, r) <= 2 * (x * r) + RateUnit
         /\ x = 0 \/ r = 0 => MulRate(x, r) = 0
<1>1. RateUnit \in Nat \ {0} /\ x * r \in Nat
  BY PayrollTaxConstants
<1>2. MulRate(x, r) = RoundHalfUp(x * r, RateUnit)
  BY DEF MulRate, RoundHalfUp
<1>3. x = 0 \/ r = 0 => x * r = 0
  OBVIOUS
<1>4. RoundHalfUp(0, RateUnit) = 0
  <2>1. 0 <= 0 * RateUnit /\ 0 \in Nat
    BY <1>1
  <2>2. RoundHalfUp(0, RateUnit) \in Nat /\ RoundHalfUp(0, RateUnit) <= 0
    BY <1>1, <2>1, RoundHalfUpBound
  <2> QED
    BY <2>2
<1> QED
  BY <1>1, <1>2, <1>3, <1>4, RoundHalfUpNear

\* A cent more in a product is a cent more, or the same, at a rate up to one.
LEMMA QuotientNext ==
  ASSUME NEW d \in Nat \ {0}, NEW m \in Nat, NEW r \in Nat, r <= d
  PROVE  (m + r) \div d \in {m \div d, (m \div d) + 1}
<1> DEFINE p == m \div d
           q == (m + r) \div d
<1>1. ASSUME NEW n \in Nat
      PROVE  n \div d \in Nat /\ d * (n \div d) <= n /\ n < d * (n \div d) + d
  OBVIOUS
<1>2. /\ p \in Nat /\ d * p <= m /\ m < d * p + d
      /\ q \in Nat /\ d * q <= m + r /\ m + r < d * q + d
  BY <1>1
<1> HIDE DEF p, q
<1>3. q >= p
  <2> SUFFICES ASSUME q + 1 <= p PROVE FALSE
    BY <1>2
  <2>1. d * (q + 1) <= d * p /\ d * (q + 1) = d * q + d
    BY <1>2
  <2> QED
    BY <1>2, <2>1
<1>4. q <= p + 1
  <2> SUFFICES ASSUME p + 2 <= q PROVE FALSE
    BY <1>2
  <2>1. d * (p + 2) <= d * q /\ d * (p + 2) = d * p + d + d
    BY <1>2
  <2> QED
    BY <1>2, <2>1
<1>5. q \in {p, p + 1}
  BY <1>2, <1>3, <1>4
<1> QED
  BY <1>5 DEF p, q

LEMMA MulRateNext ==
  ASSUME NEW x \in Nat, NEW r \in Nat, r <= RateUnit
  PROVE  MulRate(x + 1, r) \in {MulRate(x, r), MulRate(x, r) + 1}
<1> DEFINE m == x * r + RateUnit \div 2
<1>1. RateUnit \in Nat \ {0} /\ RateUnit \div 2 \in Nat /\ x * r \in Nat
  BY PayrollTaxConstants
<1>2. m \in Nat /\ (x + 1) * r + RateUnit \div 2 = m + r
  <2>1. (x + 1) * r = x * r + r
    OBVIOUS
  <2> QED
    BY <1>1, <2>1
<1>3. MulRate(x, r) = m \div RateUnit /\ MulRate(x + 1, r) = (m + r) \div RateUnit
  BY <1>2 DEF MulRate
<1> HIDE DEF m
<1> QED
  BY <1>1, <1>2, <1>3, QuotientNext

LEMMA MulRateWithin ==
  ASSUME NEW x \in Nat, NEW r \in Nat, r <= RateUnit
  PROVE  MulRate(x, r) \in Nat /\ MulRate(x, r) <= x
<1>1. RateUnit \in Nat \ {0} /\ x * r \in Nat
  BY PayrollTaxConstants
<1>2. x * r <= x * RateUnit
  BY <1>1
<1>3. MulRate(x, r) = RoundHalfUp(x * r, RateUnit)
  BY DEF MulRate, RoundHalfUp
<1> QED
  BY <1>1, <1>2, <1>3, RoundHalfUpBound

\* The bands: as many as rates, each a part of the taxable pay.
BandCount == Len(BandRates)
Bands == 1 .. BandCount

LEMMA TableFacts ==
  /\ BandCount \in Nat \ {0, 1} /\ DOMAIN BandRates = Bands
  /\ DOMAIN BandLimits = 1 .. (BandCount - 1) /\ Len(BandLimits) = BandCount - 1
  /\ \A i \in 1 .. (BandCount - 1) : BandLimits[i] \in Nat
  /\ \A i, j \in 1 .. (BandCount - 1) : i < j => BandLimits[i] < BandLimits[j]
  /\ \A i \in Bands : BandRates[i] \in Nat /\ BandRates[i] <= RateUnit
  /\ RateUnit \in Nat \ {0} /\ LevyRate \in Nat /\ EmployeeRate \in Nat /\ EmployerRate \in Nat
  /\ Ceiling \in Nat /\ LevyRate <= RateUnit /\ EmployeeRate <= RateUnit
  /\ BandLimits[1] >= BandCount /\ BandRates[1] = 0
  /\ \A i \in Bands : BandRates[i] * (RateUnit + LevyRate) <= RateUnit * RateUnit
  /\ IsFiniteSet(Bands)
<1>1. /\ BandLimits \in Seq(Nat) /\ BandRates \in Seq(Nat)
      /\ Len(BandRates) = Len(BandLimits) + 1
      /\ RateUnit \in Nat \ {0} /\ LevyRate \in Nat /\ EmployeeRate \in Nat
      /\ EmployerRate \in Nat /\ Ceiling \in Nat
  BY PayrollTaxConstants
<1>2. /\ DOMAIN BandRates = 1 .. Len(BandRates) /\ DOMAIN BandLimits = 1 .. Len(BandLimits)
      /\ Len(BandLimits) \in Nat
      /\ \A i \in 1 .. Len(BandLimits) : BandLimits[i] \in Nat
      /\ \A i \in 1 .. Len(BandRates) : BandRates[i] \in Nat
  BY <1>1
<1>3. Len(BandLimits) # 0
  BY <1>1, TablesLeavePay
<1>4. ASSUME NEW i \in DOMAIN BandRates PROVE BandRates[i] <= RateUnit
  <2> DEFINE r == BandRates[i]
  <2>1. r \in Nat /\ r * (RateUnit + LevyRate) <= RateUnit * RateUnit
    BY <1>2, TablesLeavePay
  <2> HIDE DEF r
  <2>2. r * RateUnit <= r * (RateUnit + LevyRate)
    <3>1. r * (RateUnit + LevyRate) = r * RateUnit + r * LevyRate /\ r * LevyRate \in Nat
          /\ r * RateUnit \in Nat
      BY <1>1, <2>1
    <3> QED
      BY <3>1
  <2>3. r <= RateUnit
    <3> SUFFICES ASSUME RateUnit + 1 <= r PROVE FALSE
      BY <1>1, <2>1
    <3>1. (RateUnit + 1) * RateUnit <= r * RateUnit
          /\ (RateUnit + 1) * RateUnit = RateUnit * RateUnit + RateUnit
          /\ RateUnit * RateUnit \in Nat
      BY <1>1, <2>1
    <3>2. r * RateUnit \in Nat /\ r * (RateUnit + LevyRate) \in Nat
      BY <1>1, <2>1
    <3> QED
      BY <1>1, <2>1, <2>2, <3>1, <3>2
  <2> QED
    BY <2>3 DEF r
<1>5. IsFiniteSet(Bands)
  BY <1>1, FS_Interval DEF Bands, BandCount
<1>6. /\ BandCount \in Nat \ {0, 1} /\ Len(BandLimits) = BandCount - 1
      /\ DOMAIN BandRates = Bands /\ DOMAIN BandLimits = 1 .. (BandCount - 1)
  BY <1>1, <1>2, <1>3 DEF Bands, BandCount
<1>7. \A i \in 1 .. (BandCount - 1) : BandLimits[i] \in Nat
  BY <1>2, <1>6
<1>8. \A i, j \in 1 .. (BandCount - 1) : i < j => BandLimits[i] < BandLimits[j]
  BY <1>6, PayrollTaxConstants
<1>9. \A i \in Bands : /\ BandRates[i] \in Nat /\ BandRates[i] <= RateUnit
                       /\ BandRates[i] * (RateUnit + LevyRate) <= RateUnit * RateUnit
  BY <1>2, <1>4, <1>6, TablesLeavePay DEF Bands, BandCount
<1>10. /\ LevyRate <= RateUnit /\ EmployeeRate <= RateUnit
       /\ BandLimits[1] >= BandCount /\ BandRates[1] = 0
  BY TablesLeavePay DEF BandCount
<1> QED
  BY <1>1, <1>5, <1>6, <1>7, <1>8, <1>9, <1>10

LEMMA BelowIs ==
  ASSUME NEW t \in Nat, NEW i \in 0 .. BandCount
  PROVE  /\ Below(t, i) \in Nat /\ Below(t, 0) = 0 /\ Below(t, BandCount) = t
         /\ i > 0 => Below(t, i - 1) <= Below(t, i)
         /\ i > 0 /\ i < BandCount =>
              Below(t, i) = IF t < BandLimits[i] THEN t ELSE BandLimits[i]
<1>1. /\ BandCount \in Nat \ {0, 1} /\ Len(BandLimits) = BandCount - 1
      /\ \A j \in 1 .. (BandCount - 1) : BandLimits[j] \in Nat
      /\ \A j, k \in 1 .. (BandCount - 1) : j < k => BandLimits[j] < BandLimits[k]
  BY TableFacts
<1>2. Below(t, 0) = 0 /\ Below(t, BandCount) = t
  BY <1>1 DEF Below
<1>3. \A j \in 1 .. (BandCount - 1) : Below(t, j) = IF t < BandLimits[j] THEN t ELSE BandLimits[j]
  BY <1>1 DEF Below, Capped
<1>4. \A j \in 0 .. BandCount : Below(t, j) \in Nat /\ Below(t, j) <= t
  BY <1>1, <1>2, <1>3
<1>5. i > 0 => Below(t, i - 1) <= Below(t, i)
  <2> SUFFICES ASSUME i > 0 PROVE Below(t, i - 1) <= Below(t, i)
    OBVIOUS
  <2>1. CASE i = 1
    BY <1>2, <1>4, <2>1
  <2>2. CASE i = BandCount
    BY <1>1, <1>2, <1>4, <2>2
  <2>3. CASE i > 1 /\ i < BandCount
    <3>1. i - 1 \in 1 .. (BandCount - 1) /\ i \in 1 .. (BandCount - 1)
      BY <1>1, <2>3
    <3>2. BandLimits[i - 1] < BandLimits[i] /\ BandLimits[i - 1] \in Nat /\ BandLimits[i] \in Nat
      BY <1>1, <3>1
    <3> QED
      BY <1>3, <3>1, <3>2
  <2> QED
    BY <1>1, <2>1, <2>2, <2>3
<1> QED
  BY <1>1, <1>2, <1>3, <1>4, <1>5

\* The tax of the bands.
TaxOf(t) == [i \in Bands |-> MulRate(InBand(t, i), BandRates[i])]

LEMMA PayeIs ==
  ASSUME NEW t \in Nat
  PROVE  /\ Paye(t) = SumOf(TaxOf(t), Bands) /\ Paye(t) \in Nat
         /\ \A i \in Bands : InBand(t, i) \in Nat /\ TaxOf(t)[i] \in Nat
<1>1. \A i \in Bands : InBand(t, i) \in Nat
  <2> SUFFICES ASSUME NEW i \in Bands PROVE InBand(t, i) \in Nat
    OBVIOUS
  <2>1. i \in 0 .. BandCount /\ i > 0 /\ i - 1 \in 0 .. BandCount
    BY TableFacts DEF Bands
  <2>2. Below(t, i) \in Nat /\ Below(t, i - 1) \in Nat /\ Below(t, i - 1) <= Below(t, i)
    BY <2>1, BelowIs
  <2> QED
    BY <2>2 DEF InBand
<1>2. \A i \in Bands : TaxOf(t)[i] \in Nat
  BY <1>1, MulRateNear, TableFacts DEF TaxOf
<1>3. Paye(t) = SumFunction(TaxOf(t)) /\ DOMAIN TaxOf(t) = Bands /\ IsFiniteSet(Bands)
  BY TableFacts DEF Paye, TaxOf
<1>4. SumFunction(TaxOf(t)) = SumOf(TaxOf(t), Bands)
  BY <1>3, SumFunctionIs
<1>5. SumOf(TaxOf(t), Bands) \in Nat
  BY <1>2, <1>3, SumType
<1> QED
  BY <1>1, <1>2, <1>3, <1>4, <1>5

\* A cent more of taxable pay is a cent more in one band.
LEMMA OneBandMore ==
  ASSUME NEW t \in Nat
  PROVE  \E j \in Bands : /\ InBand(t + 1, j) = InBand(t, j) + 1
                          /\ \A i \in Bands \ {j} : InBand(t + 1, i) = InBand(t, i)
<1> DEFINE n == BandCount
           B == {i \in 0 .. n : Below(t + 1, i) = Below(t, i) + 1}
<1>1. n \in Nat \ {0, 1} /\ t + 1 \in Nat
  BY TableFacts
<1>2. \A i \in 0 .. n : Below(t, i) \in Nat /\ Below(t + 1, i) \in Nat
  BY <1>1, BelowIs
<1>3. 0 \in 0 .. n /\ n \in 0 .. n
  BY <1>1
<1>4. Below(t, 0) = 0 /\ Below(t + 1, 0) = 0 /\ Below(t, n) = t /\ Below(t + 1, n) = t + 1
  BY <1>1, <1>3, BelowIs
<1>5. n \in B /\ 0 \notin B
  BY <1>3, <1>4
<1>6. \A i \in 0 .. n : i \notin B => Below(t + 1, i) = Below(t, i)
  <2> SUFFICES ASSUME NEW i \in 0 .. n, i \notin B PROVE Below(t + 1, i) = Below(t, i)
    OBVIOUS
  <2>1. CASE i = 0
    BY <1>4, <2>1
  <2>2. CASE i > 0 /\ i < n
    <3>1. /\ Below(t, i) = IF t < BandLimits[i] THEN t ELSE BandLimits[i]
          /\ Below(t + 1, i) = IF t + 1 < BandLimits[i] THEN t + 1 ELSE BandLimits[i]
      BY <1>1, <2>2, BelowIs
    <3>2. BandLimits[i] \in Nat
      BY <1>1, <2>2, TableFacts
    <3> QED
      BY <3>1, <3>2
  <2> QED
    BY <1>1, <1>5, <2>1, <2>2
<1>7. ASSUME NEW i \in B, NEW k \in 0 .. n, i <= k PROVE k \in B
  <2>1. CASE k = n
    BY <1>5, <2>1
  <2>2. CASE k < n
    <3>1. i > 0 /\ i < n /\ k > 0
      BY <1>1, <1>5, <1>7, <2>2
    <3>2. /\ Below(t, i) = IF t < BandLimits[i] THEN t ELSE BandLimits[i]
          /\ Below(t + 1, i) = IF t + 1 < BandLimits[i] THEN t + 1 ELSE BandLimits[i]
          /\ Below(t, k) = IF t < BandLimits[k] THEN t ELSE BandLimits[k]
          /\ Below(t + 1, k) = IF t + 1 < BandLimits[k] THEN t + 1 ELSE BandLimits[k]
      BY <1>1, <2>2, <3>1, BelowIs
    <3>3. i \in 1 .. (n - 1) /\ k \in 1 .. (n - 1)
      BY <1>1, <2>2, <3>1
    <3>4. BandLimits[i] \in Nat /\ BandLimits[k] \in Nat /\ (i < k => BandLimits[i] < BandLimits[k])
      BY <3>3, TableFacts
    <3>5. t < BandLimits[i]
      BY <3>2, <3>4
    <3>6. t < BandLimits[k]
      BY <1>7, <3>1, <3>3, <3>4, <3>5
    <3> QED
      BY <3>2, <3>4, <3>6
  <2> QED
    BY <1>1, <2>1, <2>2
<1>8. PICK j \in B : \A i \in B : j <= i
  <2>1. B \in SUBSET (0 .. n) /\ B # {}
    BY <1>5
  <2> HIDE DEF B
  <2> QED
    BY <1>1, <2>1, LeastNumber
<1> HIDE DEF n
<1>9. j \in Bands /\ j \in 0 .. n /\ j - 1 \in 0 .. n /\ j - 1 \notin B
  <2>1. j \in 0 .. n /\ j # 0
    BY <1>5
  <2> QED
    BY <1>1, <1>8, <2>1 DEF Bands, n
<1>10. InBand(t + 1, j) = InBand(t, j) + 1
  BY <1>2, <1>6, <1>9 DEF InBand
<1>11. ASSUME NEW i \in Bands \ {j} PROVE InBand(t + 1, i) = InBand(t, i)
  <2>1. i \in 0 .. n /\ i - 1 \in 0 .. n /\ i # j
    BY <1>1 DEF Bands, n
  <2>2. CASE i < j
    <3>1. i \notin B /\ i - 1 \notin B
      BY <1>8, <1>9, <2>1, <2>2
    <3> QED
      BY <1>6, <2>1, <3>1 DEF InBand
  <2>3. CASE i > j
    <3>1. i \in B /\ i - 1 \in B
      <4>1. j <= i /\ j <= i - 1
        BY <1>9, <2>1, <2>3
      <4> QED
        BY <1>7, <2>1, <4>1
    <3> QED
      BY <1>2, <2>1, <3>1 DEF InBand
  <2> QED
    BY <1>9, <2>1, <2>2, <2>3
<1> QED
  BY <1>9, <1>10, <1>11

LEMMA PayeNext ==
  ASSUME NEW t \in Nat
  PROVE  Paye(t + 1) \in {Paye(t), Paye(t) + 1}
<1> DEFINE u == TaxOf(t)
           v == TaxOf(t + 1)
<1>1. PICK j \in Bands : /\ InBand(t + 1, j) = InBand(t, j) + 1
                         /\ \A i \in Bands \ {j} : InBand(t + 1, i) = InBand(t, i)
  BY OneBandMore
<1>2. v[j] \in {u[j], u[j] + 1} /\ u[j] \in Nat
  <2>1. InBand(t, j) \in Nat /\ u[j] \in Nat
    BY PayeIs
  <2>2. BandRates[j] \in Nat /\ BandRates[j] <= RateUnit
    BY TableFacts
  <2> QED
    BY <1>1, <2>1, <2>2, MulRateNext DEF TaxOf
<1>3. \A i \in Bands \ {j} : v[i] = u[i]
  BY <1>1 DEF TaxOf
<1>4. t + 1 \in Nat /\ IsFiniteSet(Bands) /\ IsFiniteSet(Bands \ {j})
  BY TableFacts, FS_Subset
<1>5. /\ Paye(t) = SumOf(u, Bands) /\ Paye(t + 1) = SumOf(v, Bands)
      /\ \A i \in Bands : u[i] \in Int /\ v[i] \in Int
  BY <1>4, PayeIs
<1> HIDE DEF u, v
<1>6. /\ SumOf(u, Bands) = u[j] + SumOf(u, Bands \ {j})
      /\ SumOf(v, Bands) = v[j] + SumOf(v, Bands \ {j})
  BY <1>4, <1>5, SumTake
<1>7. SumOf(v, Bands \ {j}) = SumOf(u, Bands \ {j}) /\ SumOf(u, Bands \ {j}) \in Int
  BY <1>3, <1>4, <1>5, SumSame, SumType
<1> QED
  BY <1>2, <1>5, <1>6, <1>7

\* Below the upper end of the first band there is nothing to tax.
LEMMA NothingToTax ==
  ASSUME NEW t \in Nat, t <= BandLimits[1]
  PROVE  Paye(t) = 0
<1>1. BandCount \in Nat \ {0, 1} /\ IsFiniteSet(Bands) /\ BandRates[1] = 0
  BY TableFacts
<1>2. ASSUME NEW i \in 1 .. BandCount PROVE Below(t, i) = t
  <2>1. CASE i = BandCount
    BY <1>1, <2>1, BelowIs
  <2>2. CASE i < BandCount
    <3>1. i \in 1 .. (BandCount - 1) /\ 1 \in 1 .. (BandCount - 1)
      BY <1>1, <2>2
    <3>2. BandLimits[i] \in Nat /\ BandLimits[1] \in Nat /\ (1 < i => BandLimits[1] < BandLimits[i])
      BY <3>1, TableFacts
    <3>3. t <= BandLimits[i]
      BY <3>1, <3>2
    <3>4. i \in 0 .. BandCount /\ i > 0
      BY <1>1
    <3>5. Below(t, i) = IF t < BandLimits[i] THEN t ELSE BandLimits[i]
      BY <2>2, <3>4, BelowIs
    <3> QED
      BY <3>2, <3>3, <3>5
  <2> QED
    BY <1>1, <2>1, <2>2
<1>3. ASSUME NEW i \in Bands PROVE TaxOf(t)[i] = 0
  <2>1. CASE i = 1
    <3>1. InBand(t, 1) \in Nat
      BY <2>1, PayeIs
    <3> QED
      BY <1>1, <2>1, <3>1, MulRateNear DEF TaxOf
  <2>2. CASE i > 1
    <3>1. i - 1 \in 1 .. BandCount /\ i \in 1 .. BandCount
      BY <1>1, <2>2 DEF Bands
    <3>2. InBand(t, i) = 0
      BY <1>2, <3>1 DEF InBand
    <3>3. BandRates[i] \in Nat
      BY TableFacts
    <3>4. MulRate(0, BandRates[i]) = 0
      BY <3>3, MulRateNear
    <3> QED
      BY <3>2, <3>4 DEF TaxOf
  <2> QED
    BY <2>1, <2>2 DEF Bands
<1>4. SumOf(TaxOf(t), Bands) = 0
  BY <1>1, <1>3, SumZero
<1> QED
  BY <1>4, PayeIs

\* The tax of one band, with the levy on it, is within the band but for what
\* the rounding adds.
LEMMA TaxWithinBand ==
  ASSUME NEW x \in Nat, NEW i \in Bands
  PROVE  LET u == RateUnit + LevyRate
             m == MulRate(x, BandRates[i])
         IN  2 * (u * m) <= 2 * (x * RateUnit) + u
<1> DEFINE R == RateUnit
           u == RateUnit + LevyRate
           r == BandRates[i]
           m == MulRate(x, r)
<1>1. R \in Nat \ {0} /\ u \in Nat /\ r \in Nat /\ r * u <= R * R
  BY TableFacts
<1>2. m \in Nat /\ (2 * R) * m <= 2 * (x * r) + R
  BY <1>1, MulRateNear
<1> HIDE DEF R, u, r, m
<1> DEFINE a == 2 * (u * m)
           b == 2 * (x * R) + u
<1>3. /\ u * ((2 * R) * m) <= u * (2 * (x * r) + R)
      /\ u * ((2 * R) * m) = R * a
  <2>1. x * r \in Nat
    BY <1>1
  <2>2. (2 * R) * m \in Nat /\ 2 * (x * r) + R \in Nat
    BY <1>1, <1>2, <2>1
  <2>3. \A p, q \in Nat : p <= q => u * p <= u * q
    BY <1>1
  <2>4. u * ((2 * R) * m) = R * (2 * (u * m))
    BY <1>1, <1>2
  <2> QED
    BY <1>2, <2>2, <2>3, <2>4
<1>4. u * (2 * (x * r) + R) = 2 * (x * (r * u)) + R * u
  BY <1>1
<1>5. x * (r * u) <= x * (R * R) /\ x * (R * R) = R * (x * R)
  <2>1. r * u \in Nat /\ R * R \in Nat
    BY <1>1
  <2>2. \A p, q \in Nat : p <= q => x * p <= x * q
    OBVIOUS
  <2>3. x * (R * R) = R * (x * R)
    BY <1>1
  <2> QED
    BY <1>1, <2>1, <2>2, <2>3
<1>6. R * a <= R * b
  <2>1. R * b = 2 * (R * (x * R)) + R * u
    BY <1>1
  <2>2. /\ R * a \in Nat /\ x * (r * u) \in Nat /\ R * (x * R) \in Nat /\ R * u \in Nat
    BY <1>1, <1>2
  <2> QED
    BY <1>3, <1>4, <1>5, <2>1, <2>2
<1>7. a <= b
  <2>1. a \in Nat /\ b \in Nat
    BY <1>1, <1>2
  <2> HIDE DEF a, b
  <2>2. \A p, q \in Nat : p < q => R * p < R * q
    BY <1>1
  <2>3. R * a \in Nat /\ R * b \in Nat
    BY <1>1, <2>1
  <2> QED
    BY <1>6, <2>1, <2>2, <2>3
<1> QED
  BY <1>7 DEF a, b, R, u, r, m

\* ... and so are the bands from the second to any other, together.
WithinBands(t, k) ==
  2 * ((RateUnit + LevyRate) * SumOf(TaxOf(t), 1 .. k))
    <= 2 * ((Below(t, k) - Below(t, 1)) * RateUnit) + (RateUnit + LevyRate) * (k - 1)

LEMMA TaxWithinBands ==
  ASSUME NEW t \in Nat
  PROVE  WithinBands(t, BandCount)
<1> DEFINE n == BandCount
           R == RateUnit
           u == RateUnit + LevyRate
           S(k) == SumOf(TaxOf(t), 1 .. k)
<1>1. /\ n \in Nat \ {0, 1} /\ R \in Nat \ {0} /\ u \in Nat /\ Bands = 1 .. n
      /\ \A i \in Bands : TaxOf(t)[i] \in Nat
  BY TableFacts, PayeIs DEF Bands
<1>2. ASSUME NEW k \in 1 .. n PROVE IsFiniteSet(1 .. k) /\ S(k) \in Nat
  <2>1. 1 .. k \subseteq 1 .. n /\ 1 \in Int /\ k \in Int
    BY <1>1
  <2>2. IsFiniteSet(1 .. k)
    BY <2>1, FS_Interval
  <2>3. \A i \in 1 .. k : TaxOf(t)[i] \in Nat
    BY <1>1, <2>1
  <2> QED
    BY <2>2, <2>3, SumType
<1>3. ASSUME NEW k \in 2 .. n PROVE S(k) = TaxOf(t)[k] + S(k - 1)
  <2>1. k \in 1 .. k /\ (1 .. k) \ {k} = 1 .. (k - 1) /\ IsFiniteSet(1 .. k)
    BY <1>2
  <2>2. \A i \in 1 .. k : TaxOf(t)[i] \in Int
    BY <1>1
  <2>3. SumOf(TaxOf(t), 1 .. k) = TaxOf(t)[k] + SumOf(TaxOf(t), (1 .. k) \ {k})
    BY <2>1, <2>2, SumTake
  <2> QED
    BY <2>1, <2>3
<1>4. S(1) = 0
  <2>1. 1 \in 1 .. n /\ 1 .. 1 = {1}
    BY <1>1
  <2>2. InBand(t, 1) \in Nat /\ BandRates[1] = 0
    BY <1>1, <2>1, PayeIs, TableFacts
  <2>3. MulRate(InBand(t, 1), 0) = 0
    BY <2>2, MulRateNear
  <2>4. TaxOf(t)[1] = 0
    BY <1>1, <2>1, <2>2, <2>3 DEF TaxOf
  <2>5. \A i \in 1 .. 1 : TaxOf(t)[i] = 0
    BY <2>1, <2>4
  <2>6. IsFiniteSet(1 .. 1)
    BY <1>2, <2>1
  <2> QED
    BY <2>5, <2>6, SumZero
<1>5. ASSUME NEW i \in 0 .. n PROVE Below(t, i) \in Nat
  BY BelowIs
<1> DEFINE B == {k \in 1 .. n : ~WithinBands(t, k)}
<1>6. ASSUME B # {} PROVE FALSE
  <2>1. B \in SUBSET (0 .. n)
    BY <1>1
  <2>2. PICK k \in B : \A j \in B : k <= j
    <3> HIDE DEF B
    <3> QED
      BY <1>1, <1>6, <2>1, LeastNumber
  <2>3. WithinBands(t, 1)
    <3>1. Below(t, 1) \in Nat
      BY <1>1, <1>5
    <3>2. 2 * (u * 0) = 0 /\ 2 * ((Below(t, 1) - Below(t, 1)) * R) + u * (1 - 1) = 0
      BY <1>1, <3>1
    <3>3. S(1) = 0
      BY <1>4
    <3> QED
      BY <3>2, <3>3 DEF WithinBands
  <2>4. k \in 2 .. n /\ k - 1 \in 1 .. n /\ k \in 1 .. n
    BY <1>1, <2>2, <2>3
  <2>5. WithinBands(t, k - 1)
    BY <2>2, <2>4
  <2> DEFINE m == TaxOf(t)[k]
             x == InBand(t, k)
             s == S(k - 1)
             b == Below(t, k - 1)
             c == Below(t, 1)
  <2>6. /\ m \in Nat /\ x \in Nat /\ s \in Nat /\ b \in Nat /\ c \in Nat
        /\ S(k) = m + s /\ Below(t, k) = b + x
    <3>a. k \in 0 .. n /\ k - 1 \in 0 .. n /\ 1 \in 0 .. n /\ k \in Bands
      BY <1>1, <2>4
    <3>b. Below(t, k) \in Nat /\ Below(t, k - 1) \in Nat /\ Below(t, 1) \in Nat
      BY <1>5, <3>a
    <3>1. InBand(t, k) \in Nat /\ Below(t, k) \in Nat /\ Below(t, k - 1) \in Nat
          /\ Below(t, 1) \in Nat
      BY <3>a, <3>b, PayeIs
    <3>2. S(k) = m + s /\ s \in Nat /\ m \in Nat
      BY <1>1, <1>2, <1>3, <2>4
    <3> QED
      BY <3>1, <3>2 DEF InBand
  <2>7. 2 * (u * m) <= 2 * (x * R) + u
    <3>1. m = MulRate(x, BandRates[k])
      BY <1>1, <2>4 DEF TaxOf
    <3> QED
      BY <1>1, <2>4, <2>6, <3>1, TaxWithinBand
  <2>8. 2 * (u * s) <= 2 * ((b - c) * R) + u * ((k - 1) - 1)
    BY <2>5 DEF WithinBands
  <2> HIDE DEF m, x, s, b, c, R, u
  <2>9. 2 * (u * (m + s)) <= 2 * (((b + x) - c) * R) + u * (k - 1)
    <3>1. u * (m + s) = u * m + u * s /\ u * m \in Nat /\ u * s \in Nat
      BY <1>1, <2>6
    <3>2. ((b + x) - c) * R = (b - c) * R + x * R /\ (b - c) * R \in Int /\ x * R \in Nat
      BY <1>1, <2>6
    <3>3. u * (k - 1) = u * ((k - 1) - 1) + u /\ u * ((k - 1) - 1) \in Nat
      BY <1>1, <2>4
    <3> DEFINE um == u * m
               us == u * s
               d == (b - c) * R
               y == x * R
               w == u * ((k - 1) - 1)
    <3>4. um \in Nat /\ us \in Nat /\ d \in Int /\ y \in Nat /\ w \in Nat
      BY <3>1, <3>2, <3>3
    <3>5. 2 * um <= 2 * y + u /\ 2 * us <= 2 * d + w
      BY <2>7, <2>8
    <3>6. u * (m + s) = um + us /\ ((b + x) - c) * R = d + y /\ u * (k - 1) = w + u
      BY <3>1, <3>2, <3>3
    <3> HIDE DEF um, us, d, y, w
    <3>7. 2 * (um + us) <= 2 * (d + y) + (w + u)
      BY <1>1, <3>4, <3>5
    <3> QED
      BY <3>6, <3>7
  <2>10. WithinBands(t, k)
    BY <2>6, <2>9 DEF WithinBands, R, u, c
  <2> QED
    BY <2>2, <2>10
<1>7. n \in 1 .. n
  BY <1>1
<1> QED
  BY <1>6, <1>7

\* What is withheld from a taxable pay does not exceed it.
LEMMA PayeWithin ==
  ASSUME NEW t \in Nat
  PROVE  /\ Paye(t) \in Nat /\ MulRate(Paye(t), LevyRate) \in Nat
         /\ Paye(t) + MulRate(Paye(t), LevyRate) <= t
<1> DEFINE p == Paye(t)
           v == LevyRate
           l == MulRate(p, v)
           R == RateUnit
           n == BandCount
           c == BandLimits[1]
<1>1. /\ p \in Nat /\ v \in Nat /\ R \in Nat \ {0} /\ v <= R /\ n \in Nat \ {0, 1}
      /\ c \in Nat /\ c >= n
  <2>1. 1 \in 1 .. (BandCount - 1)
    BY TableFacts
  <2> QED
    BY <2>1, PayeIs, TableFacts
<1>2. /\ l \in Nat /\ (2 * R) * l <= 2 * (p * v) + R /\ (p = 0 => l = 0)
  BY <1>1, MulRateNear
<1>3. CASE t <= c
  BY <1>2, <1>3, NothingToTax
<1>4. CASE c < t
  <2>1. Below(t, 1) = c /\ Below(t, n) = t
    <3>1. 1 \in 0 .. BandCount /\ 1 < BandCount /\ n \in 0 .. BandCount
      BY <1>1
    <3>2. /\ Below(t, 1) = IF t < BandLimits[1] THEN t ELSE BandLimits[1]
          /\ Below(t, BandCount) = t
      BY <3>1, BelowIs
    <3> QED
      BY <1>1, <1>4, <3>2
  <2>2. SumOf(TaxOf(t), 1 .. n) = p
    BY PayeIs DEF Bands
  <2>3. 2 * ((R + v) * p) <= 2 * ((t - c) * R) + (R + v) * (n - 1)
    BY <2>1, <2>2, TaxWithinBands DEF WithinBands
  <2> HIDE DEF p, v, l, R, n, c
  <2>4. (R + v) * p = R * p + p * v /\ R * p \in Nat /\ p * v \in Nat
    BY <1>1
  <2>5. (R + v) * (n - 1) <= 2 * (R * (n - 1)) /\ R * (n - 1) \in Nat /\ (R + v) * (n - 1) \in Nat
    <3>1. n - 1 \in Nat /\ v * (n - 1) <= R * (n - 1)
      BY <1>1
    <3>2. (R + v) * (n - 1) = R * (n - 1) + v * (n - 1) /\ R * (n - 1) \in Nat /\ v * (n - 1) \in Nat
      BY <1>1, <3>1
    <3> QED
      BY <3>1, <3>2
  <2>6. R * (n - 1) <= R * (c - 1) /\ R * (c - 1) \in Nat
    BY <1>1
  <2>7. (t - c) * R = R * t - R * c /\ R * (c - 1) = R * c - R /\ R * t \in Nat /\ R * c \in Nat
    BY <1>1
  <2>8. (2 * R) * l = 2 * (R * l) /\ R * l \in Nat /\ R * (p + l) = R * p + R * l
    BY <1>1, <1>2
  <2>9. 2 * (R * (p + l)) + R <= 2 * (R * t)
    BY <1>1, <1>2, <2>3, <2>4, <2>5, <2>6, <2>7, <2>8
  <2>10. p + l <= t
    <3> SUFFICES ASSUME t + 1 <= p + l PROVE FALSE
      BY <1>1, <1>2
    <3>1. R * (t + 1) <= R * (p + l) /\ R * (t + 1) = R * t + R
      BY <1>1, <1>2
    <3>2. R * (p + l) \in Nat
      BY <1>1, <1>2
    <3> QED
      BY <1>1, <2>7, <2>9, <3>1, <3>2
  <2> QED
    BY <1>1, <1>2, <2>10 DEF p, l, v
<1> QED
  BY <1>1, <1>3, <1>4

\* A payslip is a payslip: whatever the salary and the allowances, nothing on it
\* is negative.
LEMMA PayslipIs ==
  ASSUME NEW b \in Nat, NEW a \in Nat
  PROVE  /\ Payslip(b, a) \in Figures
         /\ Payslip(b, a).gross = b + a
<1> DEFINE g == b + a
           c == Capped(g, Ceiling)
           s == MulRate(c, EmployeeRate)
           p == Paye(g - s)
           l == MulRate(p, LevyRate)
           r == MulRate(c, EmployerRate)
<1>1. g \in Nat /\ Ceiling \in Nat /\ c \in Nat /\ c <= g
  BY TableFacts DEF Capped
<1>2. s \in Nat /\ s <= g
  <2>1. s \in Nat /\ s <= c
    BY <1>1, MulRateWithin, TableFacts
  <2> QED
    BY <1>1, <2>1
<1>3. r \in Nat
  BY <1>1, MulRateNear, TableFacts
<1>4. g - s \in Nat
  BY <1>1, <1>2
<1>5. p \in Nat /\ l \in Nat /\ p + l <= g - s
  BY <1>4, PayeWithin
<1>6. Payslip(b, a) = [gross |-> g, ssEmployee |-> s, ssEmployer |-> r, paye |-> p, levy |-> l,
                       net |-> g - s - p - l]
  BY DEF Payslip
<1>7. g - s - p - l \in Nat
  BY <1>1, <1>2, <1>5
<1> HIDE DEF g, s, p, l, r
<1>8. Payslip(b, a) \in Figures /\ Payslip(b, a).gross = g
  BY <1>1, <1>2, <1>3, <1>5, <1>6, <1>7 DEF Figures
<1> QED
  BY <1>8 DEF g

\* A cent more costs at most the cent that the roundings of PAYE and of the levy
\* on it can take together.
LEMMA RaiseSafe ==
  ASSUME NEW b \in Nat
  PROVE  RaiseIsSafe(b)
<1> SUFFICES ASSUME NEW a \in Probes
             PROVE  /\ Payslip(b, a).net >= 0
                    /\ Payslip(b, a + 1).net >= Payslip(b, a).net - 1
  BY DEF RaiseIsSafe
<1>1. a \in Nat /\ a + 1 \in Nat
  BY PayrollTaxConstants
<1>2. Payslip(b, a).net \in Nat /\ Payslip(b, a + 1).net \in Nat
  BY <1>1, PayslipIs DEF Figures
<1> DEFINE g == b + a
           S(x) == MulRate(Capped(x, Ceiling), EmployeeRate)
           Net(t) == t - Paye(t) - MulRate(Paye(t), LevyRate)
<1>3. g \in Nat /\ b + (a + 1) = g + 1
  BY <1>1
<1>4. Payslip(b, a).net = Net(g - S(g)) /\ Payslip(b, a + 1).net = Net((g + 1) - S(g + 1))
  BY <1>3 DEF Payslip
<1>5. S(g) \in Nat /\ S(g) <= g /\ S(g + 1) \in {S(g), S(g) + 1}
  <2> DEFINE c == Capped(g, Ceiling)
             d == Capped(g + 1, Ceiling)
  <2>1. c \in Nat /\ c <= g /\ d \in {c, c + 1}
    BY <1>3, TableFacts DEF Capped
  <2>2. EmployeeRate \in Nat /\ EmployeeRate <= RateUnit
    BY TableFacts
  <2> HIDE DEF c, d, g
  <2>3. MulRate(c, EmployeeRate) \in Nat /\ MulRate(c, EmployeeRate) <= c
    BY <2>1, <2>2, MulRateWithin
  <2>4. MulRate(d, EmployeeRate) \in {MulRate(c, EmployeeRate), MulRate(c, EmployeeRate) + 1}
    BY <2>1, <2>2, MulRateNext
  <2>5. S(g) = MulRate(c, EmployeeRate) /\ S(g + 1) = MulRate(d, EmployeeRate)
    BY DEF c, d
  <2> HIDE DEF S
  <2> QED
    BY <1>3, <2>1, <2>3, <2>4, <2>5
<1> HIDE DEF g, S
<1> DEFINE t == g - S(g)
<1>6. t \in Nat /\ (g + 1) - S(g + 1) \in {t, t + 1}
  BY <1>3, <1>5
<1> HIDE DEF t
<1>7. Net(t + 1) >= Net(t) - 1
  <2>1. Paye(t) \in Nat /\ Paye(t + 1) \in {Paye(t), Paye(t) + 1}
    BY <1>6, PayeWithin, PayeNext
  <2> DEFINE m == MulRate(Paye(t), LevyRate)
             n == MulRate(Paye(t + 1), LevyRate)
  <2>2. m \in Nat /\ n \in {m, m + 1}
    <3>1. m \in Nat
      BY <1>6, PayeWithin
    <3>2. LevyRate \in Nat /\ LevyRate <= RateUnit
      BY TableFacts
    <3> QED
      BY <2>1, <3>1, <3>2, MulRateNext
  <2> HIDE DEF m, n
  <2>3. Net(t) = t - Paye(t) - m /\ Net(t + 1) = (t + 1) - Paye(t + 1) - n
    BY DEF m, n
  <2> HIDE DEF Net
  <2> QED
    BY <1>6, <2>1, <2>2, <2>3
<1>8. Net((g + 1) - S(g + 1)) \in {Net(t), Net(t + 1)}
  BY <1>6
<1>9. Net(t) = Payslip(b, a).net
  BY <1>4 DEF t
<1> HIDE DEF Net
<1> QED
  BY <1>2, <1>4, <1>7, <1>8, <1>9

----------------------------------------------------------------------------
(* What the tables hold.                                                   *)

\* Every payslip is one of an employee, computed from a salary somebody was
\* registered with, and every total is one of payslips.
Salaried ==
  /\ employee \in [Staff -> Employee]
  /\ \A e \in Staff : employee[e].status # "ABSENT" => employee[e].basicSalary \in Salaries

Slips == {s \in UNION {[D -> Slip] : D \in SUBSET Staff} : \A e \in DOMAIN s : s[e].basic \in Salaries}

Summed ==
  /\ \A r \in Runs : /\ run[r].totals \in Figures
                     /\ \A i \in DOMAIN journal[r] : journal[r][i].totals \in Figures
  /\ \A c \in Clerks : clerk[c] # None => clerk[c].totals \in Figures

AmountsInv == Salaried /\ slips \in [Runs -> Slips] /\ Summed

LEMMA SlipIs ==
  ASSUME NEW b \in Salaries, NEW a \in Nat
  PROVE  SlipFor(b, a) \in Slip /\ SlipFor(b, a).basic = b
<1>1. b \in Nat
  BY PayrollConstants
<1> QED
  BY <1>1, PayslipIs DEF SlipFor, Slip

LEMMA SlipsAre ==
  ASSUME NEW s \in Slips
  PROVE  /\ DOMAIN s \subseteq Staff /\ IsFiniteSet(DOMAIN s) /\ s = [e \in DOMAIN s |-> s[e]]
         /\ \A e \in DOMAIN s : s[e] \in Slip /\ s[e].basic \in Salaries
<1>1. PICK D \in SUBSET Staff : s \in [D -> Slip]
  BY DEF Slips
<1>2. IsFiniteSet(D)
  BY PayrollConstants, FS_Subset
<1> QED
  BY <1>1, <1>2 DEF Slips

LEMMA SlipsMade ==
  ASSUME NEW D \in SUBSET Staff, NEW s, s = [e \in D |-> s[e]],
         \A e \in D : s[e] \in Slip /\ s[e].basic \in Salaries
  PROVE  s \in Slips
<1>1. s \in [D -> Slip] /\ DOMAIN s = D
  <2>1. [e \in D |-> s[e]] \in [D -> Slip] /\ DOMAIN [e \in D |-> s[e]] = D
    OBVIOUS
  <2> QED
    BY <2>1
<1> QED
  BY <1>1 DEF Slips

LEMMA NoSlipsAre == NoSlips \in Slips /\ DOMAIN NoSlips = {}
<1>1. NoSlips = [e \in {} |-> NoSlips[e]]
  BY DEF NoSlips
<1> QED
  BY <1>1, SlipsMade DEF NoSlips

LEMMA TotalsAre ==
  ASSUME NEW s \in Slips
  PROVE  Totals(s) \in Figures
<1> DEFINE D == DOMAIN s
           W(f) == [e \in D |-> s[e].pay[f]]
           names == {"gross", "ssEmployee", "ssEmployer", "paye", "levy", "net"}
<1>1. IsFiniteSet(D) /\ \A e \in D : s[e].pay \in Figures
  BY SlipsAre DEF Slip
<1>2. ASSUME NEW f \in names PROVE SumFunction(W(f)) \in Nat
  <2>1. \A e \in D : W(f)[e] \in Nat
    BY <1>1 DEF Figures
  <2>2. DOMAIN W(f) = D
    OBVIOUS
  <2> HIDE DEF W, D
  <2>3. SumFunction(W(f)) = SumOf(W(f), D) /\ SumOf(W(f), D) \in Nat
    BY <1>1, <2>1, <2>2, SumFunctionIs, SumType
  <2> QED
    BY <2>3
<1>3. Totals(s) = [gross |-> SumFunction(W("gross")), ssEmployee |-> SumFunction(W("ssEmployee")),
                   ssEmployer |-> SumFunction(W("ssEmployer")), paye |-> SumFunction(W("paye")),
                   levy |-> SumFunction(W("levy")), net |-> SumFunction(W("net"))]
  BY DEF Totals
<1> HIDE DEF W
<1> QED
  BY <1>2, <1>3 DEF Figures

\* One payslip written anew.
LEMMA SlipWritten ==
  ASSUME NEW s \in Slips, NEW e \in DOMAIN s, NEW a \in Nat
  PROVE  [s EXCEPT ![e] = SlipFor(s[e].basic, a)] \in Slips
<1> DEFINE new == SlipFor(s[e].basic, a)
           t == [s EXCEPT ![e] = new]
           D == DOMAIN s
<1>1. /\ D \in SUBSET Staff /\ s = [x \in D |-> s[x]]
      /\ \A x \in D : s[x] \in Slip /\ s[x].basic \in Salaries
  BY SlipsAre
<1>2. new \in Slip /\ new.basic \in Salaries
  BY <1>1, SlipIs
<1> HIDE DEF new
<1>3. t = [x \in D |-> t[x]] /\ \A x \in D : t[x] = IF x = e THEN new ELSE s[x]
  OBVIOUS
<1> HIDE DEF t, D
<1>4. t \in Slips
  BY <1>1, <1>2, <1>3, SlipsMade
<1> QED
  BY <1>4 DEF t, new

LEMMA AmountsInvInit == PayrollInit => AmountsInv
<1> SUFFICES ASSUME PayrollInit PROVE AmountsInv
  OBVIOUS
<1>1. Salaried
  BY DEF PayrollInit, Salaried, Employee
<1>2. slips \in [Runs -> Slips]
  BY NoSlipsAre DEF PayrollInit
<1>3. Totals(NoSlips) \in Figures
  BY NoSlipsAre, TotalsAre
<1>4. Summed
  <2>1. journal = [r \in Runs |-> <<>>]
    BY PayrollConstants DEF PayrollInit, PeriodsInit
  <2> QED
    BY <1>3, <2>1 DEF PayrollInit, Summed
<1> QED
  BY <1>1, <1>2, <1>4 DEF AmountsInv

\* An amount that is entered is the one the clerk holds.
LEMMA EnterSums ==
  ASSUME NEW T, Shape(T), Summed, NEW c \in Clerks, clerk[c] # None,
         clerk[c].op \in {"POST", "REVERSE"}, NEW s, run' = [run EXCEPT ![clerk[c].run].status = s],
         Enter(clerk[c].run, EntryOf(c)), Commit(c)
  PROVE  Summed'
<1> DEFINE x == clerk[c].run
           e == EntryOf(c)
<1>1. x \in Runs /\ journal[x] \in Seq(Entries(T))
  BY DEF Shape, RequestsOf
<1>2. e \in Entries(T) /\ e.totals \in Figures
  <2>1. e \in Entries(T)
    BY EntryShape
  <2> QED
    BY <2>1 DEF EntryOf, Summed
<1> HIDE DEF e
<1>3. journal'[x] = Append(journal[x], e) /\ \A r \in Runs : r # x => journal'[r] = journal[r]
  BY <1>1 DEF Enter, Shape, e
<1>4. \A i \in DOMAIN journal'[x] :
        \/ journal'[x][i] = e
        \/ i \in DOMAIN journal[x] /\ journal'[x][i] = journal[x][i]
  <2> DEFINE n == Len(journal[x])
  <2>1. /\ n \in Nat /\ DOMAIN journal[x] = 1 .. n /\ DOMAIN journal'[x] = 1 .. (n + 1)
        /\ \A i \in 1 .. n : journal'[x][i] = journal[x][i]
        /\ journal'[x][n + 1] = e
    BY <1>1, <1>2, <1>3, Appended, LenProperties
  <2> HIDE DEF n
  <2> QED
    BY <2>1
<1>5. \A r \in Runs : run'[r].totals = run[r].totals
  <2>1. \A y \in Rows(T) : [y EXCEPT !.status = s].totals = y.totals
    BY DEF Rows
  <2>2. \A r \in Runs : run[r] \in Rows(T)
    BY DEF Shape
  <2>3. run \in [Runs -> Rows(T)]
    BY DEF Shape
  <2> HIDE DEF x
  <2>4. \A r \in Runs : run'[r] = run[r] \/ run'[r] = [run[r] EXCEPT !.status = s]
    BY <2>3
  <2> QED
    BY <2>1, <2>2, <2>4
<1>6. \A d \in Clerks : clerk'[d] # None => clerk'[d].totals \in Figures
  BY CommitHands DEF Summed
<1>7. ASSUME NEW r \in Runs, NEW i \in DOMAIN journal'[r] PROVE journal'[r][i].totals \in Figures
  BY <1>2, <1>3, <1>4, <1>7 DEF Summed
<1> QED
  BY <1>5, <1>6, <1>7 DEF Summed

\* Steps that leave runs, payslips and journal alone.
LEMMA HandsSum ==
  ASSUME AmountsInv, UNCHANGED <<run, journal, employee, slips>>,
         \A c \in Clerks : clerk'[c] # None => clerk'[c].totals \in Figures
  PROVE  AmountsInv'
<1>1. Salaried'
  BY DEF AmountsInv, Salaried
<1>2. Summed'
  BY DEF AmountsInv, Summed
<1> QED
  BY <1>1, <1>2 DEF AmountsInv

LEMMA OneHandSums ==
  ASSUME NEW T, Shape(T), AmountsInv, UNCHANGED <<run, journal, employee, slips>>,
         NEW c \in Clerks, NEW q, clerk' = [clerk EXCEPT ![c] = q], q = None \/ q.totals \in Figures
  PROVE  AmountsInv'
<1>1. \A d \in Clerks : clerk'[d] = IF d = c THEN q ELSE clerk[d]
  BY DEF Shape
<1>2. \A d \in Clerks : clerk'[d] # None => clerk'[d].totals \in Figures
  BY <1>1 DEF AmountsInv, Summed
<1> QED
  BY <1>2, HandsSum

LEMMA RegisterSums ==
  ASSUME AmountsInv, Register
  PROVE  AmountsInv'
<1> PICK e \in Staff, s \in Salaries :
      \/ CreateEmployee(e, s)
      \/ \E status \in {"ACTIVE", "ENDED"} : UpdateEmployee(e, status, s)
  BY DEF Register
<1>1. PICK status \in {"ACTIVE", "ENDED"} :
        employee' = [employee EXCEPT ![e] = [status |-> status, basicSalary |-> s]]
  BY DEF CreateEmployee, UpdateEmployee
<1>2. UNCHANGED <<run, journal, slips, clerk>>
  BY DEF CreateEmployee, UpdateEmployee
<1> DEFINE row == [status |-> status, basicSalary |-> s]
<1>3. row \in Employee /\ row.basicSalary \in Salaries
  BY PayrollConstants DEF Employee
<1> HIDE DEF row
<1>4. Salaried'
  BY <1>1, <1>3 DEF AmountsInv, Salaried, row
<1>5. Summed'
  BY <1>2 DEF AmountsInv, Summed
<1> QED
  BY <1>2, <1>4, <1>5 DEF AmountsInv

LEMMA CreateSums ==
  ASSUME NEW T, Shape(T), AmountsInv, NEW r \in Runs, NEW m \in Months, NEW u \in Users,
         CreatePayrollRun(r, m, u)
  PROVE  AmountsInv'
<1> DEFINE drawn == [e \in Active |-> SlipFor(employee[e].basicSalary, 0)]
           row == [status |-> "DRAFT", month |-> m, totals |-> Totals(drawn), createdBy |-> u]
<1>1. /\ slips' = [slips EXCEPT ![r] = drawn] /\ run' = [run EXCEPT ![r] = row]
      /\ UNCHANGED <<journal, employee, clerk>>
  BY DEF CreatePayrollRun
<1>2. drawn \in Slips
  <2>1. ASSUME NEW e \in Active
        PROVE  SlipFor(employee[e].basicSalary, 0) \in Slip
               /\ SlipFor(employee[e].basicSalary, 0).basic \in Salaries
    <3>1. employee[e].basicSalary \in Salaries
      BY DEF Active, AmountsInv, Salaried
    <3> QED
      BY <3>1, SlipIs
  <2>2. Active \in SUBSET Staff
    BY DEF Active
  <2>3. drawn = [e \in Active |-> drawn[e]]
    OBVIOUS
  <2> QED
    BY <2>1, <2>2, <2>3, SlipsMade
<1> HIDE DEF drawn
<1>3. Totals(drawn) \in Figures
  BY <1>2, TotalsAre
<1>4. row.totals \in Figures
  BY <1>3
<1> HIDE DEF row
<1>5. slips' \in [Runs -> Slips]
  BY <1>1, <1>2 DEF AmountsInv
<1>6. \A x \in Runs : run'[x] = IF x = r THEN row ELSE run[x]
  BY <1>1 DEF Shape
<1>7. Summed'
  BY <1>1, <1>4, <1>6 DEF AmountsInv, Summed
<1>8. Salaried'
  BY <1>1 DEF AmountsInv, Salaried
<1> QED
  BY <1>5, <1>7, <1>8 DEF AmountsInv

LEMMA SumSlipsSums ==
  ASSUME NEW T, Shape(T), AmountsInv, NEW c \in Clerks, SumSlips(c)
  PROVE  AmountsInv'
<1> DEFINE q == clerk[c]
           sum == TotalsWith(slips[q.run], q.who, q.allowances)
           next == [q EXCEPT !.step = "READY", !.totals = sum]
<1>1. q \in RequestsOf(T)
  BY DEF SumSlips, InHand, Shape
<1>2. clerk' = [clerk EXCEPT ![c] = next] /\ UNCHANGED <<run, journal, employee, slips>>
  BY DEF SumSlips, Shape
<1>3. sum \in Figures
  <2>1. slips[q.run] \in Slips /\ q.who \in DOMAIN slips[q.run] /\ q.allowances \in Nat
    BY <1>1 DEF SumSlips, RequestsOf, AmountsInv
  <2> QED
    BY <2>1, SlipWritten, TotalsAre DEF TotalsWith
<1> HIDE DEF sum
<1>4. next.totals = sum
  BY <1>1 DEF RequestsOf
<1> HIDE DEF next
<1> QED
  BY <1>2, <1>3, <1>4, OneHandSums

LEMMA CommitAdjustSums ==
  ASSUME NEW T, Shape(T), AmountsInv, NEW c \in Clerks, CommitAdjust(c),
         clerk[c].who \in DOMAIN slips[clerk[c].run]
  PROVE  AmountsInv'
<1> DEFINE q == clerk[c]
           r == q.run
           new == [slips[r] EXCEPT ![q.who] = SlipFor(slips[r][q.who].basic, q.allowances)]
<1>1. q \in RequestsOf(T) /\ q.totals \in Figures
  BY DEF CommitAdjust, InHand, Shape, AmountsInv, Summed
<1>2. r \in Runs /\ q.allowances \in Nat /\ slips[r] \in Slips
  BY <1>1 DEF RequestsOf, AmountsInv
<1>3. new \in Slips
  BY <1>2, SlipWritten
<1>4. slips' = [slips EXCEPT ![r] = new]
  BY <1>2 DEF CommitAdjust, AmountsInv
<1> HIDE DEF new
<1>5. slips' \in [Runs -> Slips]
  BY <1>2, <1>3, <1>4 DEF AmountsInv
<1>6. \A x \in Runs : run'[x].totals = IF x = r THEN q.totals ELSE run[x].totals
  <2>1. run' = [run EXCEPT ![r].totals = q.totals]
    BY DEF CommitAdjust
  <2>2. run \in [Runs -> Rows(T)]
    BY DEF Shape
  <2>3. \A x \in Runs : run'[x] = IF x = r THEN [run[x] EXCEPT !.totals = q.totals] ELSE run[x]
    BY <1>2, <2>1, <2>2
  <2>4. \A y \in Rows(T) : [y EXCEPT !.totals = q.totals].totals = q.totals
    BY DEF Rows
  <2> QED
    BY <2>2, <2>3, <2>4
<1>7. \A d \in Clerks : clerk'[d] # None => clerk'[d].totals \in Figures
  BY CommitHands DEF CommitAdjust, AmountsInv, Summed
<1>8. Summed'
  BY <1>1, <1>6, <1>7 DEF CommitAdjust, AmountsInv, Summed
<1>9. Salaried'
  BY DEF CommitAdjust, Commit, AmountsInv, Salaried
<1> QED
  BY <1>5, <1>8, <1>9 DEF AmountsInv

LEMMA CommitDeleteSums ==
  ASSUME NEW T, Shape(T), AmountsInv, NEW c \in Clerks, CommitDelete(c)
  PROVE  AmountsInv'
<1> DEFINE r == clerk[c].run
<1>1. slips' = [slips EXCEPT ![r] = NoSlips] /\ run' = [run EXCEPT ![r].status = "DELETED"]
      /\ UNCHANGED <<journal, employee>>
  BY DEF CommitDelete, Commit
<1>2. slips' \in [Runs -> Slips]
  BY <1>1, NoSlipsAre DEF AmountsInv
<1>3. \A x \in Runs : run'[x].totals = run[x].totals
  <2>1. run \in [Runs -> Rows(T)] /\ \A y \in Rows(T) : [y EXCEPT !.status = "DELETED"].totals = y.totals
    BY DEF Shape, Rows
  <2> HIDE DEF r
  <2>2. \A x \in Runs : run'[x] = run[x] \/ run'[x] = [run[x] EXCEPT !.status = "DELETED"]
    BY <1>1, <2>1
  <2> QED
    BY <2>1, <2>2
<1>4. \A d \in Clerks : clerk'[d] # None => clerk'[d].totals \in Figures
  BY CommitHands DEF CommitDelete, AmountsInv, Summed
<1>5. Summed'
  BY <1>1, <1>3, <1>4 DEF AmountsInv, Summed
<1>6. Salaried'
  BY <1>1 DEF AmountsInv, Salaried
<1> QED
  BY <1>2, <1>5, <1>6 DEF AmountsInv

LEMMA CommitEntrySums ==
  ASSUME NEW T, Shape(T), AmountsInv, NEW c \in Clerks, CommitPost(c) \/ CommitReverse(c)
  PROVE  AmountsInv'
<1>1. PICK s : run' = [run EXCEPT ![clerk[c].run].status = s]
  BY DEF CommitPost, CommitReverse
<1>2. /\ clerk[c] # None /\ clerk[c].op \in {"POST", "REVERSE"} /\ slips' = slips
      /\ Enter(clerk[c].run, EntryOf(c)) /\ Commit(c)
  BY DEF CommitPost, CommitReverse, InHand
<1>3. Summed'
  BY <1>1, <1>2, EnterSums DEF AmountsInv
<1>4. Salaried'
  BY <1>2 DEF Commit, AmountsInv, Salaried
<1> QED
  BY <1>2, <1>3, <1>4 DEF AmountsInv

\* An adjustment keeps the payslip it has written: nobody deletes it meanwhile.
Held ==
  \A c \in Clerks : InHand(c, "ADJUST", "READY") => clerk[c].who \in DOMAIN slips[clerk[c].run]

\* Commits by clerks, and what they leave in the hands of the others.
LEMMA CommitHolds ==
  ASSUME NEW T, Shape(T), Held, NEW c \in Clerks, Commit(c),
         \A d \in Clerks : InHand(d, "ADJUST", "READY") /\ d # c =>
           clerk[d].who \in DOMAIN slips'[clerk[d].run]
  PROVE  Held'
<1> SUFFICES ASSUME NEW d \in Clerks, InHand(d, "ADJUST", "READY")'
             PROVE  clerk'[d].who \in DOMAIN slips'[clerk'[d].run]
  BY DEF Held
<1>1. clerk'[d] # None /\ clerk'[d].op = "ADJUST" /\ clerk'[d].step = "READY"
  BY DEF InHand
<1>2. d # c
  BY <1>1 DEF Commit
<1>3. clerk[d] # None /\ (clerk'[d] = clerk[d] \/ clerk'[d] = [clerk[d] EXCEPT !.stale = TRUE])
  BY <1>1, <1>2 DEF Commit
<1>4. clerk[d] \in RequestsOf(T)
  BY <1>3 DEF Shape
<1>5. \A q \in RequestsOf(T) :
        /\ [q EXCEPT !.stale = TRUE].run = q.run /\ [q EXCEPT !.stale = TRUE].op = q.op
        /\ [q EXCEPT !.stale = TRUE].step = q.step /\ [q EXCEPT !.stale = TRUE].who = q.who
  BY DEF RequestsOf
<1>6. /\ clerk'[d].run = clerk[d].run /\ clerk'[d].op = clerk[d].op
      /\ clerk'[d].step = clerk[d].step /\ clerk'[d].who = clerk[d].who
  BY <1>3, <1>4, <1>5
<1>7. InHand(d, "ADJUST", "READY")
  BY <1>1, <1>3, <1>6 DEF InHand
<1> QED
  BY <1>2, <1>6, <1>7

\* One clerk goes on without writing, to a request that holds what it says.
LEMMA OneHandHolds ==
  ASSUME NEW T, Shape(T), Held, slips' = slips, NEW c \in Clerks, NEW q,
         clerk' = [clerk EXCEPT ![c] = q],
         q # None /\ q.op = "ADJUST" /\ q.step = "READY" => q.who \in DOMAIN slips[q.run]
  PROVE  Held'
<1>1. \A d \in Clerks : clerk'[d] = IF d = c THEN q ELSE clerk[d]
  BY DEF Shape
<1>2. ASSUME NEW d \in Clerks, InHand(d, "ADJUST", "READY")'
      PROVE  clerk'[d].who \in DOMAIN slips'[clerk'[d].run]
  <2>1. clerk'[d] # None /\ clerk'[d].op = "ADJUST" /\ clerk'[d].step = "READY"
    BY <1>2 DEF InHand
  <2>2. CASE d = c
    BY <1>1, <2>1, <2>2
  <2>3. CASE d # c
    BY <1>1, <2>1, <2>3 DEF Held, InHand
  <2> QED
    BY <2>2, <2>3
<1> QED
  BY <1>2 DEF Held

LEMMA CloseHolds ==
  ASSUME NEW T, Shape(T), Held, NEW m \in Months, Close(m)
  PROVE  Held'
<1> SUFFICES ASSUME NEW d \in Clerks, InHand(d, "ADJUST", "READY")'
             PROVE  clerk'[d].who \in DOMAIN slips'[clerk'[d].run]
  BY DEF Held
<1>1. clerk'[d] # None /\ clerk'[d].op = "ADJUST" /\ clerk'[d].step = "READY"
  BY DEF InHand
<1>2. \/ clerk'[d] = clerk[d]
      \/ /\ clerk[d] # None /\ clerk[d].op \in {"POST", "REVERSE"}
         /\ clerk'[d] = [clerk[d] EXCEPT !.stale = TRUE]
  <2> DEFINE looked == /\ clerk[d] # None /\ clerk[d].op \in {"POST", "REVERSE"}
                       /\ clerk[d].step = "READY" /\ clerk[d].month = m
  <2>1. clerk'[d] = IF looked THEN [clerk[d] EXCEPT !.stale = TRUE] ELSE clerk[d]
    BY DEF Close
  <2>2. looked => clerk[d] # None /\ clerk[d].op \in {"POST", "REVERSE"}
    OBVIOUS
  <2> HIDE DEF looked
  <2> QED
    BY <2>1, <2>2
<1>3. CASE clerk'[d] = clerk[d]
  BY <1>1, <1>3 DEF Held, InHand, Close
<1>4. CASE clerk[d] # None /\ clerk[d].op \in {"POST", "REVERSE"}
           /\ clerk'[d] = [clerk[d] EXCEPT !.stale = TRUE]
  <2>1. clerk[d] \in RequestsOf(T)
    BY <1>4 DEF Shape
  <2>2. \A q \in RequestsOf(T) : [q EXCEPT !.stale = TRUE].op = q.op
    BY DEF RequestsOf
  <2> QED
    BY <1>1, <1>4, <2>1, <2>2
<1> QED
  BY <1>2, <1>3, <1>4

LEMMA HeldStep ==
  ASSUME PostingInv, AmountsInv, Held, [PayrollNext]_vars
  PROVE  Held'
<1> PICK T : Shape(T)
  BY DEF PostingInv
<1>1. ASSUME clerk' = clerk, slips' = slips PROVE Held'
  BY <1>1 DEF Held, InHand
<1>2. CASE Calendar \/ Register \/ UNCHANGED vars
  BY <1>1, <1>2
  DEF Calendar, NextMonth, ReopenMonth, payrollVars, Register, CreateEmployee, UpdateEmployee, vars
<1>3. CASE \E m \in Months : Close(m)
  BY <1>3, CloseHolds
<1>4. ASSUME NEW r \in Runs, NEW m \in Months, NEW u \in Users, CreatePayrollRun(r, m, u) PROVE Held'
  <2>1. \A d \in Clerks : clerk[d] # None => clerk[d].run # r
    BY <1>4 DEF CreatePayrollRun, PostingInv, Checked
  <2>2. clerk' = clerk /\ \A x \in Runs : x # r => slips'[x] = slips[x]
    BY <1>4 DEF CreatePayrollRun, AmountsInv
  <2>3. \A d \in Clerks : clerk[d] # None => clerk[d].run \in Runs
    BY DEF Shape, RequestsOf
  <2> QED
    BY <2>1, <2>2, <2>3 DEF Held, InHand
<1>5. ASSUME NEW c \in Clerks, NEW op, NEW r, NEW u, NEW e, NEW a, Begin(c, op, r, u, e, a)
      PROVE  Held'
  <2> DEFINE q == [op |-> op, step |-> "READ", run |-> r, user |-> u, totals |-> run[r].totals,
                   month |-> run[r].month, who |-> e, allowances |-> a, stale |-> FALSE]
  <2>1. clerk' = [clerk EXCEPT ![c] = q] /\ slips' = slips /\ q.step = "READ"
    BY <1>5 DEF Begin
  <2> HIDE DEF q
  <2> QED
    BY <2>1, OneHandHolds
<1>6. CASE Arrival
  BY <1>4, <1>5, <1>6 DEF Arrival, BeginAdjust, BeginDelete, BeginPost, BeginReverse
<1>7. ASSUME NEW c \in Clerks, SumSlips(c) PROVE Held'
  <2> DEFINE sum == TotalsWith(slips[clerk[c].run], clerk[c].who, clerk[c].allowances)
             q == [clerk[c] EXCEPT !.step = "READY", !.totals = sum]
  <2>1. clerk[c] \in RequestsOf(T) /\ clerk[c].who \in DOMAIN slips[clerk[c].run]
    BY <1>7 DEF SumSlips, InHand, Shape
  <2>2. clerk' = [clerk EXCEPT ![c] = q] /\ slips' = slips
    BY <1>7 DEF SumSlips, Shape
  <2> HIDE DEF sum
  <2>3. q.who = clerk[c].who /\ q.run = clerk[c].run
    BY <2>1 DEF RequestsOf
  <2> HIDE DEF q
  <2> QED
    BY <2>1, <2>2, <2>3, OneHandHolds
<1>8. ASSUME NEW c \in Clerks, clerk[c] # None, clerk[c].op \in {"POST", "REVERSE"}, NEW m,
             EnterJournal(c, m)
      PROVE  Held'
  <2> DEFINE q == [clerk[c] EXCEPT !.step = "READY", !.month = m]
  <2>1. clerk[c] \in RequestsOf(T)
    BY <1>8 DEF Shape
  <2>2. clerk' = [clerk EXCEPT ![c] = q] /\ slips' = slips
    BY <1>8 DEF EnterJournal, Shape
  <2>3. q.op = clerk[c].op
    BY <2>1 DEF RequestsOf
  <2> HIDE DEF q
  <2> QED
    BY <1>8, <2>2, <2>3, OneHandHolds
<1>9. ASSUME NEW c \in Clerks, GiveUp(c) PROVE Held'
  BY <1>9, OneHandHolds DEF GiveUp
<1>10. ASSUME NEW c \in Clerks, CommitAdjust(c) PROVE Held'
  <2>1. \A r \in Runs : DOMAIN slips'[r] = DOMAIN slips[r]
    BY <1>10 DEF CommitAdjust, AmountsInv
  <2>2. \A d \in Clerks : clerk[d] # None => clerk[d].run \in Runs
    BY DEF Shape, RequestsOf
  <2> QED
    BY <1>10, <2>1, <2>2, CommitHolds DEF CommitAdjust, Held, InHand
<1>11. ASSUME NEW c \in Clerks, CommitDelete(c) PROVE Held'
  <2> DEFINE r == clerk[c].run
  <2>1. /\ slips' = [slips EXCEPT ![r] = NoSlips] /\ Commit(c)
        /\ \A e \in DOMAIN slips[r] : ~SlipHeld(r, e)
    BY <1>11 DEF CommitDelete
  <2>2. ASSUME NEW d \in Clerks, InHand(d, "ADJUST", "READY") PROVE clerk[d].run # r
    BY <2>1, <2>2 DEF Held, SlipHeld
  <2>3. \A d \in Clerks : InHand(d, "ADJUST", "READY") => slips'[clerk[d].run] = slips[clerk[d].run]
    <3>1. \A d \in Clerks : clerk[d] # None => clerk[d].run \in Runs
      BY DEF Shape, RequestsOf
    <3>2. \A x \in Runs : x # r => slips'[x] = slips[x]
      BY <2>1 DEF AmountsInv
    <3> HIDE DEF r
    <3> QED
      BY <2>2, <3>1, <3>2 DEF InHand
  <2> QED
    BY <2>1, <2>3, CommitHolds DEF Held
<1>12. ASSUME NEW c \in Clerks, CommitPost(c) \/ CommitReverse(c) PROVE Held'
  BY <1>12, CommitHolds DEF CommitPost, CommitReverse, Held
<1>13. CASE Handling
  <2>1. PICK c \in Clerks :
          \/ SumSlips(c) \/ CommitAdjust(c)
          \/ CommitDelete(c)
          \/ JournalPost(c) \/ CommitPost(c)
          \/ JournalReverse(c) \/ CommitReverse(c)
          \/ GiveUp(c)
    BY <1>13 DEF Handling
  <2>2. CASE JournalPost(c) \/ JournalReverse(c)
    BY <1>8, <2>2 DEF JournalPost, JournalReverse, InHand
  <2> QED
    BY <1>7, <1>9, <1>10, <1>11, <1>12, <2>1, <2>2
<1> QED
  BY <1>2, <1>3, <1>6, <1>13 DEF PayrollNext

LEMMA AmountsStep ==
  ASSUME PostingInv, AmountsInv, Held, [PayrollNext]_vars
  PROVE  AmountsInv'
<1> PICK T : Shape(T)
  BY DEF PostingInv
<1>0. \A d \in Clerks : clerk[d] # None => clerk[d].totals \in Figures
  BY DEF AmountsInv, Summed
<1>1. CASE Calendar \/ UNCHANGED vars
  <2>1. UNCHANGED <<run, journal, employee, slips, clerk>>
    BY <1>1 DEF Calendar, NextMonth, ReopenMonth, payrollVars, vars
  <2> QED
    BY <1>0, <2>1, HandsSum
<1>2. ASSUME NEW m \in Months, Close(m) PROVE AmountsInv'
  <2>1. UNCHANGED <<run, journal, employee, slips>>
    BY <1>2 DEF Close, CloseMonth
  <2>2. \A d \in Clerks : \/ clerk'[d] = clerk[d]
                          \/ clerk[d] # None /\ clerk'[d] = [clerk[d] EXCEPT !.stale = TRUE]
    BY <1>2 DEF Close
  <2>3. \A q \in RequestsOf(T) : [q EXCEPT !.stale = TRUE].totals = q.totals
    BY DEF RequestsOf
  <2>4. \A d \in Clerks : clerk[d] # None => clerk[d] \in RequestsOf(T)
    BY DEF Shape
  <2>5. \A d \in Clerks : clerk'[d] # None => clerk'[d].totals \in Figures
    BY <1>0, <2>2, <2>3, <2>4
  <2> QED
    BY <2>1, <2>5, HandsSum
<1>3. CASE Register
  BY <1>3, RegisterSums
<1>4. ASSUME NEW c \in Clerks, NEW op, NEW r \in Runs, NEW u, NEW e, NEW a, Begin(c, op, r, u, e, a)
      PROVE  AmountsInv'
  <2> DEFINE q == [op |-> op, step |-> "READ", run |-> r, user |-> u, totals |-> run[r].totals,
                   month |-> run[r].month, who |-> e, allowances |-> a, stale |-> FALSE]
  <2>1. clerk' = [clerk EXCEPT ![c] = q] /\ UNCHANGED <<run, journal, employee, slips>>
    BY <1>4 DEF Begin
  <2>2. q.totals \in Figures
    BY DEF AmountsInv, Summed
  <2> HIDE DEF q
  <2> QED
    BY <2>1, <2>2, OneHandSums
<1>5. CASE Arrival
  BY <1>4, <1>5, CreateSums DEF Arrival, BeginAdjust, BeginDelete, BeginPost, BeginReverse
<1>6. ASSUME NEW c \in Clerks, clerk[c] # None, NEW m, EnterJournal(c, m) PROVE AmountsInv'
  <2> DEFINE q == [clerk[c] EXCEPT !.step = "READY", !.month = m]
  <2>1. clerk[c] \in RequestsOf(T) /\ clerk[c].totals \in Figures
    BY <1>0, <1>6 DEF Shape
  <2>2. clerk' = [clerk EXCEPT ![c] = q] /\ UNCHANGED <<run, journal, employee, slips>>
    BY <1>6 DEF EnterJournal, Shape
  <2>3. q.totals = clerk[c].totals
    BY <2>1 DEF RequestsOf
  <2> HIDE DEF q
  <2> QED
    BY <2>1, <2>2, <2>3, OneHandSums
<1>7. ASSUME NEW c \in Clerks, GiveUp(c) PROVE AmountsInv'
  BY <1>7, OneHandSums DEF GiveUp
<1>8. ASSUME NEW c \in Clerks, CommitAdjust(c) PROVE AmountsInv'
  <2>1. clerk[c].who \in DOMAIN slips[clerk[c].run]
    BY <1>8 DEF CommitAdjust, Held
  <2> QED
    BY <1>8, <2>1, CommitAdjustSums
<1>9. CASE Handling
  <2>1. PICK c \in Clerks :
          \/ SumSlips(c) \/ CommitAdjust(c)
          \/ CommitDelete(c)
          \/ JournalPost(c) \/ CommitPost(c)
          \/ JournalReverse(c) \/ CommitReverse(c)
          \/ GiveUp(c)
    BY <1>9 DEF Handling
  <2>2. CASE JournalPost(c) \/ JournalReverse(c)
    BY <1>6, <2>2 DEF JournalPost, JournalReverse, InHand
  <2>3. CASE SumSlips(c)
    BY <2>3, SumSlipsSums
  <2>4. CASE CommitDelete(c)
    BY <2>4, CommitDeleteSums
  <2>5. CASE CommitPost(c) \/ CommitReverse(c)
    BY <2>5, CommitEntrySums
  <2> QED
    BY <1>7, <1>8, <2>1, <2>2, <2>3, <2>4, <2>5
<1> QED
  BY <1>1, <1>2, <1>3, <1>5, <1>9 DEF PayrollNext

TablesInv == PostingInv /\ AmountsInv /\ Held

LEMMA TablesInvInit == PayrollInit => TablesInv
<1>1. PayrollInit => Held
  BY DEF PayrollInit, Held, InHand
<1> QED
  BY <1>1, PostingInvInit, AmountsInvInit DEF TablesInv

LEMMA TablesInvStep == TablesInv /\ [PayrollNext]_vars => TablesInv'
BY PostingInvStep, AmountsStep, HeldStep DEF TablesInv

LEMMA PayslipsRaise == AmountsInv => RaisePays
<1> SUFFICES ASSUME AmountsInv, NEW r \in Runs, NEW e \in DOMAIN slips[r]
             PROVE  SafeSalary[slips[r][e].basic]
  BY DEF RaisePays
<1>1. slips[r][e].basic \in Salaries
  BY SlipsAre DEF AmountsInv
<1>2. \A b \in Salaries : RaiseIsSafe(b)
  BY RaiseSafe, PayrollConstants
<1> QED
  BY <1>1, <1>2 DEF SafeSalary

\* Nobody who has a payslip loses by a raise more than the cent two roundings can
\* take, and nobody's pay is negative: for all tables of the shape TablesLeavePay
\* states, all salaries and all allowances (computePayslip, calculatePaye).
THEOREM RaisesAlwaysPay == PayrollSpec => []RaisePays
<1>1. TablesInv => RaisePays
  BY PayslipsRaise DEF TablesInv
<1> QED
  BY <1>1, TablesInvInit, TablesInvStep, PTL DEF PayrollSpec

----------------------------------------------------------------------------
(* What the journal pays.                                                  *)

\* What a request rests on, as long as nobody has changed the run it is about.
Grounds(q) ==
  /\ q.op \in {"ADJUST", "DELETE", "POST"} => run[q.run].status = "DRAFT"
  /\ q.op = "REVERSE" => run[q.run].status = "POSTED"
  /\ q.op \in {"POST", "REVERSE"} => q.totals = run[q.run].totals
  /\ q.op = "ADJUST" /\ q.step = "READY" => q.totals = TotalsWith(slips[q.run], q.who, q.allowances)

Grounded == \A c \in Clerks : clerk[c] # None /\ ~clerk[c].stale => Grounds(clerk[c])

\* The unique index.
Live == {"DRAFT", "POSTED"}

OneRunAMonth ==
  \A r, s \in Runs :
    run[r].status \in Live /\ run[s].status \in Live /\ run[r].month = run[s].month => r = s

AgreeInv ==
  /\ TablesInv /\ closed \subseteq Months /\ blind \in BOOLEAN
  /\ Grounded /\ OneRunAMonth /\ JournalIsPayslips

LEMMA AgreeInvInit == PayrollInit => AgreeInv
<1> SUFFICES ASSUME PayrollInit PROVE AgreeInv
  OBVIOUS
<1>1. TablesInv
  BY TablesInvInit
<1>2. closed \subseteq Months /\ blind \in BOOLEAN /\ Grounded /\ OneRunAMonth
  BY DEF PayrollInit, PeriodsInit, Grounded, OneRunAMonth, Live
<1>3. journal = [r \in Runs |-> <<>>]
  BY PayrollConstants DEF PayrollInit, PeriodsInit
<1>4. JournalIsPayslips
  BY <1>3 DEF PayrollInit, JournalIsPayslips
<1> QED
  BY <1>1, <1>2, <1>4 DEF AgreeInv

\* A commit outdates whoever else has the run in hand, and touches no other run.
LEMMA CommitGrounds ==
  ASSUME NEW T, Shape(T), Grounded, NEW c \in Clerks, Commit(c),
         \A r \in Runs : r # clerk[c].run => run'[r] = run[r] /\ slips'[r] = slips[r]
  PROVE  Grounded'
<1> SUFFICES ASSUME NEW d \in Clerks, clerk'[d] # None, ~clerk'[d].stale PROVE Grounds(clerk[d])' 
  BY DEF Grounded, Grounds
<1>1. d # c
  BY DEF Commit
<1>2. clerk[d] # None
  BY <1>1 DEF Commit
<1>3. clerk[d] \in RequestsOf(T) /\ [clerk[d] EXCEPT !.stale = TRUE].stale
  BY <1>2 DEF Shape, RequestsOf
<1>4. clerk[d].run # clerk[c].run /\ clerk'[d] = clerk[d]
  BY <1>1, <1>2, <1>3 DEF Commit
<1>5. clerk[d].run \in Runs /\ Grounds(clerk[d])
  BY <1>2, <1>3, <1>4 DEF Grounded, RequestsOf
<1>6. run'[clerk[d].run] = run[clerk[d].run] /\ slips'[clerk[d].run] = slips[clerk[d].run]
  BY <1>4, <1>5
<1> QED
  BY <1>4, <1>5, <1>6 DEF Grounds

LEMMA OneHandGrounds ==
  ASSUME NEW T, Shape(T), Grounded, UNCHANGED <<run, slips>>, NEW c \in Clerks, NEW q,
         clerk' = [clerk EXCEPT ![c] = q], q # None /\ ~q.stale => Grounds(q)
  PROVE  Grounded'
<1>1. \A d \in Clerks : clerk'[d] = IF d = c THEN q ELSE clerk[d]
  BY DEF Shape
<1>2. ASSUME NEW d \in Clerks, clerk'[d] # None, ~clerk'[d].stale PROVE Grounds(clerk'[d])
  BY <1>1, <1>2 DEF Grounded
<1>3. \A x : Grounds(x) <=> /\ x.op \in {"ADJUST", "DELETE", "POST"} => run'[x.run].status = "DRAFT"
                            /\ x.op = "REVERSE" => run'[x.run].status = "POSTED"
                            /\ x.op \in {"POST", "REVERSE"} => x.totals = run'[x.run].totals
                            /\ x.op = "ADJUST" /\ x.step = "READY" =>
                                 x.totals = TotalsWith(slips'[x.run], x.who, x.allowances)
  BY DEF Grounds
<1> QED
  BY <1>2, <1>3 DEF Grounded, Grounds

\* Only what CreatePayrollRun makes is live anew, and its month was free.
LEMMA StillOneRunAMonth ==
  ASSUME OneRunAMonth,
         \A r \in Runs : run'[r].status \in Live => run[r].status \in Live /\ run'[r].month = run[r].month
  PROVE  OneRunAMonth'
BY DEF OneRunAMonth

\* The journal while runs and payslips stand.
LEMMA JournalStands ==
  ASSUME JournalIsPayslips, UNCHANGED <<run, slips, journal, blind>>
  PROVE  JournalIsPayslips'
BY DEF JournalIsPayslips

LEMMA CreateAgrees ==
  ASSUME AgreeInv, NEW r \in Runs, NEW m \in Months, NEW u \in Users, CreatePayrollRun(r, m, u)
  PROVE  Grounded' /\ OneRunAMonth' /\ JournalIsPayslips'
<1> PICK T : Shape(T)
  BY DEF AgreeInv, TablesInv, PostingInv
<1> DEFINE drawn == [e \in Active |-> SlipFor(employee[e].basicSalary, 0)]
           sum == Totals(drawn)
           row == [status |-> "DRAFT", month |-> m, totals |-> sum, createdBy |-> u]
<1>1. /\ slips' = [slips EXCEPT ![r] = drawn] /\ run' = [run EXCEPT ![r] = row]
      /\ UNCHANGED <<journal, clerk, blind>> /\ run[r].status = "ABSENT" /\ MonthFree(m)
  BY DEF CreatePayrollRun
<1> HIDE DEF drawn
<1>2. row.status = "DRAFT" /\ row.month = m /\ row.totals = Totals(drawn)
  OBVIOUS
<1> HIDE DEF row
<1>3. /\ \A x \in Runs : run'[x] = IF x = r THEN row ELSE run[x]
      /\ \A x \in Runs : slips'[x] = IF x = r THEN drawn ELSE slips[x]
  BY <1>1 DEF Shape, AgreeInv, TablesInv, AmountsInv
<1>4. Grounded'
  <2> SUFFICES ASSUME NEW d \in Clerks, clerk[d] # None, ~clerk[d].stale PROVE Grounds(clerk[d])'
    BY <1>1 DEF Grounded, Grounds
  <2>1. clerk[d].run \in Runs /\ clerk[d].run # r
    BY <1>1 DEF Shape, RequestsOf, AgreeInv, TablesInv, PostingInv, Checked
  <2> QED
    BY <1>1, <1>3, <2>1 DEF AgreeInv, Grounded, Grounds
<1>5. OneRunAMonth'
  BY <1>1, <1>2, <1>3 DEF AgreeInv, OneRunAMonth, MonthFree, Live
<1>6. journal[r] = <<>>
  <2>1. journal[r] \in Seq(Entries(T)) /\ Len(journal[r]) = 0
    BY <1>1 DEF Shape, AgreeInv, TablesInv, PostingInv, PostedOnce
  <2> QED
    BY <2>1
<1>7. JournalIsPayslips'
  <2>1. \A i \in DOMAIN journal[r] : FALSE
    BY <1>6
  <2> QED
    BY <1>1, <1>2, <1>3, <1>6, <2>1 DEF AgreeInv, JournalIsPayslips
<1> QED
  BY <1>4, <1>5, <1>7

\* The payslips of a run that is a draft have been entered nowhere.
LEMMA DraftIsUnposted ==
  ASSUME NEW T, Shape(T), PostedOnce, NEW r \in Runs, run[r].status = "DRAFT"
  PROVE  journal[r] = <<>> /\ DOMAIN journal[r] = {}
<1>1. journal[r] \in Seq(Entries(T)) /\ Len(journal[r]) = 0
  BY DEF Shape, PostedOnce
<1> QED
  BY <1>1

LEMMA CommitAdjustAgrees ==
  ASSUME AgreeInv, NEW c \in Clerks, CommitAdjust(c)
  PROVE  Grounded' /\ OneRunAMonth' /\ JournalIsPayslips'
<1> PICK T : Shape(T)
  BY DEF AgreeInv, TablesInv, PostingInv
<1> DEFINE q == clerk[c]
           r == q.run
           new == [slips[r] EXCEPT ![q.who] = SlipFor(slips[r][q.who].basic, q.allowances)]
<1>1. /\ clerk[c] # None /\ q.op = "ADJUST" /\ q.step = "READY" /\ q \in RequestsOf(T) /\ r \in Runs
      /\ Commit(c) /\ UNCHANGED journal
  BY DEF CommitAdjust, InHand, Shape, RequestsOf
<1>2. slips' = [slips EXCEPT ![r] = new]
  BY <1>1 DEF CommitAdjust, AgreeInv, TablesInv, AmountsInv
<1>3. \A y \in Rows(T) : /\ [y EXCEPT !.totals = q.totals].totals = q.totals
                         /\ [y EXCEPT !.totals = q.totals].status = y.status
                         /\ [y EXCEPT !.totals = q.totals].month = y.month
  BY DEF Rows
<1>4. run' = [run EXCEPT ![r] = [run[r] EXCEPT !.totals = q.totals]] /\ run \in [Runs -> Rows(T)]
  BY <1>1 DEF CommitAdjust, Shape
<1>5. TotalsWith(slips[r], q.who, q.allowances) = Totals(new)
  BY DEF TotalsWith
<1>6. \A x \in Runs : x # r => run'[x] = run[x] /\ slips'[x] = slips[x]
  BY <1>1, <1>2, <1>4 DEF AgreeInv, TablesInv, AmountsInv
<1>7. /\ run'[r].totals = q.totals /\ run'[r].status = run[r].status /\ run'[r].month = run[r].month
      /\ slips'[r] = new
  BY <1>1, <1>2, <1>3, <1>4 DEF AgreeInv, TablesInv, AmountsInv
<1> HIDE DEF new
<1>8. Grounded'
  BY <1>1, <1>6, CommitGrounds DEF AgreeInv
<1>9. OneRunAMonth'
  <2>1. \A x \in Runs : run'[x].status = run[x].status /\ run'[x].month = run[x].month
    BY <1>6, <1>7
  <2> QED
    BY <2>1, StillOneRunAMonth DEF AgreeInv
<1>10. JournalIsPayslips'
  <2> SUFFICES ASSUME ~blind', NEW x \in Runs
               PROVE  /\ run'[x].status # "DELETED" => run'[x].totals = Totals(slips'[x])
                      /\ \A i \in DOMAIN journal'[x] : journal'[x][i].totals = Totals(slips'[x])
                      /\ run'[x].status = "DELETED" => journal'[x] = <<>>
    BY DEF JournalIsPayslips
  <2>1. ~blind /\ ~q.stale
    BY <1>1 DEF Commit
  <2>2. CASE x # r
    BY <1>1, <1>6, <2>1, <2>2 DEF AgreeInv, JournalIsPayslips
  <2>3. CASE x = r
    <3>1. Grounds(q)
      BY <1>1, <2>1 DEF AgreeInv, Grounded
    <3>2. run[r].status = "DRAFT" /\ q.totals = Totals(new)
      BY <1>1, <1>5, <3>1 DEF Grounds
    <3>3. journal[r] = <<>> /\ DOMAIN journal[r] = {}
      BY <1>1, <3>2, DraftIsUnposted DEF AgreeInv, TablesInv, PostingInv
    <3> QED
      BY <1>1, <1>7, <2>3, <3>2, <3>3
  <2> QED
    BY <2>2, <2>3
<1> QED
  BY <1>8, <1>9, <1>10

LEMMA CommitDeleteAgrees ==
  ASSUME AgreeInv, NEW c \in Clerks, CommitDelete(c)
  PROVE  Grounded' /\ OneRunAMonth' /\ JournalIsPayslips'
<1> PICK T : Shape(T)
  BY DEF AgreeInv, TablesInv, PostingInv
<1> DEFINE q == clerk[c]
           r == q.run
<1>1. /\ clerk[c] # None /\ q.op = "DELETE" /\ q \in RequestsOf(T) /\ r \in Runs
      /\ Commit(c) /\ UNCHANGED journal
  BY DEF CommitDelete, InHand, Shape, RequestsOf
<1>2. slips' = [slips EXCEPT ![r] = NoSlips] /\ run' = [run EXCEPT ![r].status = "DELETED"]
  BY DEF CommitDelete
<1>3. run \in [Runs -> Rows(T)] /\ \A y \in Rows(T) : [y EXCEPT !.status = "DELETED"].status = "DELETED"
  BY DEF Shape, Rows
<1>4. run' = [run EXCEPT ![r] = [run[r] EXCEPT !.status = "DELETED"]]
  BY <1>1, <1>2, <1>3
<1>5. \A x \in Runs : x # r => run'[x] = run[x] /\ slips'[x] = slips[x]
  BY <1>1, <1>2, <1>4 DEF Shape, AgreeInv, TablesInv, AmountsInv
<1>6. run'[r].status = "DELETED"
  BY <1>1, <1>3, <1>4
<1>7. Grounded'
  BY <1>1, <1>5, CommitGrounds DEF AgreeInv
<1>8. OneRunAMonth'
  <2>1. \A x \in Runs : run'[x].status \in Live => x # r
    BY <1>6 DEF Live
  <2> QED
    BY <1>5, <2>1, StillOneRunAMonth DEF AgreeInv
<1>9. JournalIsPayslips'
  <2> SUFFICES ASSUME ~blind', NEW x \in Runs
               PROVE  /\ run'[x].status # "DELETED" => run'[x].totals = Totals(slips'[x])
                      /\ \A i \in DOMAIN journal'[x] : journal'[x][i].totals = Totals(slips'[x])
                      /\ run'[x].status = "DELETED" => journal'[x] = <<>>
    BY DEF JournalIsPayslips
  <2>1. ~blind /\ ~q.stale
    BY <1>1 DEF Commit
  <2>2. CASE x # r
    BY <1>1, <1>5, <2>1, <2>2 DEF AgreeInv, JournalIsPayslips
  <2>3. CASE x = r
    <3>1. run[r].status = "DRAFT"
      BY <1>1, <2>1 DEF AgreeInv, Grounded, Grounds
    <3>2. journal[r] = <<>> /\ DOMAIN journal[r] = {}
      BY <1>1, <3>1, DraftIsUnposted DEF AgreeInv, TablesInv, PostingInv
    <3> QED
      BY <1>1, <1>6, <2>3, <3>2
  <2> QED
    BY <2>2, <2>3
<1> QED
  BY <1>7, <1>8, <1>9

LEMMA CommitEntryAgrees ==
  ASSUME AgreeInv, NEW c \in Clerks, CommitPost(c) \/ CommitReverse(c)
  PROVE  Grounded' /\ OneRunAMonth' /\ JournalIsPayslips'
<1> PICK T : Shape(T)
  BY DEF AgreeInv, TablesInv, PostingInv
<1> DEFINE q == clerk[c]
           r == q.run
           e == EntryOf(c)
<1>1. /\ clerk[c] # None /\ q.op \in {"POST", "REVERSE"} /\ q \in RequestsOf(T) /\ r \in Runs
      /\ Commit(c) /\ UNCHANGED slips /\ Enter(r, e) /\ run[r].status \in Live
  BY DEF CommitPost, CommitReverse, InHand, Shape, RequestsOf, Still, Live
<1>2. PICK s \in {"POSTED", "REVERSED"} : run' = [run EXCEPT ![r].status = s]
  BY DEF CommitPost, CommitReverse
<1>3. run \in [Runs -> Rows(T)]
      /\ \A y \in Rows(T) : /\ [y EXCEPT !.status = s].status = s
                            /\ [y EXCEPT !.status = s].month = y.month
                            /\ [y EXCEPT !.status = s].totals = y.totals
  BY DEF Shape, Rows
<1>4. run' = [run EXCEPT ![r] = [run[r] EXCEPT !.status = s]]
  BY <1>1, <1>2, <1>3
<1>5. \A x \in Runs : x # r => run'[x] = run[x]
  BY <1>1, <1>3, <1>4
<1>6. run'[r].status = s /\ run'[r].month = run[r].month /\ run'[r].totals = run[r].totals
  BY <1>1, <1>3, <1>4
<1>7. e \in Entries(T) /\ e.totals = q.totals
  <2>1. e \in Entries(T)
    BY <1>1, EntryShape
  <2> QED
    BY <2>1 DEF EntryOf
<1>8. journal[r] \in Seq(Entries(T))
  BY <1>1 DEF Shape
<1> HIDE DEF e
<1>9. journal'[r] = Append(journal[r], e) /\ \A x \in Runs : x # r => journal'[x] = journal[x]
  BY <1>1 DEF Enter, Shape
<1>10. \A i \in DOMAIN journal'[r] :
         \/ journal'[r][i] = e
         \/ i \in DOMAIN journal[r] /\ journal'[r][i] = journal[r][i]
  <2> DEFINE n == Len(journal[r])
  <2>1. /\ n \in Nat /\ DOMAIN journal[r] = 1 .. n /\ DOMAIN journal'[r] = 1 .. (n + 1)
        /\ \A i \in 1 .. n : journal'[r][i] = journal[r][i]
        /\ journal'[r][n + 1] = e
    BY <1>7, <1>8, <1>9, Appended, LenProperties
  <2> HIDE DEF n
  <2> QED
    BY <2>1
<1>11. Grounded'
  BY <1>1, <1>5, CommitGrounds DEF AgreeInv
<1>12. OneRunAMonth'
  <2>1. \A x \in Runs : run'[x].status \in Live =>
          run[x].status \in Live /\ run'[x].month = run[x].month
    BY <1>1, <1>5, <1>6
  <2> QED
    BY <2>1, StillOneRunAMonth DEF AgreeInv
<1>13. JournalIsPayslips'
  <2> SUFFICES ASSUME ~blind', NEW x \in Runs
               PROVE  /\ run'[x].status # "DELETED" => run'[x].totals = Totals(slips'[x])
                      /\ \A i \in DOMAIN journal'[x] : journal'[x][i].totals = Totals(slips'[x])
                      /\ run'[x].status = "DELETED" => journal'[x] = <<>>
    BY DEF JournalIsPayslips
  <2>1. ~blind /\ ~q.stale /\ slips' = slips
    BY <1>1 DEF Commit
  <2>2. CASE x # r
    BY <1>5, <1>9, <2>1, <2>2 DEF AgreeInv, JournalIsPayslips
  <2>3. CASE x = r
    <3>1. q.totals = run[r].totals
      BY <1>1, <2>1 DEF AgreeInv, Grounded, Grounds
    <3>2. run[r].totals = Totals(slips[r])
      BY <1>1, <2>1 DEF AgreeInv, JournalIsPayslips, Live
    <3>3. \A i \in DOMAIN journal[r] : journal[r][i].totals = Totals(slips[r])
      BY <1>1, <2>1 DEF AgreeInv, JournalIsPayslips
    <3>4. \A i \in DOMAIN journal'[r] : journal'[r][i].totals = Totals(slips[r])
      BY <1>7, <1>10, <3>1, <3>2, <3>3
    <3> QED
      BY <1>6, <2>1, <2>3, <3>2, <3>4
  <2> QED
    BY <2>2, <2>3
<1> QED
  BY <1>11, <1>12, <1>13

LEMMA AgreeInvStep == AgreeInv /\ [PayrollNext]_vars => AgreeInv'
<1> SUFFICES ASSUME AgreeInv, [PayrollNext]_vars PROVE AgreeInv'
  OBVIOUS
<1> PICK T : Shape(T)
  BY DEF AgreeInv, TablesInv, PostingInv
<1> DEFINE Rest == closed' \subseteq Months /\ blind' \in BOOLEAN
           Agrees == Grounded' /\ OneRunAMonth' /\ JournalIsPayslips'
<1>0. TablesInv'
  BY TablesInvStep DEF AgreeInv
<1>1. ASSUME UNCHANGED <<run, slips, journal, blind>>, Grounded' PROVE Agrees
  BY <1>1, StillOneRunAMonth, JournalStands DEF AgreeInv
<1>2. ASSUME UNCHANGED clerk, UNCHANGED <<run, slips, journal, blind>> PROVE Agrees
  <2>1. Grounded'
    BY <1>2 DEF AgreeInv, Grounded, Grounds
  <2> QED
    BY <1>1, <1>2, <2>1
<1>3. CASE Calendar \/ Register \/ UNCHANGED vars
  <2>1. UNCHANGED clerk /\ UNCHANGED <<run, slips, journal, blind>>
    BY <1>3 DEF Calendar, NextMonth, ReopenMonth, payrollVars, Register, CreateEmployee,
                UpdateEmployee, vars
  <2>2. closed' \subseteq closed
    BY <1>3 DEF Calendar, NextMonth, ReopenMonth, payrollVars, Register, CreateEmployee,
                UpdateEmployee, periodVars, vars
  <2>3. Agrees
    BY <1>2, <2>1
  <2>4. Rest
    BY <2>1, <2>2 DEF AgreeInv
  <2> QED
    BY <1>0, <2>3, <2>4 DEF AgreeInv
<1>4. ASSUME NEW m \in Months, Close(m) PROVE AgreeInv'
  <2>1. UNCHANGED <<run, slips, journal, blind>> /\ closed' = closed \cup {m}
    BY <1>4 DEF Close, CloseMonth
  <2>2. \A d \in Clerks : \/ clerk'[d] = clerk[d]
                          \/ clerk[d] # None /\ clerk'[d] = [clerk[d] EXCEPT !.stale = TRUE]
    BY <1>4 DEF Close
  <2>3. \A d \in Clerks : clerk[d] # None => [clerk[d] EXCEPT !.stale = TRUE].stale
    BY DEF Shape, RequestsOf
  <2>4. \A d \in Clerks : clerk'[d] # None /\ ~clerk'[d].stale => clerk'[d] = clerk[d]
    BY <2>2, <2>3
  <2>5. Grounded'
    BY <2>1, <2>4 DEF AgreeInv, Grounded, Grounds
  <2>6. Agrees
    BY <1>1, <2>1, <2>5
  <2>7. Rest
    BY <2>1 DEF AgreeInv
  <2> QED
    BY <1>0, <2>6, <2>7 DEF AgreeInv
<1>5. ASSUME NEW c \in Clerks, NEW op, NEW r, NEW u, NEW e, NEW a, Begin(c, op, r, u, e, a),
             op \in {"ADJUST", "DELETE", "POST"} => run[r].status = "DRAFT",
             op = "REVERSE" => run[r].status = "POSTED"
      PROVE  Agrees
  <2> DEFINE q == [op |-> op, step |-> "READ", run |-> r, user |-> u, totals |-> run[r].totals,
                   month |-> run[r].month, who |-> e, allowances |-> a, stale |-> FALSE]
  <2>1. clerk' = [clerk EXCEPT ![c] = q] /\ UNCHANGED <<run, slips, journal, blind>>
    BY <1>5 DEF Begin
  <2>2. Grounds(q)
    BY <1>5 DEF Grounds
  <2> HIDE DEF q
  <2>3. Grounded'
    BY <2>1, <2>2, OneHandGrounds DEF AgreeInv
  <2> QED
    BY <1>1, <2>1, <2>3
<1>6. CASE Arrival
  <2>1. PICK r \in Runs :
          \/ \E m \in Months, u \in Users : CreatePayrollRun(r, m, u)
          \/ \E c \in Clerks :
               \/ \E e \in Staff, a \in Allowances : BeginAdjust(c, r, e, a)
               \/ BeginDelete(c, r)
               \/ \E u \in Users : BeginPost(c, r, u)
               \/ BeginReverse(c, r)
    BY <1>6 DEF Arrival
  <2>2. Rest
    BY <2>1 DEF CreatePayrollRun, BeginAdjust, BeginDelete, BeginPost, BeginReverse, Begin,
                periodVars, AgreeInv
  <2>3. Agrees
    BY <1>5, <2>1, CreateAgrees DEF BeginAdjust, BeginDelete, BeginPost, BeginReverse
  <2> QED
    BY <1>0, <2>2, <2>3 DEF AgreeInv
<1>7. ASSUME NEW c \in Clerks, SumSlips(c) PROVE Agrees
  <2> DEFINE q == clerk[c]
             sum == TotalsWith(slips[q.run], q.who, q.allowances)
             next == [q EXCEPT !.step = "READY", !.totals = sum]
  <2>1. q \in RequestsOf(T) /\ q # None /\ q.op = "ADJUST"
    BY <1>7 DEF SumSlips, InHand, Shape
  <2>2. clerk' = [clerk EXCEPT ![c] = next] /\ UNCHANGED <<run, slips, journal, blind>>
    BY <1>7 DEF SumSlips, Shape
  <2>3. q.stale \/ run[q.run].status = "DRAFT"
    BY <2>1 DEF AgreeInv, Grounded, Grounds
  <2>4. /\ next.op = "ADJUST" /\ next.run = q.run /\ next.totals = sum /\ next.who = q.who
        /\ next.allowances = q.allowances /\ next.stale = q.stale
    BY <2>1 DEF RequestsOf
  <2> HIDE DEF next
  <2>5. next.stale \/ Grounds(next)
    BY <2>3, <2>4 DEF Grounds
  <2>6. Grounded'
    BY <2>2, <2>5, OneHandGrounds DEF AgreeInv
  <2> QED
    BY <1>1, <2>2, <2>6
<1>8. ASSUME NEW c \in Clerks, clerk[c] # None, clerk[c].op \in {"POST", "REVERSE"}, NEW m,
             EnterJournal(c, m)
      PROVE  Agrees
  <2> DEFINE q == clerk[c]
             next == [q EXCEPT !.step = "READY", !.month = m]
  <2>1. q \in RequestsOf(T)
    BY <1>8 DEF Shape
  <2>2. clerk' = [clerk EXCEPT ![c] = next] /\ UNCHANGED <<run, slips, journal, blind>>
    BY <1>8 DEF EnterJournal, Shape
  <2>3. /\ next.op = q.op /\ next.run = q.run /\ next.totals = q.totals /\ next.stale = q.stale
    BY <2>1 DEF RequestsOf
  <2> HIDE DEF next
  <2>4. next.stale \/ Grounds(next)
    BY <1>8, <2>3 DEF AgreeInv, Grounded, Grounds
  <2>5. Grounded'
    BY <2>2, <2>4, OneHandGrounds DEF AgreeInv
  <2> QED
    BY <1>1, <2>2, <2>5
<1>9. ASSUME NEW c \in Clerks, GiveUp(c) PROVE Agrees
  <2>1. clerk' = [clerk EXCEPT ![c] = None] /\ UNCHANGED <<run, slips, journal, blind>>
    BY <1>9 DEF GiveUp
  <2>2. Grounded'
    BY <2>1, OneHandGrounds DEF AgreeInv
  <2> QED
    BY <1>1, <2>1, <2>2
<1>10. CASE Handling
  <2>1. PICK c \in Clerks :
          \/ SumSlips(c) \/ CommitAdjust(c)
          \/ CommitDelete(c)
          \/ JournalPost(c) \/ CommitPost(c)
          \/ JournalReverse(c) \/ CommitReverse(c)
          \/ GiveUp(c)
    BY <1>10 DEF Handling
  <2>2. ASSUME JournalPost(c) \/ JournalReverse(c) PROVE Agrees
    <3>1. PICK m : EnterJournal(c, m)
      BY <2>2 DEF JournalPost, JournalReverse
    <3>2. clerk[c] # None /\ clerk[c].op \in {"POST", "REVERSE"}
      BY <2>2 DEF JournalPost, JournalReverse, InHand
    <3> HIDE DEF Agrees
    <3> QED
      BY <1>8, <3>1, <3>2
  <2>3. closed' = closed /\ blind' \in {blind, blind \/ clerk[c].stale}
    BY <2>1 DEF SumSlips, CommitAdjust, CommitDelete, JournalPost, JournalReverse, EnterJournal,
                CommitPost, CommitReverse, GiveUp, Commit, periodVars
  <2>4. Rest
    <3>1. clerk[c] # None
      BY <2>1 DEF SumSlips, CommitAdjust, CommitDelete, JournalPost, JournalReverse,
                  CommitPost, CommitReverse, GiveUp, InHand
    <3>2. clerk[c].stale \in BOOLEAN
      BY <3>1 DEF Shape, RequestsOf
    <3> QED
      BY <2>3, <3>2 DEF AgreeInv
  <2>5. Agrees
    <3>1. CommitAdjust(c) => Agrees
      BY CommitAdjustAgrees
    <3>2. CommitDelete(c) => Agrees
      BY CommitDeleteAgrees
    <3>3. CommitPost(c) \/ CommitReverse(c) => Agrees
      BY CommitEntryAgrees
    <3> HIDE DEF Agrees
    <3> QED
      BY <1>7, <1>9, <2>1, <2>2, <3>1, <3>2, <3>3
  <2> QED
    BY <1>0, <2>4, <2>5 DEF AgreeInv
<1> QED
  BY <1>3, <1>4, <1>6, <1>10 DEF PayrollNext

LEMMA AgreeInvTells == AgreeInv => PayrollAgrees
<1> SUFFICES ASSUME AgreeInv PROVE PayrollAgrees
  OBVIOUS
<1> PICK T : Shape(T)
  BY DEF AgreeInv, TablesInv, PostingInv
<1>1. PayrollTypeOK
  <2>1. today \in Months /\ closed \subseteq Months /\ employee \in [Staff -> Employee]
        /\ blind \in BOOLEAN
    BY DEF Shape, AgreeInv, TablesInv, AmountsInv, Salaried
  <2>2. run \in [Runs -> Run]
    <3>1. run \in [Runs -> Rows(T)] /\ \A r \in Runs : run[r].totals \in Figures
      BY DEF Shape, AgreeInv, TablesInv, AmountsInv, Summed
    <3>2. \A y \in Rows(T) : y.totals \in Figures => y \in Run
      BY DEF Rows, Run
    <3>3. run \in [Runs -> Rows(T)] /\ \A r \in Runs : run[r] \in Run
      BY <3>1, <3>2
    <3> QED
      BY <3>3
  <2>3. ASSUME NEW r \in Runs
        PROVE  DOMAIN slips[r] \subseteq Staff /\ \A e \in DOMAIN slips[r] : slips[r][e] \in Slip
    BY SlipsAre DEF AgreeInv, TablesInv, AmountsInv
  <2>4. ASSUME NEW r \in Runs, NEW i \in DOMAIN journal[r] PROVE journal[r][i] \in Entry
    <3>1. journal[r] \in Seq(Entries(T)) /\ journal[r][i].totals \in Figures
      BY DEF Shape, AgreeInv, TablesInv, AmountsInv, Summed
    <3>2. journal[r][i] \in Entries(T)
      BY <3>1, ElementOfSeq
    <3> QED
      BY <3>1, <3>2 DEF Entries, Entry
  <2>5. ASSUME NEW c \in Clerks, clerk[c] # None PROVE clerk[c] \in Request
    <3>1. clerk[c] \in RequestsOf(T) /\ clerk[c].totals \in Figures
      BY <2>5 DEF Shape, AgreeInv, TablesInv, AmountsInv, Summed
    <3> QED
      BY <3>1 DEF RequestsOf, Request
  <2> QED
    BY <2>1, <2>2, <2>3, <2>4, <2>5 DEF PayrollTypeOK
<1>2. MonthPaidOnce
  <2> SUFFICES ASSUME ~blind, NEW m \in Months
               PROVE  Cardinality({r \in Runs : run[r].month = m /\ Len(journal[r]) = 1}) <= 1
    BY DEF MonthPaidOnce
  <2> DEFINE P == {r \in Runs : run[r].month = m /\ Len(journal[r]) = 1}
  <2>1. ASSUME NEW r \in P PROVE run[r].status = "POSTED"
    <3>1. run[r].status # "DELETED"
      <4>1. Len(<<>>) # 1
        OBVIOUS
      <4> QED
        BY <4>1 DEF AgreeInv, JournalIsPayslips
    <3>2. run[r].status \in {"ABSENT", "DRAFT", "POSTED", "REVERSED", "DELETED"}
      BY DEF Shape, Rows
    <3> QED
      BY <3>1, <3>2 DEF AgreeInv, TablesInv, PostingInv, PostedOnce
  <2>2. \A r, s \in P : r = s
    BY <2>1 DEF AgreeInv, OneRunAMonth, Live
  <2>3. P = {} \/ \E r : P = {r}
    BY <2>2
  <2> HIDE DEF P
  <2>4. Cardinality(P) <= 1
    <3>1. CASE P = {}
      BY <3>1, FS_EmptySet
    <3>2. ASSUME NEW r, P = {r} PROVE Cardinality(P) <= 1
      BY <3>2, FS_Singleton
    <3> QED
      BY <2>3, <3>1, <3>2
  <2> QED
    BY <2>4 DEF P
<1> QED
  BY <1>1, <1>2 DEF AgreeInv, PayrollAgrees

\* Unless a commit rested on a row that had changed: what is entered for a run is
\* what its payslips come to, and a month is paid once, whatever the clerks do at
\* the same time; the amounts are naturals throughout (updateDraftPayslip,
\* deleteDraftPayrollRun, postPayrollRun, reversePayrollRun).
THEOREM PayrollAlwaysAgrees == PayrollSpec => []PayrollAgrees
BY AgreeInvInit, AgreeInvStep, AgreeInvTells, PTL DEF PayrollSpec
=============================================================================
