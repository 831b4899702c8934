------------------------------ MODULE Payroll ------------------------------
(***************************************************************************)
(* Employees, what they are paid and what is withheld, monthly payroll     *)
(* runs and their payslips: server/src/payroll.ts, posting into the        *)
(* journal of AccountingPeriods under the approval policy of               *)
(* approval-policies.ts.                                                   *)
(*                                                                         *)
(* Every handler of a run reads the run without a lock, decides on what it *)
(* read, and writes later.  Adjusting and deleting write by id alone;      *)
(* posting and reversing write under the condition that the status is      *)
(* still the one they read.  A handler is therefore a look and a commit,   *)
(* with what it holds in clerk[c] in between, and may die in between.      *)
(***************************************************************************)
EXTENDS AccountingPeriods, FiniteSets, FiniteSetsExt

CONSTANTS
  Staff, Users,
  Clerks,             \* server processes that handle requests about runs
  Runs,               \* payroll runs that may come to exist
  Salaries,           \* basic monthly salaries, in cents
  Allowances,         \* allowances a payslip may be adjusted to
  SecondPersonFrom,   \* gross amount from which the policy wants a second person
  None                \* no user, and no request in hand

\* The tables come from the country pack; amounts are cents.
CONSTANTS
  RateUnit,       \* a rate of RateUnit is 100 %
  BandLimits,     \* upToMonthly of the bands, the unlimited last one left out
  BandRates,      \* percent of every band
  LevyRate, EmployeeRate, EmployerRate,
  Ceiling,        \* insurable earnings are capped here
  Probes          \* allowances at which a raise of a cent is tried

VARIABLES
  employee,       \* employees
  run,            \* payroll_runs
  slips,          \* payslips of every run, by employee
  clerk,          \* the request every clerk has in hand
  blind           \* history: a commit has rested on a row changed since it was read

payrollVars == <<employee, run, slips, clerk, blind>>
vars == <<periodVars, journal, payrollVars>>

ASSUME PayrollConstants ==
  /\ Sources = Runs
  /\ Salaries \subseteq Nat /\ Allowances \subseteq Nat
  /\ SecondPersonFrom \in Nat
  /\ IsFiniteSet(Staff)

ASSUME PayrollTaxConstants ==
  /\ RateUnit \in Nat \ {0}
  /\ BandLimits \in Seq(Nat) /\ BandRates \in Seq(Nat)
  /\ Len(BandRates) = Len(BandLimits) + 1
  /\ \A i, j \in DOMAIN BandLimits : i < j => BandLimits[i] < BandLimits[j]
  /\ {LevyRate, EmployeeRate, EmployerRate, Ceiling} \subseteq Nat
  /\ Probes \subseteq Nat

\* The shape of the tables in countries/zw.ts, which leaves everybody a pay: the
\* first band is free of tax and wider than a cent for every band, and no band
\* takes, with the levy on what it takes, more than there is in it.
ASSUME TablesLeavePay ==
  /\ EmployeeRate <= RateUnit /\ LevyRate <= RateUnit
  /\ BandLimits # <<>> /\ BandLimits[1] >= Len(BandRates) /\ BandRates[1] = 0
  /\ \A i \in DOMAIN BandRates : BandRates[i] * (RateUnit + LevyRate) <= RateUnit * RateUnit

----------------------------------------------------------------------------
(* What computePayslip and calculatePaye make of a salary.                 *)

\* mulRate: half a cent rounds up.
MulRate(cents, rate) == (cents * rate + RateUnit \div 2) \div RateUnit

Capped(cents, bound) == IF cents < bound THEN cents ELSE bound

\* The part of the taxable pay below the upper end of band i, and inside it.
Below(taxable, i) ==
  IF i = 0 THEN 0
  ELSE IF i > Len(BandLimits) THEN taxable ELSE Capped(taxable, BandLimits[i])

InBand(taxable, i) == Below(taxable, i) - Below(taxable, i - 1)

\* Faulty variant: the band a salary falls in taxes all of it.
PayeAtTopRate(taxable) ==
  LET top == Len(SelectSeq(BandLimits, LAMBDA l : l < taxable)) + 1
  IN  MulRate(taxable, BandRates[top])

\* calculatePaye: every band taxes its part and rounds it.
Paye(taxable) ==
  SumFunction([i \in DOMAIN BandRates |-> MulRate(InBand(taxable, i), BandRates[i])])

Payslip(basic, allowances) ==
  LET gross == basic + allowances
      insurable == Capped(gross, Ceiling)
      ssEmployee == MulRate(insurable, EmployeeRate)
      paye == Paye(gross - ssEmployee)
      levy == MulRate(paye, LevyRate)
  IN  [gross |-> gross, ssEmployee |-> ssEmployee,
       ssEmployer |-> MulRate(insurable, EmployerRate),
       paye |-> paye, levy |-> levy, net |-> gross - ssEmployee - paye - levy]

\* A payslip that would come out negative is refused.
Accepted(basic, allowances) == Payslip(basic, allowances).net >= 0

----------------------------------------------------------------------------
(* Employees, runs and payslips.                                           *)

Figures == [gross : Nat, ssEmployee : Nat, ssEmployer : Nat, paye : Nat, levy : Nat, net : Nat]

Employee == [status : {"ABSENT", "ACTIVE", "ENDED"}, basicSalary : Nat]

\* A deleted run keeps its last row here, with no payslips.
Run ==
  [status : {"ABSENT", "DRAFT", "POSTED", "REVERSED", "DELETED"}, month : Months,
   totals : Figures, createdBy : Users \cup {None}]

\* A payslip: what it was computed from (the allowances are in pay.gross).
Slip == [basic : Nat, pay : Figures]

Entry == [kind : {"POST", "REVERSE"}, month : Months, totals : Figures, by : Users \cup {None}]

\* A request: what it read of the run and is to write, and whether another
\* transaction has since changed what it decided on.  The user is kept where the
\* policy asks for it.
Request ==
  [op : {"ADJUST", "DELETE", "POST", "REVERSE"}, step : {"READ", "READY"},
   run : Runs, user : Users \cup {None}, totals : Figures, month : Months,
   who : Staff \cup {None}, allowances : Nat, stale : BOOLEAN]

PayrollTypeOK ==
  /\ today \in Months /\ closed \subseteq Months
  /\ employee \in [Staff -> Employee]
  /\ run \in [Runs -> Run]
  /\ \A r \in Runs :
       /\ DOMAIN slips[r] \subseteq Staff
       /\ \A e \in DOMAIN slips[r] : slips[r][e] \in Slip
       /\ \A i \in DOMAIN journal[r] : journal[r][i] \in Entry
  /\ \A c \in Clerks : clerk[c] # None => clerk[c] \in Request
  /\ blind \in BOOLEAN

\* runTotals.
Totals(s) ==
  LET Sum(figure) == SumFunction([e \in DOMAIN s |-> s[e].pay[figure]])
  IN  [gross |-> Sum("gross"), ssEmployee |-> Sum("ssEmployee"), ssEmployer |-> Sum("ssEmployer"),
       paye |-> Sum("paye"), levy |-> Sum("levy"), net |-> Sum("net")]

NoSlips == [e \in {} |-> 0]

SlipFor(basic, allowances) == [basic |-> basic, pay |-> Payslip(basic, allowances)]

PayrollInit ==
  /\ PeriodsInit
  /\ employee = [e \in Staff |-> [status |-> "ABSENT", basicSalary |-> 0]]
  /\ run = [r \in Runs |->
       [status |-> "ABSENT", month |-> 1, totals |-> Totals(NoSlips), createdBy |-> None]]
  /\ slips = [r \in Runs |-> NoSlips]
  /\ clerk = [c \in Clerks |-> None]
  /\ blind = FALSE

----------------------------------------------------------------------------
(* The register.                                                           *)

CreateEmployee(e, salary) ==
  /\ employee[e].status = "ABSENT"
  /\ employee' = [employee EXCEPT ![e] = [status |-> "ACTIVE", basicSalary |-> salary]]
  /\ UNCHANGED <<periodVars, journal, run, slips, clerk, blind>>

UpdateEmployee(e, status, salary) ==
  /\ employee[e].status # "ABSENT"
  /\ employee' = [employee EXCEPT ![e] = [status |-> status, basicSalary |-> salary]]
  /\ UNCHANGED <<periodVars, journal, run, slips, clerk, blind>>

----------------------------------------------------------------------------
(* A run comes to be in one transaction.                                   *)

\* The look-up of createPayrollRun and the unique index under it.
MonthFree(m) == \A r \in Runs : run[r].status \in {"DRAFT", "POSTED"} => run[r].month # m

Active == {e \in Staff : employee[e].status = "ACTIVE"}

CreatePayrollRun(r, m, u) ==
  LET drawn == [e \in Active |-> SlipFor(employee[e].basicSalary, 0)] IN
  /\ run[r].status = "ABSENT"
  /\ MonthFree(m)
  /\ Active # {}
  /\ \A e \in Active : Accepted(employee[e].basicSalary, 0)
  /\ slips' = [slips EXCEPT ![r] = drawn]
  /\ run' = [run EXCEPT ![r] =
       [status |-> "DRAFT", month |-> m, totals |-> Totals(drawn), createdBy |-> u]]
  /\ UNCHANGED <<periodVars, journal, employee, clerk, blind>>

----------------------------------------------------------------------------
(* The handlers of a run.                                                  *)

\* Faulty variant: the policy binds above the threshold only.
MayPostBelow(u, r) == run[r].totals.gross <= SecondPersonFrom \/ u # run[r].createdBy

\* evaluatePolicy, asked about the gross total the handler read.
MayPost(u, r) == run[r].totals.gross < SecondPersonFrom \/ u # run[r].createdBy

Begin(c, op, r, u, e, a) ==
  /\ clerk[c] = None
  /\ clerk' = [clerk EXCEPT ![c] =
       [op |-> op, step |-> "READ", run |-> r, user |-> u, totals |-> run[r].totals,
        month |-> run[r].month, who |-> e, allowances |-> a, stale |-> FALSE]]
  /\ UNCHANGED <<periodVars, journal, employee, run, slips, blind>>

BeginAdjust(c, r, e, a) ==
  /\ run[r].status = "DRAFT"
  /\ e \in DOMAIN slips[r]
  /\ Begin(c, "ADJUST", r, None, e, a)

BeginDelete(c, r) == run[r].status = "DRAFT" /\ Begin(c, "DELETE", r, None, None, 0)

BeginPost(c, r, u) ==
  /\ run[r].status = "DRAFT"
  /\ MayPost(u, r)
  /\ Begin(c, "POST", r, u, None, 0)

BeginReverse(c, r) == run[r].status = "POSTED" /\ Begin(c, "REVERSE", r, None, None, 0)

InHand(c, op, step) == clerk[c] # None /\ clerk[c].op = op /\ clerk[c].step = step

\* The row lock an adjustment holds on its payslip until it commits.
SlipHeld(r, e) == \E c \in Clerks : InHand(c, "ADJUST", "READY") /\ clerk[c].run = r /\ clerk[c].who = e

\* Faulty variant: the slips are summed before the adjusted one is written.
TotalsBefore(s, e, a) == Totals(s)

\* The payslips as the adjusting transaction sees them after its own update.
TotalsWith(s, e, a) == Totals([s EXCEPT ![e] = SlipFor(s[e].basic, a)])

\* updateDraftPayslip writes its payslip and sums all of the run's.
SumSlips(c) ==
  /\ InHand(c, "ADJUST", "READ")
  /\ LET q == clerk[c] IN
     /\ q.who \in DOMAIN slips[q.run]
     /\ Accepted(slips[q.run][q.who].basic, q.allowances)
     /\ ~SlipHeld(q.run, q.who)
     /\ clerk' = [clerk EXCEPT ![c].step = "READY",
                    ![c].totals = TotalsWith(slips[q.run], q.who, q.allowances)]
  /\ UNCHANGED <<periodVars, journal, employee, run, slips, blind>>

\* postJournal, inside the transaction of a posting or a reversal: a run is
\* entered in its month, a reversal in the current one.
EnterJournal(c, m) ==
  /\ PeriodOpen(m)
  /\ LET t == clerk[c].totals IN
     Postable(<<t.gross + t.ssEmployer>>,
              <<t.paye + t.levy, t.ssEmployee + t.ssEmployer, t.net>>)
  /\ clerk' = [clerk EXCEPT ![c].step = "READY", ![c].month = m]
  /\ UNCHANGED <<periodVars, journal, employee, run, slips, blind>>

JournalPost(c) == InHand(c, "POST", "READ") /\ EnterJournal(c, clerk[c].month)
JournalReverse(c) == InHand(c, "REVERSE", "READ") /\ EnterJournal(c, today)

\* A commit releases the clerk and outdates what others read of the run.
Commit(c) ==
  /\ clerk' = [d \in Clerks |->
       IF d = c THEN None
       ELSE IF clerk[d] # None /\ clerk[d].run = clerk[c].run
            THEN [clerk[d] EXCEPT !.stale = TRUE] ELSE clerk[d]]
  /\ blind' = (blind \/ clerk[c].stale)
  /\ UNCHANGED <<periodVars, employee>>

CommitAdjust(c) ==
  /\ InHand(c, "ADJUST", "READY")
  /\ LET q == clerk[c] IN
     /\ slips' = [slips EXCEPT ![q.run][q.who] = SlipFor(@.basic, q.allowances)]
     /\ run' = [run EXCEPT ![q.run].totals = q.totals]
  /\ Commit(c)
  /\ UNCHANGED journal

CommitDelete(c) ==
  /\ InHand(c, "DELETE", "READ")
  /\ LET r == clerk[c].run IN
     /\ \A e \in DOMAIN slips[r] : ~SlipHeld(r, e)
     /\ slips' = [slips EXCEPT ![r] = NoSlips]
     /\ run' = [run EXCEPT ![r].status = "DELETED"]
  /\ Commit(c)
  /\ UNCHANGED journal

EntryOf(c) ==
  [kind |-> clerk[c].op, month |-> clerk[c].month, totals |-> clerk[c].totals,
   by |-> clerk[c].user]

\* Faulty variant: the posting is written whatever has become of the run.
StillAny(r, status) == run[r].status # "DELETED"

\* The condition of the last update of a posting and of a reversal.
Still(r, status) == run[r].status = status

CommitPost(c) ==
  /\ InHand(c, "POST", "READY")
  /\ Still(clerk[c].run, "DRAFT")
  /\ run' = [run EXCEPT ![clerk[c].run].status = "POSTED"]
  /\ Enter(clerk[c].run, EntryOf(c))
  /\ Commit(c)
  /\ UNCHANGED slips

CommitReverse(c) ==
  /\ InHand(c, "REVERSE", "READY")
  /\ Still(clerk[c].run, "POSTED")
  /\ run' = [run EXCEPT ![clerk[c].run].status = "REVERSED"]
  /\ Enter(clerk[c].run, EntryOf(c))
  /\ Commit(c)
  /\ UNCHANGED slips

\* A refusal, a lost condition or a crash, and an adjustment or a deletion that
\* finds its run gone: the transaction leaves nothing.
GiveUp(c) ==
  /\ clerk[c] # None
  /\ clerk' = [clerk EXCEPT ![c] = None]
  /\ UNCHANGED <<periodVars, journal, employee, run, slips, blind>>

----------------------------------------------------------------------------
\* The calendar and the closing of months.  A close outdates the look a
\* posting has already taken at the month.
Close(m) ==
  /\ CloseMonth(m)
  /\ clerk' = [d \in Clerks |->
       IF clerk[d] # None /\ clerk[d].op \in {"POST", "REVERSE"} /\ clerk[d].step = "READY"
          /\ clerk[d].month = m
       THEN [clerk[d] EXCEPT !.stale = TRUE] ELSE clerk[d]]
  /\ UNCHANGED <<employee, run, slips, blind>>

Calendar == (NextMonth \/ \E m \in Months : ReopenMonth(m)) /\ UNCHANGED payrollVars

Register ==
  \E e \in Staff, s \in Salaries :
    \/ CreateEmployee(e, s)
    \/ \E status \in {"ACTIVE", "ENDED"} : UpdateEmployee(e, status, s)

Arrival ==
  \E r \in Runs :
    \/ \E m \in Months, u \in Users : CreatePayrollRun(r, m, u)
    \/ \E c \in Clerks :
         \/ \E e \in Staff, a \in Allowances : BeginAdjust(c, r, e, a)
         \/ BeginDelete(c, r)
         \/ \E u \in Users : BeginPost(c, r, u)
         \/ BeginReverse(c, r)

Handling ==
  \E c \in Clerks :
    \/ SumSlips(c) \/ CommitAdjust(c)
    \/ CommitDelete(c)
    \/ JournalPost(c) \/ CommitPost(c)
    \/ JournalReverse(c) \/ CommitReverse(c)
    \/ GiveUp(c)

PayrollNext ==
  \/ Calendar
  \/ \E m \in Months : Close(m)
  \/ Register
  \/ Arrival
  \/ Handling

PayrollSpec == PayrollInit /\ [][PayrollNext]_vars

----------------------------------------------------------------------------
(* Properties.                                                             *)

\* A run is posted at most once and reversed at most once, in that order, and
\* while its row exists the status says which: whatever two clerks read, only
\* one posting passes the condition.
PostedOnce ==
  \A r \in Runs :
    /\ Len(journal[r]) <= 2
    /\ Len(journal[r]) >= 1 => journal[r][1].kind = "POST"
    /\ Len(journal[r]) = 2 => journal[r][2].kind = "REVERSE"
    /\ run[r].status \in {"ABSENT", "DRAFT"} => Len(journal[r]) = 0
    /\ run[r].status = "POSTED" => Len(journal[r]) = 1
    /\ run[r].status = "REVERSED" => Len(journal[r]) = 2

\* A payroll at or above the policy's amount is not in the journal unless
\* somebody else than the user who prepared it posted it, even when the run was
\* adjusted by others between the approval check and the posting.
NobodyPaysAlone ==
  \A r \in Runs : \A i \in DOMAIN journal[r] :
    journal[r][i].kind = "POST" =>
      journal[r][i].totals.gross < SecondPersonFrom \/ journal[r][i].by # run[r].createdBy

\* Unless a commit rested on a row that had changed: the run's totals are those
\* of its payslips, what was entered for it is exactly that, a reversal takes
\* back what was entered, and a run that is gone has left nothing.
JournalIsPayslips ==
  ~blind => \A r \in Runs :
    /\ run[r].status # "DELETED" => run[r].totals = Totals(slips[r])
    /\ \A i \in DOMAIN journal[r] : journal[r][i].totals = Totals(slips[r])
    /\ run[r].status = "DELETED" => journal[r] = <<>>

\* What a cent on top of some allowance does to the net pay on a basic salary:
\* it takes at most the cent that two roundings (PAYE and the levy on it) can
\* take together, and nobody is paid a negative amount.
RaiseIsSafe(basic) ==
  \A a \in Probes :
    /\ Payslip(basic, a).net >= 0
    /\ Payslip(basic, a + 1).net >= Payslip(basic, a).net - 1

\* One table for the salaries, which TLC works out once.
SafeSalary == [basic \in Salaries |-> RaiseIsSafe(basic)]

\* Whoever has a payslip never loses by a raise, across every band edge and the
\* insurance ceiling: computePayslip rounds each band, the levy on their sum and
\* the capped contribution by themselves.
RaisePays == \A r \in Runs : \A e \in DOMAIN slips[r] : SafeSalary[slips[r][e].basic]

\* Unless a commit rested on a row that had changed, the wages of a month stand
\* in the journal once: a second run takes the place of a reversed one.
MonthPaidOnce ==
  ~blind => \A m \in Months :
    Cardinality({r \in Runs : run[r].month = m /\ Len(journal[r]) = 1}) <= 1

\* A closed month gains no entry, except from a posting that had looked at the
\* month before it was closed.
ClosedUnlessUnderWay ==
  [][~blind' => \A m \in closed : EntriesIn(m)' = EntriesIn(m)]_vars

\* The journal pays what the payslips say, once a month, on states of the right
\* types.
PayrollAgrees == PayrollTypeOK /\ JournalIsPayslips /\ MonthPaidOnce
=============================================================================
