------------------------------ MODULE Billing ------------------------------
(***************************************************************************)
(* One tenant's subscription to the platform: server/src/billing.ts.       *)
(*                                                                         *)
(* The billing run reads every subscription before its first transaction   *)
(* and decides from that copy; the settlement of an invoice counts what is *)
(* still overdue and writes from that count.  Neither locks what it read,  *)
(* and both write by id alone, so each is one step per read and one for    *)
(* its commit.                                                             *)
(***************************************************************************)
EXTENDS Naturals, Sequences, FiniteSets

CONSTANTS
  Month,        \* addMonths(d, 1)
  GraceDays,    \* an invoice is due this long after it was issued
  SuspendDays,  \* PAST_DUE_TO_SUSPEND_DAYS
  TrialEnd,     \* when the trial the tenant signed up for ends
  LastDay,      \* bound on the clock
  Runs,         \* processes that execute a billing run (cron, platform staff)
  Collectors,   \* processes that settle subscription invoices
  Idle          \* a process that is not in the middle of anything

ASSUME BillingConstants ==
  /\ Month \in Nat \ {0}
  /\ GraceDays \in Nat
  /\ SuspendDays \in Nat
  /\ TrialEnd \in Nat
  /\ LastDay \in Nat

VARIABLES
  clock,         \* the time of day a run uses as asOf
  subscription,  \* the subscriptions row: status and currentPeriodEnd
  tenant,        \* tenants.status
  invoices,      \* subscription_invoices, in the order they were issued
  run,           \* what a billing run has read of this subscription
  settling       \* what a settlement has read

billingVars == <<clock, subscription, tenant, invoices, run, settling>>

Subscription ==
  [status : {"TRIALING", "ACTIVE", "PAST_DUE", "SUSPENDED"}, periodEnd : Nat]

SubscriptionInvoice ==
  [from : Nat, to : Nat, due : Nat, status : {"pending", "overdue", "paid"}]

Run == [sub : Subscription, asOf : Nat, ready : BOOLEAN, late : SUBSET Nat, long : BOOLEAN]

\* Settling: the invoice was found unpaid; counted: it was updated and the
\* invoices that are overdue without it were counted.
Settling == [invoice : Nat, counted : BOOLEAN, clear : BOOLEAN]

BillingTypeOK ==
  /\ clock \in Nat
  /\ subscription \in Subscription
  /\ tenant \in {"TRIAL", "ACTIVE", "PAST_DUE", "SUSPENDED"}
  /\ invoices \in Seq(SubscriptionInvoice)
  /\ \A r \in Runs : run[r] = Idle \/ run[r] \in Run
  /\ \A c \in Collectors : settling[c] = Idle \/ settling[c] \in Settling

\* signupTenant: a trial in both tables, nothing invoiced.
BillingInit ==
  /\ clock = 0
  /\ subscription = [status |-> "TRIALING", periodEnd |-> TrialEnd]
  /\ tenant = "TRIAL"
  /\ invoices = <<>>
  /\ run = [r \in Runs |-> Idle]
  /\ settling = [c \in Collectors |-> Idle]

Tick ==
  /\ clock < LastDay
  /\ clock' = clock + 1
  /\ UNCHANGED <<subscription, tenant, invoices, run, settling>>

----------------------------------------------------------------------------
(* The billing run.                                                        *)

\* Faulty variant: the period starts on the day of the run.
InvoiceFromToday(from, asOf) ==
  [from |-> asOf, to |-> asOf + Month, due |-> asOf + GraceDays, status |-> "pending"]

\* issueSubscriptionInvoice.
InvoiceFrom(from, asOf) ==
  [from |-> from, to |-> from + Month, due |-> asOf + GraceDays, status |-> "pending"]

\* Faulty variant: a paid invoice past its due date is dunned too.
PastDueAny(status, asOf) == {i \in DOMAIN invoices : invoices[i].due < asOf}

\* The invoices in a status whose due date has passed.
PastDue(status, asOf) ==
  {i \in DOMAIN invoices : invoices[i].status = status /\ invoices[i].due < asOf}

\* SELECT of all subscriptions, before any transaction.
StartRun(r) ==
  /\ run[r] = Idle
  /\ run' = [run EXCEPT ![r] = [sub |-> subscription, asOf |-> clock,
                                ready |-> FALSE, late |-> {}, long |-> FALSE]]
  /\ UNCHANGED <<clock, subscription, tenant, invoices, settling>>

TrialOver(s, asOf) == s.status = "TRIALING" /\ asOf >= TrialEnd

\* The transaction of a subscription whose trial is over.
EndTrial(r) ==
  /\ run[r] # Idle
  /\ TrialOver(run[r].sub, run[r].asOf)
  /\ invoices' = Append(invoices, InvoiceFrom(TrialEnd, run[r].asOf))
  /\ subscription' = [status |-> "ACTIVE", periodEnd |-> TrialEnd + Month]
  /\ tenant' = "ACTIVE"
  /\ run' = [run EXCEPT ![r] = Idle]
  /\ UNCHANGED <<clock, settling>>

\* The transaction of any other subscription selects what is overdue: what
\* was pending, for dunning, or what has been overdue for long.
SelectOverdue(r) ==
  /\ run[r] # Idle
  /\ ~run[r].ready
  /\ ~TrialOver(run[r].sub, run[r].asOf)
  /\ LET asOf == run[r].asOf IN
     run' = [run EXCEPT
       ![r].ready = TRUE,
       ![r].late = IF run[r].sub.status = "ACTIVE" THEN PastDue("pending", asOf) ELSE {},
       ![r].long = /\ run[r].sub.status = "PAST_DUE"
                   /\ asOf >= SuspendDays
                   /\ PastDue("overdue", asOf - SuspendDays) # {}]
  /\ UNCHANGED <<clock, subscription, tenant, invoices, settling>>

\* The period is over and the next one is invoiced.
Renews(a) == a.sub.status = "ACTIVE" /\ a.asOf >= a.sub.periodEnd

\* Faulty variant: the suspension is never written.
NewStatusWarnsOnly(a, old) == IF a.late # {} THEN "PAST_DUE" ELSE old

\* The status a run writes, if it writes one.
NewStatus(a, old) ==
  IF a.late # {} THEN "PAST_DUE" ELSE IF a.long THEN "SUSPENDED" ELSE old

\* A settlement that has counted has updated its invoice, a run that renews
\* has updated the subscription: each keeps the row until it commits.
InvoiceHeld(c, i) ==
  \E d \in Collectors \ {c} : settling[d] # Idle /\ settling[d].counted /\ settling[d].invoice = i

SubscriptionHeld == \E r \in Runs : run[r] # Idle /\ run[r].ready /\ Renews(run[r])

\* Everything the transaction writes, each row by its id.
CommitRun(r) ==
  /\ run[r] # Idle
  /\ run[r].ready
  /\ \A i \in run[r].late : ~InvoiceHeld(Idle, i)
  /\ LET a == run[r]
         marked == [i \in DOMAIN invoices |->
                      IF i \in a.late THEN [invoices[i] EXCEPT !.status = "overdue"]
                      ELSE invoices[i]]
     IN  /\ invoices' = IF Renews(a) THEN Append(marked, InvoiceFrom(a.sub.periodEnd, a.asOf))
                        ELSE marked
         /\ subscription' =
              [status |-> NewStatus(a, subscription.status),
               periodEnd |-> IF Renews(a) THEN a.sub.periodEnd + Month
                             ELSE subscription.periodEnd]
         /\ tenant' = NewStatus(a, tenant)
  /\ run' = [run EXCEPT ![r] = Idle]
  /\ UNCHANGED <<clock, settling>>

\* An error or a crash: the transaction is rolled back.
AbortRun(r) ==
  /\ run[r] # Idle
  /\ run' = [run EXCEPT ![r] = Idle]
  /\ UNCHANGED <<clock, subscription, tenant, invoices, settling>>

----------------------------------------------------------------------------
(* Settlement of an invoice.                                               *)

\* SELECT of the invoice, which must not be paid yet.
StartSettling(c, i) ==
  /\ settling[c] = Idle
  /\ i \in DOMAIN invoices
  /\ invoices[i].status # "paid"
  /\ settling' = [settling EXCEPT ![c] = [invoice |-> i, counted |-> FALSE, clear |-> FALSE]]
  /\ UNCHANGED <<clock, subscription, tenant, invoices, run>>

\* Faulty variant: every settlement is taken to clear the arrears.
ClearAlways(i) == TRUE

\* No invoice but this one is overdue.
Clear(i) == \A j \in DOMAIN invoices \ {i} : invoices[j].status # "overdue"

\* UPDATE of the invoice, seen by this transaction alone, and the count of
\* the invoices that are overdue.
CountOverdue(c) ==
  /\ settling[c] # Idle
  /\ ~settling[c].counted
  /\ ~InvoiceHeld(c, settling[c].invoice)
  /\ settling' = [settling EXCEPT ![c].counted = TRUE,
                                  ![c].clear = Clear(settling[c].invoice)]
  /\ UNCHANGED <<clock, subscription, tenant, invoices, run>>

\* The invoice is paid; a tenant with nothing overdue is active again.
CommitSettling(c) ==
  /\ settling[c] # Idle
  /\ settling[c].counted
  /\ settling[c].clear => ~SubscriptionHeld
  /\ invoices' = [invoices EXCEPT ![settling[c].invoice].status = "paid"]
  /\ subscription' = IF settling[c].clear THEN [subscription EXCEPT !.status = "ACTIVE"]
                     ELSE subscription
  /\ tenant' = IF settling[c].clear THEN "ACTIVE" ELSE tenant
  /\ settling' = [settling EXCEPT ![c] = Idle]
  /\ UNCHANGED <<clock, run>>

----------------------------------------------------------------------------

RunStep ==
  \E r \in Runs : StartRun(r) \/ EndTrial(r) \/ SelectOverdue(r) \/ CommitRun(r) \/ AbortRun(r)

\* What the run and the clock do; who settles is left to the module that
\* knows about payment attempts.
RunOrTick == RunStep \/ Tick
=============================================================================
