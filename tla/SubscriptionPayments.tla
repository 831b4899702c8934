------------------------ MODULE SubscriptionPayments ------------------------
(***************************************************************************)
(* Online payment of subscription invoices through Paynow:                 *)
(* server/src/subscription-payments.ts, and the settlement in billing.ts   *)
(* it ends in.                                                             *)
(*                                                                         *)
(* An attempt is stored before the provider is called.  Whatever the       *)
(* provider's callback or the customer's return page says, the stored      *)
(* attempt is read, the provider is polled, and its answer applied: three  *)
(* steps, between which other servers may do the same.                     *)
(***************************************************************************)
EXTENDS Billing

CONSTANTS
  PaymentKeys,    \* idempotency keys of initiations
  Payable         \* the invoices the tenant may try to pay online

VARIABLES
  attempt,        \* subscription_payment_attempts, by invoice and key
  calls,          \* attempts whose initiation the provider has not answered
  provider,       \* the provider's own record of each attempt
  check           \* the reconciliation a process is in the middle of

paymentVars == <<attempt, calls, provider, check>>
vars == <<billingVars, paymentVars>>

Attempts == Payable \X PaymentKeys
InvoiceOf(a) == a[1]

ASSUME PayableAreInvoices == Payable \subseteq Nat

ASSUME ProcessesAreApart == IsFiniteSet(Runs) /\ IsFiniteSet(Collectors) /\ Runs \cap Collectors = {}

Terminal == {"PAID", "FAILED", "CANCELLED", "DISPUTED", "REFUNDED", "REQUIRES_REVIEW"}
Statuses == Terminal \cup {"NONE", "CREATED", "PENDING"}

\* What the provider may say of a payment; "mismatch" stands for an answer
\* with another reference or another amount.
ProviderStatuses == {"created", "paid", "cancelled", "disputed", "refunded"}
Answers == ProviderStatuses \cup {"mismatch", "none"}

Check == [attempt : Attempts, seen : Statuses, answer : Answers]

PaymentsTypeOK ==
  /\ BillingTypeOK
  /\ attempt \in [Attempts -> [status : Statuses, polled : BOOLEAN]]
  /\ calls \subseteq Attempts
  /\ provider \in [Attempts -> ProviderStatuses \cup {"none"}]
  /\ check \in [Collectors -> Check \cup {Idle}]

PaymentsInit ==
  /\ BillingInit
  /\ attempt = [a \in Attempts |-> [status |-> "NONE", polled |-> FALSE]]
  /\ calls = {}
  /\ provider = [a \in Attempts |-> "none"]
  /\ check = [c \in Collectors |-> Idle]

----------------------------------------------------------------------------
(* The provider and the customer.                                          *)

\* Only a customer who was sent on to the payment page can pay or cancel.
CustomerActs(a) ==
  /\ provider[a] = "created"
  /\ attempt[a].polled
  /\ \E s \in {"paid", "cancelled"} : provider' = [provider EXCEPT ![a] = s]
  /\ UNCHANGED <<billingVars, attempt, calls, check>>

ProviderReverses(a) ==
  /\ provider[a] = "paid"
  /\ \E s \in {"disputed", "refunded"} : provider' = [provider EXCEPT ![a] = s]
  /\ UNCHANGED <<billingVars, attempt, calls, check>>

----------------------------------------------------------------------------
(* initiateSubscriptionPayment.                                            *)

\* An open invoice and a key not used for it; a used key returns the stored
\* attempt unchanged.
CreateAttempt(a) ==
  /\ InvoiceOf(a) \in DOMAIN invoices
  /\ invoices[InvoiceOf(a)].status \in {"pending", "overdue"}
  /\ attempt[a].status = "NONE"
  /\ attempt' = [attempt EXCEPT ![a].status = "CREATED"]
  /\ calls' = calls \cup {a}
  /\ UNCHANGED <<billingVars, provider, check>>

\* The provider's verified answer arrives: the poll reference is stored.
InitiationConfirmed(a) ==
  /\ a \in calls
  /\ attempt' = [attempt EXCEPT ![a] = [status |-> "PENDING", polled |-> TRUE]]
  /\ provider' = [provider EXCEPT ![a] = "created"]
  /\ calls' = calls \ {a}
  /\ UNCHANGED <<billingVars, check>>

InitiationRejected(a) ==
  /\ a \in calls
  /\ attempt' = [attempt EXCEPT ![a].status = "FAILED"]
  /\ calls' = calls \ {a}
  /\ UNCHANGED <<billingVars, provider, check>>

\* A timeout, a lost answer or a crash: the attempt stays CREATED, and the
\* provider may know a payment nobody can make.
InitiationLost(a) ==
  /\ a \in calls
  /\ \E s \in {"none", "created"} : provider' = [provider EXCEPT ![a] = s]
  /\ calls' = calls \ {a}
  /\ UNCHANGED <<billingVars, attempt, check>>

----------------------------------------------------------------------------
(* reconcileAttempt.                                                       *)

\* refreshSubscriptionPayment or processPaynowResult read the attempt.
ReadAttempt(c, a) ==
  /\ check[c] = Idle
  /\ settling[c] = Idle
  /\ attempt[a].polled
  /\ check' = [check EXCEPT ![c] =
       [attempt |-> a, seen |-> attempt[a].status, answer |-> "none"]]
  /\ UNCHANGED <<billingVars, attempt, calls, provider>>

\* The answer is true at this moment, or does not match the attempt.
PollProvider(c) ==
  /\ check[c] # Idle
  /\ check[c].answer = "none"
  /\ \E s \in {provider[check[c].attempt], "mismatch"} :
       check' = [check EXCEPT ![c].answer = s]
  /\ UNCHANGED <<billingVars, attempt, calls, provider>>

\* Settlement locks the attempt's row before anything else.
AttemptHeld(a) == \E c \in Collectors : settling[c] # Idle /\ check[c] # Idle /\ check[c].attempt = a

\* Faulty variants: a payment in progress counts as paid; a paid one waits for
\* its delivery.
NormalizeOptimist(s) ==
  CASE s = "cancelled" -> "CANCELLED"
    [] s = "disputed" -> "DISPUTED"
    [] s = "refunded" -> "REFUNDED"
    [] OTHER -> "PAID"
NormalizeLate(s) ==
  CASE s = "cancelled" -> "CANCELLED"
    [] s = "disputed" -> "DISPUTED"
    [] s = "refunded" -> "REFUNDED"
    [] OTHER -> "PENDING"

NormalizeStatus(s) ==
  CASE s = "paid" -> "PAID"
    [] s = "cancelled" -> "CANCELLED"
    [] s = "disputed" -> "DISPUTED"
    [] s = "refunded" -> "REFUNDED"
    [] OTHER -> "PENDING"

NextStatus(seen, s) == IF seen \in Terminal /\ seen # s THEN "REQUIRES_REVIEW" ELSE s

\* UPDATE by id, without a look at the status the row has by now.
ApplyAnswer(c) ==
  /\ check[c] # Idle
  /\ settling[c] = Idle
  /\ check[c].answer # "none"
  /\ check[c].answer = "mismatch" \/ NormalizeStatus(check[c].answer) # "PAID"
  /\ ~AttemptHeld(check[c].attempt)
  /\ attempt' = [attempt EXCEPT ![check[c].attempt].status =
       IF check[c].answer = "mismatch" THEN "REQUIRES_REVIEW"
       ELSE NextStatus(check[c].seen, NormalizeStatus(check[c].answer))]
  /\ check' = [check EXCEPT ![c] = Idle]
  /\ UNCHANGED <<billingVars, calls, provider>>

----------------------------------------------------------------------------
(* markSubscriptionInvoicePaid.                                            *)

\* With the provider's evidence: under the lock, an attempt that is PAID
\* already is answered as settled.
SettleOnEvidence(c) ==
  /\ check[c] # Idle
  /\ check[c].answer \notin {"none", "mismatch"}
  /\ NormalizeStatus(check[c].answer) = "PAID"
  /\ ~AttemptHeld(check[c].attempt)
  /\ attempt[check[c].attempt].status # "PAID"
  /\ StartSettling(c, InvoiceOf(check[c].attempt))
  /\ UNCHANGED paymentVars

\* By platform staff, for money received otherwise.
SettleByStaff(c, i) ==
  /\ check[c] = Idle
  /\ StartSettling(c, i)
  /\ UNCHANGED paymentVars

SettlementCounts(c) == CountOverdue(c) /\ UNCHANGED paymentVars

\* Invoice, subscription, tenant and attempt change together.
FinishSettlement(c) ==
  /\ CommitSettling(c)
  /\ attempt' = IF check[c] = Idle THEN attempt
                ELSE [attempt EXCEPT ![check[c].attempt].status = "PAID"]
  /\ check' = [check EXCEPT ![c] = Idle]
  /\ UNCHANGED <<calls, provider>>

\* An error, a conflict (the invoice is paid by now) or a crash.
GiveUp(c) ==
  /\ check[c] # Idle \/ settling[c] # Idle
  /\ check' = [check EXCEPT ![c] = Idle]
  /\ settling' = [settling EXCEPT ![c] = Idle]
  /\ UNCHANGED <<clock, subscription, tenant, invoices, run, attempt, calls, provider>>

----------------------------------------------------------------------------

ProviderStep == \E a \in Attempts : CustomerActs(a) \/ ProviderReverses(a)

InitiateStep ==
  \E a \in Attempts :
    \/ CreateAttempt(a)
    \/ InitiationConfirmed(a)
    \/ InitiationRejected(a)
    \/ InitiationLost(a)

ClerkStep(c) ==
  \/ \E a \in Attempts : ReadAttempt(c, a)
  \/ PollProvider(c)
  \/ ApplyAnswer(c)
  \/ SettleOnEvidence(c)
  \/ \E i \in DOMAIN invoices : SettleByStaff(c, i)
  \/ SettlementCounts(c)
  \/ FinishSettlement(c)
  \/ GiveUp(c)

PaymentsNext ==
  \/ RunOrTick /\ UNCHANGED paymentVars
  \/ ProviderStep
  \/ InitiateStep
  \/ \E c \in Collectors : ClerkStep(c)

PaymentsSpec == PaymentsInit /\ [][PaymentsNext]_vars

\* At most one run or settlement is in the middle of something.
Busy ==
  {r \in Runs : run[r] # Idle} \cup {c \in Collectors : check[c] # Idle \/ settling[c] # Idle}

OneAtATime == Cardinality(Busy') <= 1

SerialSpec == PaymentsInit /\ [][PaymentsNext /\ OneAtATime]_vars

\* The cron job keeps firing, the provider and the customer keep asking for
\* a pending attempt to be looked at, not every one of these fails, and no
\* request hangs: the provider's answers time out after 15 seconds.
RunFairness ==
  \A r \in Runs :
    /\ SF_vars(StartRun(r) /\ UNCHANGED paymentVars /\ OneAtATime)
    /\ SF_vars(SelectOverdue(r) /\ UNCHANGED paymentVars)
    /\ SF_vars((EndTrial(r) \/ CommitRun(r)) /\ UNCHANGED paymentVars)

TrueAnswer(c) == PollProvider(c) /\ check'[c].answer # "mismatch"

ReconcileFairness ==
  \A c \in Collectors :
    /\ \A a \in Attempts : SF_vars(ReadAttempt(c, a) /\ OneAtATime)
    /\ SF_vars(TrueAnswer(c))
    /\ SF_vars(SettleOnEvidence(c))
    /\ SF_vars(SettlementCounts(c))
    /\ SF_vars(FinishSettlement(c))
    /\ WF_vars(ApplyAnswer(c) \/ GiveUp(c))

FairSpec ==
  SerialSpec /\ WF_vars(Tick /\ UNCHANGED paymentVars) /\ RunFairness /\ ReconcileFairness

----------------------------------------------------------------------------
(* Properties.                                                             *)

Invoices == DOMAIN invoices
Paid(i) == i \in Invoices /\ invoices[i].status = "paid"
Overdue == {i \in Invoices : invoices[i].status = "overdue"}

\* Billing is continuous: no period is billed twice and none is skipped, by
\* late runs, by repeated runs, or across arrears and reactivation.
PeriodsTile ==
  /\ \A i \in Invoices :
       invoices[i].from = IF i = 1 THEN TrialEnd ELSE invoices[i - 1].to
  /\ subscription.periodEnd =
       IF invoices = <<>> THEN TrialEnd ELSE invoices[Len(invoices)].to

\* A tenant is restricted exactly while an invoice is overdue, and its
\* lifecycle status and its subscription's never part.
RestrictedIffOverdue ==
  /\ tenant \in {"PAST_DUE", "SUSPENDED"} <=> Overdue # {}
  /\ tenant = IF subscription.status = "TRIALING" THEN "TRIAL" ELSE subscription.status

\* An invoice that was settled is never asked for again.
PaidStaysPaid ==
  [][\A i \in Invoices : invoices[i].status = "paid" => invoices'[i].status = "paid"]_vars

\* The lifecycle of the comment on top of billing.ts: a tenant is warned
\* first and suspended when an invoice stays unpaid through the whole window;
\* it comes back from either by a settlement alone.
LifecycleInOrder ==
  [][/\ tenant # "SUSPENDED" /\ tenant' = "SUSPENDED" =>
          /\ tenant = "PAST_DUE"
          /\ \E i \in Overdue : clock > invoices[i].due + SuspendDays
     /\ tenant \in {"PAST_DUE", "SUSPENDED"} /\ tenant' = "ACTIVE" =>
          \E i \in Invoices : invoices[i].status # "paid" /\ invoices'[i].status = "paid"]_vars

\* An attempt that counts as paid was paid: the provider took the money, and
\* the invoice is settled with it.
PaidOnEvidence ==
  \A a \in Attempts :
    attempt[a].status = "PAID" =>
      /\ provider[a] \in {"paid", "disputed", "refunded"}
      /\ Paid(InvoiceOf(a))

Reopened(a) == attempt[a].status = "PAID" /\ attempt'[a].status \notin {"PAID", "REQUIRES_REVIEW"}

\* Status transitions are monotonic: what was final stays final, and what
\* was paid can only be sent to review.
StatusMonotonic ==
  [][\A a \in Attempts :
       /\ attempt[a].status \in Terminal => attempt'[a].status \in Terminal
       /\ ~Reopened(a)]_vars

\* An invoice that is never paid ends in suspension: the run finds it, and
\* finds it again once the window is over.
DebtEndsInSuspension ==
  \A i \in Payable :
    (i \in Invoices /\ invoices[i].due + SuspendDays < LastDay)
      ~> (tenant = "SUSPENDED" \/ Paid(i))

\* Money the provider took for an invoice settles it, whatever callbacks
\* and polls were lost before, unless the provider gives it back first.
ChargeIsSettled ==
  \A a \in Attempts :
    provider[a] = "paid" ~>
      (provider[a] # "paid" \/ Paid(InvoiceOf(a)))

\* Nothing is taken back: a paid invoice is paid, a final attempt is final, and
\* a tenant is suspended and reactivated in order.
NothingGoesBack == PaidStaysPaid /\ StatusMonotonic /\ LifecycleInOrder

\* What the attempts say rests on evidence, on states of the right types.
PaymentsSound == PaymentsTypeOK /\ PaidOnEvidence
=============================================================================
