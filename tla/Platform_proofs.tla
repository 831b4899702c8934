--------------------------- MODULE Platform_proofs ---------------------------
(***************************************************************************)
(* What the platform does with companies.  It takes payment from them: one *)
(* tenant's billing for any lengths of months and windows, any processes,  *)
(* invoices and keys, while one billing run or settlement at a time is in  *)
(* the middle of something.  And it verifies them: the verification of a   *)
(* business and the approval of a document implement the approval kernel   *)
(* of FourEyes, superseded evidence stays as it is, and the trail and the  *)
(* badges tell what was decided, for any staff, users, evidence, requests  *)
(* and processes.                                                          *)
(***************************************************************************)
EXTENDS SubscriptionPayments, Verification, FiniteSetTheorems, SequenceTheorems, TLAPS

----------------------------------------------------------------------------
(* The inductive invariant.                                                *)

Shape ==
  /\ PaymentsTypeOK
  /\ run \in [Runs -> Run \cup {Idle}]
  /\ settling \in [Collectors -> Settling \cup {Idle}]

Alone == \A x, y \in Busy : x = y

\* What a run has read is still so when it commits.
RunReads ==
  \A r \in Runs : run[r] # Idle =>
    /\ run[r].sub = subscription /\ run[r].asOf <= clock
    /\ \A i \in run[r].late : i \in DOMAIN invoices /\ invoices[i].status = "pending"
    /\ run[r].late # {} => subscription.status = "ACTIVE"
    /\ run[r].long =>
         /\ subscription.status = "PAST_DUE"
         /\ \E i \in Overdue : clock > invoices[i].due + SuspendDays

\* So is what a settlement has read, ...
SettlingReads ==
  \A c \in Collectors : settling[c] # Idle =>
    /\ settling[c].invoice \in DOMAIN invoices
    /\ invoices[settling[c].invoice].status # "paid"
    /\ settling[c].counted => settling[c].clear = Clear(settling[c].invoice)

\* ... and what a reconciliation has; what it was told of money taken stays true.
Took == {"paid", "disputed", "refunded"}

CheckReads ==
  \A c \in Collectors : check[c] # Idle =>
    /\ attempt[check[c].attempt].polled
    /\ check[c].seen = attempt[check[c].attempt].status
    /\ check[c].answer = "paid" => provider[check[c].attempt] \in Took
    /\ settling[c] # Idle =>
         check[c].answer = "paid" /\ settling[c].invoice = InvoiceOf(check[c].attempt)

\* While the provider has not answered, nobody can poll or pay the attempt.
Initiated ==
  \A a \in Attempts :
    /\ a \in calls => attempt[a] = [status |-> "CREATED", polled |-> FALSE] /\ provider[a] = "none"
    /\ attempt[a].status = "NONE" => ~attempt[a].polled /\ provider[a] = "none"

TrialIsFree == subscription.status = "TRIALING" => invoices = <<>>

Books == TrialIsFree /\ PeriodsTile /\ RestrictedIffOverdue

Reads == RunReads /\ SettlingReads /\ CheckReads /\ Initiated

SerialInv == Shape /\ Alone /\ Reads /\ Books /\ PaidOnEvidence
\* Everything but Alone, which the specification itself asserts of every step.
Sound == Shape /\ Reads /\ Books /\ PaidOnEvidence

----------------------------------------------------------------------------
(* One process at a time.                                                  *)

LEMMA AtMostOne ==
  ASSUME NEW S, IsFiniteSet(S), Cardinality(S) <= 1, NEW x \in S, NEW y \in S
  PROVE  x = y
<1>1. {x} \in SUBSET S /\ Cardinality({x}) = 1
  BY FS_Singleton
<1>2. Cardinality(S) \in Nat
  BY FS_CardinalityType
<1>3. Cardinality({x}) <= Cardinality(S)
  BY <1>1, FS_Subset
<1>4. Cardinality(S) = Cardinality({x})
  BY <1>1, <1>2, <1>3
<1>5. S = {x}
  BY <1>1, <1>4, FS_Subset
<1> QED
  BY <1>5

LEMMA AloneAfter == OneAtATime => Alone'
<1> SUFFICES ASSUME OneAtATime PROVE Alone'
  OBVIOUS
<1>1. IsFiniteSet(Runs \cup Collectors)
  BY ProcessesAreApart, FS_Union
<1>2. Busy' \in SUBSET (Runs \cup Collectors)
  BY DEF Busy
<1>3. IsFiniteSet(Busy')
  BY <1>1, <1>2, FS_Subset
<1> QED
  BY <1>3, AtMostOne DEF OneAtATime, Alone

LEMMA AloneRun ==
  ASSUME Alone, NEW r \in Runs, run[r] # Idle
  PROVE  /\ \A s \in Runs : s # r => run[s] = Idle
         /\ \A c \in Collectors : check[c] = Idle /\ settling[c] = Idle
BY ProcessesAreApart DEF Alone, Busy

LEMMA AloneClerk ==
  ASSUME Alone, NEW c \in Collectors, check[c] # Idle \/ settling[c] # Idle
  PROVE  /\ \A r \in Runs : run[r] = Idle
         /\ \A d \in Collectors : d # c => check[d] = Idle /\ settling[d] = Idle
BY ProcessesAreApart DEF Alone, Busy

LEMMA InvoiceRows ==
  ASSUME Shape
  PROVE  /\ invoices \in Seq(SubscriptionInvoice)
         /\ \A i \in DOMAIN invoices :
              /\ invoices[i] \in SubscriptionInvoice
              /\ invoices[i].from \in Nat /\ invoices[i].to \in Nat /\ invoices[i].due \in Nat
<1>1. invoices \in Seq(SubscriptionInvoice)
  BY DEF Shape, PaymentsTypeOK, BillingTypeOK
<1>2. ASSUME NEW i \in DOMAIN invoices PROVE invoices[i] \in SubscriptionInvoice
  BY <1>1, LenProperties, ElementOfSeq
<1>3. \A x \in SubscriptionInvoice : x.from \in Nat /\ x.to \in Nat /\ x.due \in Nat
  BY DEF SubscriptionInvoice
<1> QED
  BY <1>1, <1>2, <1>3

----------------------------------------------------------------------------
(* Steps that leave the books as they are.                                 *)

LEMMA BooksStand ==
  ASSUME Books, UNCHANGED <<subscription, tenant, invoices>>
  PROVE  Books'
BY DEF Books, TrialIsFree, PeriodsTile, RestrictedIffOverdue, Overdue, Invoices

LEMMA TickKeeps ==
  ASSUME SerialInv, Tick, UNCHANGED paymentVars
  PROVE  Sound'
<1> USE DEF SerialInv, Sound, Tick, paymentVars
<1>1. Shape'
  BY DEF Shape, PaymentsTypeOK, BillingTypeOK
<1>2. RunReads'
  <2>1. \A i \in DOMAIN invoices : invoices[i].due \in Nat
    BY InvoiceRows
  <2>2. clock \in Nat /\ \A r \in Runs : run[r] # Idle => run[r].asOf \in Nat
    BY DEF Shape, PaymentsTypeOK, BillingTypeOK, Run
  <2> QED
    BY <2>1, <2>2, BillingConstants DEF Reads, RunReads, Overdue, Invoices
<1>3. SettlingReads'
  BY DEF Reads, SettlingReads, Clear
<1>4. CheckReads' /\ Initiated'
  BY DEF Reads, CheckReads, Initiated
<1>5. PaidOnEvidence'
  BY DEF PaidOnEvidence, Paid, Invoices
<1> QED
  BY <1>1, <1>2, <1>3, <1>4, <1>5, BooksStand DEF Reads

\* The customer, the provider and initiation change attempts nobody reconciles
\* in a way a reconciliation would notice.
LEMMA OutsideKeeps ==
  ASSUME SerialInv, ProviderStep \/ InitiateStep
  PROVE  Sound'
<1> USE DEF SerialInv, Sound
<1>0. UNCHANGED billingVars /\ check' = check
  BY DEF ProviderStep, InitiateStep, CustomerActs, ProviderReverses, CreateAttempt,
         InitiationConfirmed, InitiationRejected, InitiationLost
<1>1. RunReads' /\ SettlingReads' /\ Books'
  BY <1>0, BooksStand DEF billingVars, Reads, RunReads, SettlingReads, Overdue, Invoices, Clear
<1>2. attempt \in [Attempts -> [status : Statuses, polled : BOOLEAN]]
        /\ provider \in [Attempts -> ProviderStatuses \cup {"none"}] /\ calls \subseteq Attempts
  BY DEF Shape, PaymentsTypeOK
<1>3. \A c \in Collectors : check[c] # Idle => check[c].attempt \in Attempts
  BY DEF Shape, PaymentsTypeOK, Check
<1>4. ASSUME NEW a \in Attempts, CustomerActs(a) \/ ProviderReverses(a) PROVE Sound'
  <2>1. /\ UNCHANGED <<attempt, calls>>
        /\ \E s \in ProviderStatuses : provider' = [provider EXCEPT ![a] = s]
        /\ provider[a] \in {"created", "paid"}
        /\ provider[a] = "paid" => provider'[a] \in Took
    BY <1>2, <1>4 DEF CustomerActs, ProviderReverses, ProviderStatuses, Took
  <2>2. Shape'
    BY <1>0, <1>2, <2>1 DEF Shape, PaymentsTypeOK, BillingTypeOK, billingVars
  <2>3. \A b \in Attempts : provider[b] \in Took => provider'[b] \in Took
    BY <1>2, <2>1 DEF Took
  <2>4. CheckReads' /\ PaidOnEvidence'
    BY <1>0, <1>3, <2>1, <2>3
    DEF Reads, CheckReads, PaidOnEvidence, Paid, Invoices, billingVars, Took
  <2>5. Initiated'
    BY <1>2, <2>1 DEF Reads, Initiated
  <2> QED
    BY <1>1, <2>2, <2>4, <2>5 DEF Reads
<1>5. ASSUME NEW a \in Attempts, ~attempt[a].polled,
             attempt' \in [Attempts -> [status : Statuses, polled : BOOLEAN]],
             provider' \in [Attempts -> ProviderStatuses \cup {"none"}], calls' \subseteq Attempts,
             \A b \in Attempts \ {a} :
               attempt'[b] = attempt[b] /\ provider'[b] = provider[b] /\ (b \in calls' <=> b \in calls),
             attempt'[a].status \notin {"PAID", "NONE"},
             a \in calls' => attempt'[a] = [status |-> "CREATED", polled |-> FALSE] /\ provider'[a] = "none"
      PROVE  Sound'
  <2>1. Shape'
    BY <1>0, <1>5 DEF Shape, PaymentsTypeOK, BillingTypeOK, billingVars
  <2>2. CheckReads'
    BY <1>0, <1>3, <1>5 DEF Reads, CheckReads, billingVars
  <2>3. PaidOnEvidence'
    BY <1>0, <1>5 DEF PaidOnEvidence, Paid, Invoices, billingVars
  <2>4. Initiated'
    BY <1>5 DEF Reads, Initiated
  <2> QED
    BY <1>1, <2>1, <2>2, <2>3, <2>4 DEF Reads
<1>6. ASSUME NEW a \in Attempts, CreateAttempt(a) PROVE Sound'
  <2>1. ~attempt[a].polled /\ attempt[a].status \in {"NONE", "CREATED"} /\ provider[a] = "none"
    BY <1>6 DEF CreateAttempt, Reads, Initiated
  <2>2. attempt' \in [Attempts -> [status : Statuses, polled : BOOLEAN]]
    BY <1>2, <1>6 DEF CreateAttempt, Statuses, Terminal
  <2>3. provider' \in [Attempts -> ProviderStatuses \cup {"none"}] /\ calls' \subseteq Attempts
    BY <1>2, <1>6 DEF CreateAttempt, ProviderStatuses
  <2>4. \A b \in Attempts \ {a} :
          attempt'[b] = attempt[b] /\ provider'[b] = provider[b] /\ (b \in calls' <=> b \in calls)
    BY <1>2, <1>6 DEF CreateAttempt
  <2>5. attempt'[a] = [status |-> "CREATED", polled |-> FALSE] /\ provider'[a] = "none"
    BY <1>2, <1>6, <2>1 DEF CreateAttempt
  <2> QED
    BY <2>1, <2>2, <2>3, <2>4, <2>5, <1>5
<1>7. ASSUME NEW a \in Attempts, InitiationConfirmed(a) PROVE Sound'
  <2>1. ~attempt[a].polled /\ attempt[a].status \in {"NONE", "CREATED"} /\ provider[a] = "none"
    BY <1>7 DEF InitiationConfirmed, Reads, Initiated
  <2>2. attempt' \in [Attempts -> [status : Statuses, polled : BOOLEAN]]
    BY <1>2, <1>7 DEF InitiationConfirmed, Statuses, Terminal
  <2>3. provider' \in [Attempts -> ProviderStatuses \cup {"none"}] /\ calls' \subseteq Attempts
    BY <1>2, <1>7 DEF InitiationConfirmed, ProviderStatuses
  <2>4. \A b \in Attempts \ {a} :
          attempt'[b] = attempt[b] /\ provider'[b] = provider[b] /\ (b \in calls' <=> b \in calls)
    BY <1>2, <1>7 DEF InitiationConfirmed
  <2>5. a \notin calls' /\ attempt'[a].status = "PENDING"
    BY <1>2, <1>7 DEF InitiationConfirmed
  <2> QED
    BY <2>1, <2>2, <2>3, <2>4, <2>5, <1>5
<1>8. ASSUME NEW a \in Attempts, InitiationRejected(a) PROVE Sound'
  <2>1. ~attempt[a].polled /\ attempt[a].status \in {"NONE", "CREATED"} /\ provider[a] = "none"
    BY <1>8 DEF InitiationRejected, Reads, Initiated
  <2>2. attempt' \in [Attempts -> [status : Statuses, polled : BOOLEAN]]
    BY <1>2, <1>8 DEF InitiationRejected, Statuses, Terminal
  <2>3. provider' \in [Attempts -> ProviderStatuses \cup {"none"}] /\ calls' \subseteq Attempts
    BY <1>2, <1>8 DEF InitiationRejected, ProviderStatuses
  <2>4. \A b \in Attempts \ {a} :
          attempt'[b] = attempt[b] /\ provider'[b] = provider[b] /\ (b \in calls' <=> b \in calls)
    BY <1>2, <1>8 DEF InitiationRejected
  <2>5. a \notin calls' /\ attempt'[a].status = "FAILED"
    BY <1>2, <1>8 DEF InitiationRejected
  <2> QED
    BY <2>1, <2>2, <2>3, <2>4, <2>5, <1>5
<1>9. ASSUME NEW a \in Attempts, InitiationLost(a) PROVE Sound'
  <2>1. ~attempt[a].polled /\ attempt[a].status \in {"NONE", "CREATED"} /\ provider[a] = "none"
    BY <1>9 DEF InitiationLost, Reads, Initiated
  <2>2. attempt' \in [Attempts -> [status : Statuses, polled : BOOLEAN]]
    BY <1>2, <1>9 DEF InitiationLost, Statuses, Terminal
  <2>3. provider' \in [Attempts -> ProviderStatuses \cup {"none"}] /\ calls' \subseteq Attempts
    BY <1>2, <1>9 DEF InitiationLost, ProviderStatuses
  <2>4. \A b \in Attempts \ {a} :
          attempt'[b] = attempt[b] /\ provider'[b] = provider[b] /\ (b \in calls' <=> b \in calls)
    BY <1>2, <1>9 DEF InitiationLost
  <2>5. a \notin calls' /\ attempt'[a].status = "CREATED"
    BY <1>9 DEF InitiationLost, Reads, Initiated
  <2> QED
    BY <2>1, <2>2, <2>3, <2>4, <2>5, <1>5
<1> QED
  BY <1>4, <1>6, <1>7, <1>8, <1>9 DEF ProviderStep, InitiateStep

----------------------------------------------------------------------------
(* The billing run.                                                        *)

\* A step that only notes what a run has read.
LEMMA RunOnlyKeeps ==
  ASSUME SerialInv, run' \in [Runs -> Run \cup {Idle}], RunReads', UNCHANGED paymentVars,
         UNCHANGED <<clock, subscription, tenant, invoices, settling>>
  PROVE  Sound'
<1> USE DEF SerialInv, Sound, paymentVars
<1>1. Shape'
  BY DEF Shape, PaymentsTypeOK, BillingTypeOK
<1>2. SettlingReads'
  BY DEF Reads, SettlingReads, Clear
<1>3. CheckReads' /\ Initiated'
  BY DEF Reads, CheckReads, Initiated
<1>4. PaidOnEvidence'
  BY DEF PaidOnEvidence, Paid, Invoices
<1> QED
  BY <1>1, <1>2, <1>3, <1>4, BooksStand DEF Reads

LEMMA StartRunKeeps ==
  ASSUME SerialInv, NEW r \in Runs, StartRun(r), UNCHANGED paymentVars
  PROVE  Sound'
<1> USE DEF SerialInv
<1>1. run \in [Runs -> Run \cup {Idle}] /\ subscription \in Subscription /\ clock \in Nat
  BY DEF Shape, PaymentsTypeOK, BillingTypeOK
<1>2. /\ run' = [run EXCEPT ![r] = [sub |-> subscription, asOf |-> clock,
                                    ready |-> FALSE, late |-> {}, long |-> FALSE]]
      /\ UNCHANGED <<clock, subscription, tenant, invoices, settling>>
  BY DEF StartRun
<1>3. run' \in [Runs -> Run \cup {Idle}]
  BY <1>1, <1>2 DEF Run
<1>4. RunReads'
  BY <1>1, <1>2 DEF Reads, RunReads, Overdue, Invoices
<1> QED
  BY <1>2, <1>3, <1>4, RunOnlyKeeps

LEMMA SelectOverdueKeeps ==
  ASSUME SerialInv, NEW r \in Runs, SelectOverdue(r), UNCHANGED paymentVars
  PROVE  Sound'
<1> USE DEF SerialInv
<1> DEFINE asOf == run[r].asOf
           late == IF run[r].sub.status = "ACTIVE" THEN PastDue("pending", asOf) ELSE {}
           long == /\ run[r].sub.status = "PAST_DUE"
                   /\ asOf >= SuspendDays
                   /\ PastDue("overdue", asOf - SuspendDays) # {}
<1>1. run \in [Runs -> Run \cup {Idle}] /\ run[r] # Idle /\ run[r] \in Run /\ clock \in Nat
  BY DEF Shape, PaymentsTypeOK, BillingTypeOK, SelectOverdue
<1>2. /\ run' = [run EXCEPT ![r].ready = TRUE, ![r].late = late, ![r].long = long]
      /\ UNCHANGED <<clock, subscription, tenant, invoices, settling>>
  BY DEF SelectOverdue
<1>3. late \subseteq DOMAIN invoices /\ \A i \in late : invoices[i].status = "pending"
  BY DEF PastDue
<1>4. DOMAIN invoices \subseteq Nat /\ long \in BOOLEAN
  BY InvoiceRows, LenProperties
<1>5. long => \E i \in Overdue : clock > invoices[i].due + SuspendDays
  <2>1. ASSUME NEW i \in PastDue("overdue", asOf - SuspendDays), asOf >= SuspendDays
        PROVE  i \in Overdue /\ clock > invoices[i].due + SuspendDays
    <3>1. i \in Overdue /\ i \in DOMAIN invoices /\ invoices[i].due < asOf - SuspendDays
      BY <2>1 DEF PastDue, Overdue, Invoices
    <3>2. invoices[i].due \in Nat /\ asOf \in Nat /\ asOf <= clock
      BY <1>1, <3>1, InvoiceRows DEF Reads, RunReads, Run
    <3> QED
      BY <1>1, <2>1, <3>1, <3>2, BillingConstants
  <2> QED
    BY <2>1
<1>6. late # {} => run[r].sub.status = "ACTIVE"
  OBVIOUS
<1>7. long => run[r].sub.status = "PAST_DUE"
  OBVIOUS
<1> HIDE DEF late, long
<1>8. run' \in [Runs -> Run \cup {Idle}]
  BY <1>1, <1>2, <1>3, <1>4 DEF Run
<1>9. /\ run'[r].sub = run[r].sub /\ run'[r].asOf = run[r].asOf
      /\ run'[r].late = late /\ run'[r].long = long
      /\ \A s \in Runs : s # r => run'[s] = run[s]
  BY <1>1, <1>2 DEF Run
<1>10. run[r].sub = subscription /\ run[r].asOf <= clock
  BY <1>1 DEF Reads, RunReads
<1>11. ASSUME NEW s \in Runs, run'[s] # Idle
       PROVE  /\ run'[s].sub = subscription' /\ run'[s].asOf <= clock'
              /\ \A i \in run'[s].late : i \in DOMAIN invoices' /\ invoices'[i].status = "pending"
              /\ run'[s].late # {} => subscription'.status = "ACTIVE"
              /\ run'[s].long => /\ subscription'.status = "PAST_DUE"
                                 /\ \E i \in Overdue' : clock' > invoices'[i].due + SuspendDays
  <2>1. Overdue' = Overdue
    BY <1>2 DEF Overdue, Invoices
  <2>2. CASE s = r
    BY <2>1, <2>2, <1>2, <1>3, <1>5, <1>6, <1>7, <1>9, <1>10
  <2>3. CASE s # r
    BY <2>1, <2>3, <1>2, <1>9, <1>11 DEF Reads, RunReads
  <2> QED
    BY <2>2, <2>3
<1>12. RunReads'
  BY <1>11 DEF RunReads
<1> QED
  BY <1>2, <1>8, <1>12, RunOnlyKeeps

LEMMA AbortRunKeeps ==
  ASSUME SerialInv, NEW r \in Runs, AbortRun(r), UNCHANGED paymentVars
  PROVE  Sound'
<1> USE DEF SerialInv
<1>1. /\ run \in [Runs -> Run \cup {Idle}] /\ run' = [run EXCEPT ![r] = Idle]
      /\ UNCHANGED <<clock, subscription, tenant, invoices, settling>>
  BY DEF Shape, AbortRun
<1>2. run' \in [Runs -> Run \cup {Idle}]
  BY <1>1
<1>3. RunReads'
  BY <1>1 DEF Reads, RunReads, Overdue, Invoices
<1> QED
  BY <1>1, <1>2, <1>3, RunOnlyKeeps

\* When a run has committed nobody is in the middle of anything.
LEMMA CommitLeavesNone ==
  ASSUME SerialInv, NEW r \in Runs, run[r] # Idle, run' = [run EXCEPT ![r] = Idle],
         settling' = settling, check' = check
  PROVE  /\ run' \in [Runs -> Run \cup {Idle}]
         /\ RunReads' /\ SettlingReads' /\ CheckReads'
<1>1. run \in [Runs -> Run \cup {Idle}] /\ Alone
  BY DEF SerialInv, Shape
<1>2. \A s \in Runs : run'[s] = Idle
  BY <1>1, AloneRun
<1>3. \A c \in Collectors : check'[c] = Idle /\ settling'[c] = Idle
  BY <1>1, AloneRun
<1> QED
  BY <1>1, <1>2, <1>3 DEF RunReads, SettlingReads, CheckReads

LEMMA EndTrialKeeps ==
  ASSUME SerialInv, NEW r \in Runs, EndTrial(r), UNCHANGED paymentVars
  PROVE  Sound'
<1> USE DEF SerialInv, Sound, paymentVars
<1> DEFINE first == InvoiceFrom(TrialEnd, run[r].asOf)
<1>1. /\ run[r] # Idle /\ run[r] \in Run
      /\ run[r].sub.status = "TRIALING" /\ run' = [run EXCEPT ![r] = Idle]
      /\ invoices' = Append(invoices, first)
      /\ subscription' = [status |-> "ACTIVE", periodEnd |-> TrialEnd + Month] /\ tenant' = "ACTIVE"
      /\ clock' = clock /\ settling' = settling
  BY DEF Shape, EndTrial, TrialOver
<1>2. invoices = <<>>
  BY <1>1 DEF Reads, RunReads, Books, TrialIsFree
<1>3. /\ first \in SubscriptionInvoice
      /\ first.from = TrialEnd /\ first.to = TrialEnd + Month /\ first.status = "pending"
  BY <1>1, BillingConstants DEF InvoiceFrom, SubscriptionInvoice, Run
<1> HIDE DEF first
<1>4. /\ invoices' = <<first>> /\ invoices' \in Seq(SubscriptionInvoice)
      /\ Len(invoices') = 1 /\ DOMAIN invoices' = {1} /\ invoices'[1] = first
  BY <1>1, <1>2, <1>3
<1>5. run' \in [Runs -> Run \cup {Idle}] /\ RunReads' /\ SettlingReads' /\ CheckReads'
  BY <1>1, CommitLeavesNone
<1>6. subscription' \in Subscription
  BY <1>1, BillingConstants DEF Subscription
<1>7. Shape'
  BY <1>1, <1>4, <1>5, <1>6 DEF Shape, PaymentsTypeOK, BillingTypeOK
<1>8. Initiated'
  BY DEF Reads, Initiated
<1>9. PaidOnEvidence'
  BY <1>2 DEF PaidOnEvidence, Paid, Invoices
<1>10. PeriodsTile'
  BY <1>1, <1>3, <1>4 DEF PeriodsTile, Invoices
<1>11. Overdue' = {}
  BY <1>3, <1>4 DEF Overdue, Invoices
<1>12. RestrictedIffOverdue' /\ TrialIsFree'
  BY <1>1, <1>11 DEF RestrictedIffOverdue, TrialIsFree
<1> QED
  BY <1>5, <1>7, <1>8, <1>9, <1>10, <1>12 DEF Reads, Books

\* What a run's transaction does to the table of invoices.
LEMMA CommitWrites ==
  ASSUME SerialInv, NEW r \in Runs, CommitRun(r)
  PROVE  /\ invoices' \in Seq(SubscriptionInvoice)
         /\ Len(invoices') = IF Renews(run[r]) THEN Len(invoices) + 1 ELSE Len(invoices)
         /\ \A i \in DOMAIN invoices :
              /\ i \in DOMAIN invoices'
              /\ invoices'[i].from = invoices[i].from /\ invoices'[i].to = invoices[i].to
              /\ invoices'[i].status = IF i \in run[r].late THEN "overdue" ELSE invoices[i].status
         /\ Renews(run[r]) =>
              invoices'[Len(invoices) + 1] = InvoiceFrom(run[r].sub.periodEnd, run[r].asOf)
<1> DEFINE a == run[r]
           marked == [i \in DOMAIN invoices |->
                        IF i \in a.late THEN [invoices[i] EXCEPT !.status = "overdue"]
                        ELSE invoices[i]]
           next == InvoiceFrom(a.sub.periodEnd, a.asOf)
<1>1. Shape
  BY DEF SerialInv
<1>2. a \in Run
  BY <1>1 DEF Shape, CommitRun
<1>3. invoices \in Seq(SubscriptionInvoice) /\ DOMAIN invoices = 1..Len(invoices) /\ Len(invoices) \in Nat
  BY <1>1, InvoiceRows, LenProperties
<1>4. ASSUME NEW i \in DOMAIN invoices
      PROVE  /\ marked[i] \in SubscriptionInvoice
             /\ marked[i].from = invoices[i].from /\ marked[i].to = invoices[i].to
             /\ marked[i].status = IF i \in a.late THEN "overdue" ELSE invoices[i].status
  BY <1>1, InvoiceRows DEF SubscriptionInvoice
<1>5. marked \in [1..Len(invoices) -> SubscriptionInvoice]
  BY <1>3, <1>4
<1>6. marked \in Seq(SubscriptionInvoice) /\ Len(marked) = Len(invoices)
  BY <1>3, <1>5
<1>7. next \in SubscriptionInvoice
  BY <1>2, BillingConstants DEF InvoiceFrom, SubscriptionInvoice, Run, Subscription
<1>8. invoices' = IF Renews(a) THEN Append(marked, next) ELSE marked
  BY DEF CommitRun
<1> HIDE DEF marked, next
<1>9. CASE Renews(a)
  <2>1. /\ invoices' = Append(marked, next) /\ invoices' \in Seq(SubscriptionInvoice)
        /\ Len(invoices') = Len(invoices) + 1
        /\ \A i \in 1..Len(invoices) : invoices'[i] = marked[i]
        /\ invoices'[Len(invoices) + 1] = next
    BY <1>3, <1>6, <1>7, <1>8, <1>9
  <2>2. DOMAIN invoices' = 1..(Len(invoices) + 1)
    BY <2>1, LenProperties
  <2> QED
    BY <1>3, <1>4, <1>9, <2>1, <2>2 DEF next
<1>10. CASE ~Renews(a)
  BY <1>3, <1>4, <1>6, <1>8, <1>10, LenProperties
<1> QED
  BY <1>9, <1>10

LEMMA CommitRunKeeps ==
  ASSUME SerialInv, NEW r \in Runs, CommitRun(r), UNCHANGED paymentVars
  PROVE  Sound'
<1> USE DEF SerialInv, Sound, paymentVars
<1> DEFINE a == run[r]
<1>1. /\ a # Idle /\ a \in Run /\ run' = [run EXCEPT ![r] = Idle]
      /\ subscription' = [status |-> NewStatus(a, subscription.status),
                          periodEnd |-> IF Renews(a) THEN a.sub.periodEnd + Month
                                        ELSE subscription.periodEnd]
      /\ tenant' = NewStatus(a, tenant) /\ clock' = clock /\ settling' = settling
  BY DEF Shape, CommitRun
<1>2. /\ a.sub = subscription
      /\ \A i \in a.late : i \in DOMAIN invoices /\ invoices[i].status = "pending"
      /\ a.late # {} => subscription.status = "ACTIVE"
      /\ a.long => subscription.status = "PAST_DUE" /\ Overdue # {}
  BY <1>1 DEF Reads, RunReads
<1>3. /\ invoices' \in Seq(SubscriptionInvoice) /\ DOMAIN invoices' = 1..Len(invoices')
      /\ invoices \in Seq(SubscriptionInvoice) /\ DOMAIN invoices = 1..Len(invoices)
      /\ Len(invoices) \in Nat
  BY CommitWrites, InvoiceRows, LenProperties
<1>4. /\ Len(invoices') = IF Renews(a) THEN Len(invoices) + 1 ELSE Len(invoices)
      /\ \A i \in DOMAIN invoices :
           /\ i \in DOMAIN invoices'
           /\ invoices'[i].from = invoices[i].from /\ invoices'[i].to = invoices[i].to
           /\ invoices'[i].status = IF i \in a.late THEN "overdue" ELSE invoices[i].status
      /\ Renews(a) => invoices'[Len(invoices) + 1] = InvoiceFrom(a.sub.periodEnd, a.asOf)
  BY CommitWrites
<1>5. run' \in [Runs -> Run \cup {Idle}] /\ RunReads' /\ SettlingReads' /\ CheckReads'
  BY <1>1, CommitLeavesNone
<1>6. subscription \in Subscription /\ tenant \in {"TRIAL", "ACTIVE", "PAST_DUE", "SUSPENDED"}
  BY DEF Shape, PaymentsTypeOK, BillingTypeOK
<1>7. Shape'
  <2>1. subscription' \in Subscription /\ tenant' \in {"TRIAL", "ACTIVE", "PAST_DUE", "SUSPENDED"}
    BY <1>1, <1>2, <1>6, BillingConstants DEF NewStatus, Subscription
  <2> QED
    BY <1>1, <1>3, <1>5, <2>1 DEF Shape, PaymentsTypeOK, BillingTypeOK
<1>8. Initiated'
  BY DEF Reads, Initiated
<1>9. PaidOnEvidence'
  BY <1>2, <1>4 DEF PaidOnEvidence, Paid, Invoices
<1>10. PeriodsTile'
  <2>1. \A i \in DOMAIN invoices : i = 1 \/ i - 1 \in DOMAIN invoices
    BY <1>3
  <2>2. \A i \in DOMAIN invoices :
          invoices'[i].from = IF i = 1 THEN TrialEnd ELSE invoices'[i - 1].to
    BY <1>4, <2>1 DEF Books, PeriodsTile, Invoices
  <2>3. CASE Renews(a)
    <3>1. /\ invoices'[Len(invoices) + 1].from = subscription.periodEnd
          /\ invoices'[Len(invoices) + 1].to = subscription'.periodEnd
      BY <1>1, <1>2, <1>4, <2>3 DEF InvoiceFrom
    <3>2. subscription.periodEnd =
            IF Len(invoices) = 0 THEN TrialEnd ELSE invoices[Len(invoices)].to
      BY <1>3, EmptySeq DEF Books, PeriodsTile
    <3>3. Len(invoices) # 0 => invoices'[Len(invoices)].to = invoices[Len(invoices)].to
      BY <1>3, <1>4
    <3>4. /\ Len(invoices') = Len(invoices) + 1 /\ invoices' # <<>>
          /\ DOMAIN invoices' = DOMAIN invoices \cup {Len(invoices) + 1}
      BY <1>3, <1>4, <2>3
    <3> QED
      BY <1>3, <2>2, <3>1, <3>2, <3>3, <3>4 DEF PeriodsTile, Invoices
  <2>4. CASE ~Renews(a)
    <3>1. Len(invoices') = Len(invoices) /\ subscription'.periodEnd = subscription.periodEnd
      BY <1>1, <1>4, <2>4
    <3>2. invoices' = <<>> <=> invoices = <<>>
      BY <1>3, <3>1, EmptySeq
    <3>3. invoices # <<>> => invoices'[Len(invoices)].to = invoices[Len(invoices)].to
      BY <1>3, <1>4, EmptySeq
    <3> QED
      BY <1>3, <2>2, <3>1, <3>2, <3>3 DEF Books, PeriodsTile, Invoices
  <2> QED
    BY <2>3, <2>4
<1>11. /\ Overdue \subseteq Overdue' /\ a.late \subseteq Overdue'
       /\ a.late = {} => Overdue' \subseteq Overdue
  <2>1. \A i \in Overdue : i \in Overdue'
    BY <1>2, <1>4 DEF Overdue, Invoices
  <2>2. \A i \in a.late : i \in Overdue'
    BY <1>2, <1>4 DEF Overdue, Invoices
  <2>3. ASSUME NEW i \in Overdue', a.late = {} PROVE i \in Overdue
    <3>1. i \in DOMAIN invoices' /\ invoices'[i].status = "overdue"
      BY <2>3 DEF Overdue, Invoices
    <3>2. i \in DOMAIN invoices
      BY <1>3, <1>4, <3>1 DEF InvoiceFrom
    <3> QED
      BY <1>4, <2>3, <3>1, <3>2 DEF Overdue, Invoices
  <2> QED
    BY <2>1, <2>2, <2>3
<1>12. RestrictedIffOverdue'
  BY <1>1, <1>2, <1>6, <1>11 DEF Books, RestrictedIffOverdue, NewStatus
<1>13. TrialIsFree'
  <2> SUFFICES ASSUME subscription'.status = "TRIALING" PROVE invoices' = <<>>
    BY DEF TrialIsFree
  <2>1. subscription.status = "TRIALING"
    BY <1>1 DEF NewStatus
  <2>2. invoices = <<>> /\ ~Renews(a)
    BY <1>2, <2>1 DEF Books, TrialIsFree, Renews
  <2> QED
    BY <1>3, <1>4, <2>2, EmptySeq
<1> QED
  BY <1>5, <1>7, <1>8, <1>9, <1>10, <1>12, <1>13 DEF Reads, Books

LEMMA RunStepKeeps ==
  ASSUME SerialInv, RunStep, UNCHANGED paymentVars
  PROVE  Sound'
BY StartRunKeeps, EndTrialKeeps, SelectOverdueKeeps, CommitRunKeeps, AbortRunKeeps DEF RunStep

----------------------------------------------------------------------------
(* Reconciliation and settlement.                                          *)

\* A step that only notes what a process has read or been told.
LEMMA CheckOnlyKeeps ==
  ASSUME SerialInv, UNCHANGED <<billingVars, attempt, calls, provider>>,
         check' \in [Collectors -> Check \cup {Idle}], CheckReads'
  PROVE  Sound'
<1> USE DEF SerialInv, Sound, billingVars
<1>1. Shape'
  BY DEF Shape, PaymentsTypeOK, BillingTypeOK
<1>2. RunReads'
  BY DEF Reads, RunReads, Overdue, Invoices
<1>3. SettlingReads'
  BY DEF Reads, SettlingReads, Clear
<1>4. Initiated'
  BY DEF Reads, Initiated
<1>5. PaidOnEvidence'
  BY DEF PaidOnEvidence, Paid, Invoices
<1> QED
  BY <1>1, <1>2, <1>3, <1>4, <1>5, BooksStand DEF Reads

LEMMA ReadAttemptKeeps ==
  ASSUME SerialInv, NEW c \in Collectors, NEW a \in Attempts, ReadAttempt(c, a)
  PROVE  Sound'
<1> USE DEF SerialInv
<1> DEFINE note == [attempt |-> a, seen |-> attempt[a].status, answer |-> "none"]
<1>1. /\ check' = [check EXCEPT ![c] = note] /\ settling[c] = Idle /\ attempt[a].polled
      /\ UNCHANGED <<billingVars, attempt, calls, provider>>
  BY DEF ReadAttempt
<1>2. check \in [Collectors -> Check \cup {Idle}] /\ attempt[a].status \in Statuses
  BY DEF Shape, PaymentsTypeOK
<1>3. note \in Check
  BY <1>2 DEF Check, Answers
<1>4. check' \in [Collectors -> Check \cup {Idle}]
  BY <1>1, <1>2, <1>3
<1>5. CheckReads'
  BY <1>1, <1>2 DEF Reads, CheckReads, billingVars
<1> QED
  BY <1>1, <1>4, <1>5, CheckOnlyKeeps

LEMMA PollProviderKeeps ==
  ASSUME SerialInv, NEW c \in Collectors, PollProvider(c)
  PROVE  Sound'
<1> USE DEF SerialInv
<1>1. PICK s \in {provider[check[c].attempt], "mismatch"} :
        check' = [check EXCEPT ![c].answer = s]
  BY DEF PollProvider
<1>2. /\ check[c] # Idle /\ check[c].answer = "none"
      /\ UNCHANGED <<billingVars, attempt, calls, provider>>
  BY DEF PollProvider
<1>3. /\ check \in [Collectors -> Check \cup {Idle}] /\ check[c] \in Check
      /\ provider[check[c].attempt] \in ProviderStatuses \cup {"none"}
  BY <1>2 DEF Shape, PaymentsTypeOK, Check
<1>4. s \in Answers
  BY <1>3 DEF Answers
<1>5. check' \in [Collectors -> Check \cup {Idle}]
  BY <1>1, <1>3, <1>4 DEF Check
<1>6. /\ check'[c].attempt = check[c].attempt /\ check'[c].seen = check[c].seen
      /\ check'[c].answer = s
      /\ \A d \in Collectors : d # c => check'[d] = check[d]
  BY <1>1, <1>3 DEF Check
<1>7. settling[c] = Idle
  BY <1>2 DEF Reads, CheckReads
<1>8. CheckReads'
  BY <1>1, <1>2, <1>6, <1>7 DEF Reads, CheckReads, billingVars, Took
<1> QED
  BY <1>2, <1>5, <1>8, CheckOnlyKeeps

\* What a process settling or answering leaves behind: nobody else is in the
\* middle of anything, and now neither is it.
LEMMA ClerkLeavesNone ==
  ASSUME SerialInv, NEW c \in Collectors, check[c] # Idle \/ settling[c] # Idle, run' = run,
         check' = [check EXCEPT ![c] = Idle],
         settling' \in [Collectors -> Settling \cup {Idle}], settling'[c] = Idle,
         \A d \in Collectors : d # c => settling'[d] = settling[d]
  PROVE  /\ check' \in [Collectors -> Check \cup {Idle}] /\ RunReads' /\ SettlingReads' /\ CheckReads'
<1>1. check \in [Collectors -> Check \cup {Idle}] /\ Alone
  BY DEF SerialInv, Shape, PaymentsTypeOK
<1>2. \A r \in Runs : run'[r] = Idle
  BY <1>1, AloneClerk
<1>3. \A d \in Collectors : check'[d] = Idle /\ settling'[d] = Idle
  BY <1>1, AloneClerk
<1> QED
  BY <1>1, <1>2, <1>3 DEF RunReads, SettlingReads, CheckReads

\* The status an answer other than paid leaves an attempt in.
LEMMA AnswerStatus ==
  ASSUME NEW seen \in Statuses, NEW answer \in Answers, answer \notin {"none", "mismatch"},
         NormalizeStatus(answer) # "PAID"
  PROVE  LET s == NextStatus(seen, NormalizeStatus(answer)) IN
         /\ s \in Statuses \ {"PAID", "NONE"}
         /\ seen \in Terminal => s \in Terminal
         /\ seen = "PAID" => s = "REQUIRES_REVIEW"
<1>1. NormalizeStatus(answer) \in {"PENDING", "CANCELLED", "DISPUTED", "REFUNDED"}
  BY DEF NormalizeStatus, Answers, ProviderStatuses
<1> QED
  BY <1>1 DEF NextStatus, Statuses, Terminal

LEMMA ApplyAnswerWrites ==
  ASSUME SerialInv, NEW c \in Collectors, ApplyAnswer(c)
  PROVE  \E a \in Attempts :
           /\ attempt[a].polled /\ attempt'[a].polled
           /\ attempt' \in [Attempts -> [status : Statuses, polled : BOOLEAN]]
           /\ attempt'[a].status \notin {"PAID", "NONE"}
           /\ attempt[a].status \in Terminal => attempt'[a].status \in Terminal
           /\ attempt[a].status = "PAID" => attempt'[a].status = "REQUIRES_REVIEW"
           /\ \A b \in Attempts : b # a => attempt'[b] = attempt[b]
<1> USE DEF SerialInv
<1> DEFINE a == check[c].attempt
           s == IF check[c].answer = "mismatch" THEN "REQUIRES_REVIEW"
                ELSE NextStatus(check[c].seen, NormalizeStatus(check[c].answer))
<1>1. /\ check[c] # Idle /\ check[c].answer # "none"
      /\ check[c].answer = "mismatch" \/ NormalizeStatus(check[c].answer) # "PAID"
      /\ attempt' = [attempt EXCEPT ![a].status = s]
  BY DEF ApplyAnswer
<1>2. /\ a \in Attempts /\ check[c].answer \in Answers /\ check[c].seen \in Statuses
      /\ attempt \in [Attempts -> [status : Statuses, polled : BOOLEAN]]
  BY <1>1 DEF Shape, PaymentsTypeOK, Check
<1>3. attempt[a].polled /\ check[c].seen = attempt[a].status
  BY <1>1 DEF Reads, CheckReads
<1>4. /\ s \in Statuses \ {"PAID", "NONE"}
      /\ attempt[a].status \in Terminal => s \in Terminal
      /\ attempt[a].status = "PAID" => s = "REQUIRES_REVIEW"
  <2>1. CASE check[c].answer = "mismatch"
    BY <2>1 DEF Statuses, Terminal
  <2>2. CASE check[c].answer # "mismatch"
    BY <1>1, <1>2, <1>3, <2>2, AnswerStatus
  <2> QED
    BY <2>1, <2>2
<1> HIDE DEF s, a
<1>5. /\ attempt'[a].status = s /\ attempt'[a].polled = attempt[a].polled
      /\ attempt' \in [Attempts -> [status : Statuses, polled : BOOLEAN]]
      /\ \A b \in Attempts : b # a => attempt'[b] = attempt[b]
  BY <1>1, <1>2, <1>4
<1> QED
  BY <1>2, <1>3, <1>4, <1>5

LEMMA ApplyAnswerKeeps ==
  ASSUME SerialInv, NEW c \in Collectors, ApplyAnswer(c)
  PROVE  Sound'
<1> USE DEF SerialInv, Sound, billingVars
<1>1. /\ check[c] # Idle /\ settling[c] = Idle /\ check' = [check EXCEPT ![c] = Idle]
      /\ UNCHANGED <<billingVars, calls, provider>>
  BY DEF ApplyAnswer
<1>2. PICK a \in Attempts :
        /\ attempt[a].polled /\ attempt'[a].polled
        /\ attempt' \in [Attempts -> [status : Statuses, polled : BOOLEAN]]
        /\ attempt'[a].status \notin {"PAID", "NONE"}
        /\ \A b \in Attempts : b # a => attempt'[b] = attempt[b]
  BY ApplyAnswerWrites
<1>3. settling' = settling /\ settling \in [Collectors -> Settling \cup {Idle}]
  BY <1>1 DEF Shape
<1>4. check' \in [Collectors -> Check \cup {Idle}] /\ RunReads' /\ SettlingReads' /\ CheckReads'
  BY <1>1, <1>3, ClerkLeavesNone
<1>5. Shape'
  BY <1>1, <1>2, <1>3, <1>4 DEF Shape, PaymentsTypeOK, BillingTypeOK
<1>6. Initiated'
  BY <1>1, <1>2 DEF Reads, Initiated
<1>7. PaidOnEvidence'
  BY <1>1, <1>2 DEF PaidOnEvidence, Paid, Invoices
<1> QED
  BY <1>1, <1>5, <1>6, <1>7, <1>4, BooksStand DEF Reads

\* A step that only notes what a settlement has read.
LEMMA SettlingOnlyKeeps ==
  ASSUME SerialInv, NEW c \in Collectors,
         UNCHANGED <<clock, subscription, tenant, invoices, run, attempt, calls, provider, check>>,
         settling' \in [Collectors -> Settling \cup {Idle}],
         \A d \in Collectors : d # c => settling'[d] = settling[d],
         settling'[c].invoice \in DOMAIN invoices,
         invoices[settling'[c].invoice].status # "paid",
         settling'[c].counted => settling'[c].clear = Clear(settling'[c].invoice),
         check[c] # Idle =>
           check[c].answer = "paid" /\ settling'[c].invoice = InvoiceOf(check[c].attempt)
  PROVE  Sound'
<1> USE DEF SerialInv, Sound
<1>1. Shape'
  BY DEF Shape, PaymentsTypeOK, BillingTypeOK
<1>2. RunReads'
  BY DEF Reads, RunReads, Overdue, Invoices
<1>3. SettlingReads'
  <2>1. \A i : Clear(i)' = Clear(i)
    BY DEF Clear
  <2> QED
    BY <2>1 DEF Reads, SettlingReads
<1>4. CheckReads'
  BY DEF Reads, CheckReads
<1>5. Initiated'
  BY DEF Reads, Initiated
<1>6. PaidOnEvidence'
  BY DEF PaidOnEvidence, Paid, Invoices
<1> QED
  BY <1>1, <1>2, <1>3, <1>4, <1>5, <1>6, BooksStand DEF Reads

LEMMA StartSettlingKeeps ==
  ASSUME SerialInv, NEW c \in Collectors, NEW i, StartSettling(c, i), UNCHANGED paymentVars,
         check[c] # Idle => check[c].answer = "paid" /\ i = InvoiceOf(check[c].attempt)
  PROVE  Sound'
<1>1. /\ i \in DOMAIN invoices /\ invoices[i].status # "paid"
      /\ settling' = [settling EXCEPT ![c] = [invoice |-> i, counted |-> FALSE, clear |-> FALSE]]
      /\ settling \in [Collectors -> Settling \cup {Idle}]
      /\ UNCHANGED <<clock, subscription, tenant, invoices, run, attempt, calls, provider, check>>
  BY DEF StartSettling, paymentVars, SerialInv, Shape
<1>2. i \in Nat
  BY <1>1, InvoiceRows, LenProperties DEF SerialInv
<1>3. settling' \in [Collectors -> Settling \cup {Idle}]
  BY <1>1, <1>2 DEF Settling
<1> QED
  BY <1>1, <1>3, SettlingOnlyKeeps

LEMMA SettleOnEvidenceKeeps ==
  ASSUME SerialInv, NEW c \in Collectors, SettleOnEvidence(c)
  PROVE  Sound'
<1>1. check[c] # Idle /\ check[c].answer \in Answers
  BY DEF SettleOnEvidence, SerialInv, Shape, PaymentsTypeOK, Check
<1>2. check[c].answer = "paid"
  BY <1>1 DEF SettleOnEvidence, NormalizeStatus, Answers, ProviderStatuses
<1> QED
  BY <1>2, StartSettlingKeeps DEF SettleOnEvidence

LEMMA SettlementCountsKeeps ==
  ASSUME SerialInv, NEW c \in Collectors, SettlementCounts(c)
  PROVE  Sound'
<1> DEFINE i == settling[c].invoice
<1>1. /\ settling[c] # Idle
      /\ settling' = [settling EXCEPT ![c].counted = TRUE, ![c].clear = Clear(i)]
      /\ UNCHANGED <<clock, subscription, tenant, invoices, run, attempt, calls, provider, check>>
  BY DEF SettlementCounts, CountOverdue, paymentVars
<1>2. settling \in [Collectors -> Settling \cup {Idle}] /\ settling[c] \in Settling
  BY <1>1 DEF SerialInv, Shape
<1>3. Clear(i) \in BOOLEAN
  BY DEF Clear
<1>4. i \in DOMAIN invoices /\ invoices[i].status # "paid"
  BY <1>1 DEF SerialInv, Reads, SettlingReads
<1>5. check[c] # Idle => check[c].answer = "paid" /\ i = InvoiceOf(check[c].attempt)
  BY <1>1 DEF SerialInv, Reads, CheckReads
<1> HIDE DEF i
<1>6. /\ settling' \in [Collectors -> Settling \cup {Idle}]
      /\ settling'[c].invoice = settling[c].invoice /\ settling'[c].clear = Clear(i)
      /\ \A d \in Collectors : d # c => settling'[d] = settling[d]
  BY <1>1, <1>2, <1>3 DEF Settling
<1>7. settling'[c].invoice = i
  BY <1>6 DEF i
<1> QED
  BY <1>1, <1>4, <1>5, <1>6, <1>7, SettlingOnlyKeeps

\* What a settlement does to the table of invoices.
LEMMA SettlementWrites ==
  ASSUME SerialInv, NEW c \in Collectors, FinishSettlement(c)
  PROVE  LET i == settling[c].invoice IN
         /\ settling[c] # Idle /\ settling[c].clear = Clear(i)
         /\ i \in DOMAIN invoices /\ invoices[i].status # "paid"
         /\ invoices' \in Seq(SubscriptionInvoice) /\ Len(invoices') = Len(invoices)
         /\ DOMAIN invoices' = DOMAIN invoices
         /\ \A j \in DOMAIN invoices :
              /\ invoices'[j].from = invoices[j].from /\ invoices'[j].to = invoices[j].to
              /\ invoices'[j].status = IF j = i THEN "paid" ELSE invoices[j].status
<1> DEFINE i == settling[c].invoice
<1>1. /\ settling[c] # Idle /\ settling[c].counted
      /\ invoices' = [invoices EXCEPT ![i].status = "paid"]
  BY DEF FinishSettlement, CommitSettling
<1>2. settling[c].clear = Clear(i) /\ i \in DOMAIN invoices /\ invoices[i].status # "paid"
  BY <1>1 DEF SerialInv, Reads, SettlingReads
<1>3. /\ invoices \in Seq(SubscriptionInvoice) /\ DOMAIN invoices = 1..Len(invoices)
      /\ Len(invoices) \in Nat
      /\ \A j \in DOMAIN invoices : invoices[j] \in SubscriptionInvoice
  BY InvoiceRows, LenProperties DEF SerialInv
<1> HIDE DEF i
<1> DEFINE paid == [invoices[i] EXCEPT !.status = "paid"]
<1>4. /\ paid \in SubscriptionInvoice /\ paid.status = "paid"
      /\ paid.from = invoices[i].from /\ paid.to = invoices[i].to
  BY <1>2, <1>3 DEF SubscriptionInvoice
<1>5. invoices' = [invoices EXCEPT ![i] = paid]
  BY <1>1
<1> HIDE DEF paid
<1>6. /\ invoices' \in Seq(SubscriptionInvoice) /\ Len(invoices') = Len(invoices)
      /\ \A j \in DOMAIN invoices : invoices'[j] = IF j = i THEN paid ELSE invoices[j]
  BY <1>2, <1>3, <1>4, <1>5, ExceptSeq
<1>7. DOMAIN invoices' = DOMAIN invoices
  BY <1>3, <1>6, LenProperties
<1> QED
  BY <1>1, <1>2, <1>4, <1>6, <1>7 DEF i

LEMMA FinishSettlementKeeps ==
  ASSUME SerialInv, NEW c \in Collectors, FinishSettlement(c)
  PROVE  Sound'
<1> USE DEF SerialInv, Sound
<1>0. PICK i : i = settling[c].invoice
  OBVIOUS
<1>1. /\ subscription' = IF settling[c].clear THEN [subscription EXCEPT !.status = "ACTIVE"]
                         ELSE subscription
      /\ tenant' = IF settling[c].clear THEN "ACTIVE" ELSE tenant
      /\ settling' = [settling EXCEPT ![c] = Idle] /\ check' = [check EXCEPT ![c] = Idle]
      /\ UNCHANGED <<clock, run, calls, provider>>
      /\ attempt' = IF check[c] = Idle THEN attempt
                    ELSE [attempt EXCEPT ![check[c].attempt].status = "PAID"]
  BY DEF FinishSettlement, CommitSettling
<1>2. /\ settling[c] # Idle /\ settling[c].clear = Clear(i)
      /\ i \in DOMAIN invoices /\ invoices[i].status # "paid"
      /\ invoices' \in Seq(SubscriptionInvoice) /\ Len(invoices') = Len(invoices)
      /\ DOMAIN invoices' = DOMAIN invoices
      /\ \A j \in DOMAIN invoices :
           /\ invoices'[j].from = invoices[j].from /\ invoices'[j].to = invoices[j].to
           /\ invoices'[j].status = IF j = i THEN "paid" ELSE invoices[j].status
  BY <1>0, SettlementWrites
<1>3. /\ settling' \in [Collectors -> Settling \cup {Idle}] /\ settling'[c] = Idle
       /\ \A d \in Collectors : d # c => settling'[d] = settling[d]
  BY <1>1 DEF Shape
<1>4. check' \in [Collectors -> Check \cup {Idle}] /\ RunReads' /\ SettlingReads' /\ CheckReads'
  BY <1>1, <1>2, <1>3, ClerkLeavesNone
<1>5. /\ subscription \in Subscription
      /\ tenant \in {"TRIAL", "ACTIVE", "PAST_DUE", "SUSPENDED"}
      /\ attempt \in [Attempts -> [status : Statuses, polled : BOOLEAN]]
      /\ invoices \in Seq(SubscriptionInvoice) /\ DOMAIN invoices = 1..Len(invoices)
      /\ Len(invoices) \in Nat
  BY InvoiceRows, LenProperties DEF Shape, PaymentsTypeOK, BillingTypeOK
<1>6. check[c] # Idle =>
        /\ check[c].attempt \in Attempts /\ attempt[check[c].attempt].polled
        /\ provider[check[c].attempt] \in Took /\ i = InvoiceOf(check[c].attempt)
  BY <1>0, <1>2 DEF Shape, PaymentsTypeOK, Check, Reads, CheckReads
<1>7. /\ attempt' \in [Attempts -> [status : Statuses, polled : BOOLEAN]]
      /\ \A b \in Attempts :
           \/ attempt'[b] = attempt[b]
           \/ /\ check[c] # Idle /\ b = check[c].attempt
              /\ attempt'[b].status = "PAID" /\ attempt'[b].polled = attempt[b].polled
  BY <1>1, <1>5, <1>6 DEF Statuses, Terminal
<1>8. /\ subscription' \in Subscription /\ subscription'.periodEnd = subscription.periodEnd
      /\ subscription'.status = IF settling[c].clear THEN "ACTIVE" ELSE subscription.status
      /\ tenant' \in {"TRIAL", "ACTIVE", "PAST_DUE", "SUSPENDED"}
  BY <1>1, <1>5 DEF Subscription
<1>9. Shape'
  BY <1>1, <1>2, <1>4, <1>7, <1>8, <1>3 DEF Shape, PaymentsTypeOK, BillingTypeOK
<1>10. Initiated'
  BY <1>1, <1>6, <1>7 DEF Reads, Initiated
<1>11. PaidOnEvidence'
  <2>1. \A j : Paid(j) => Paid(j)'
    BY <1>2 DEF Paid, Invoices
  <2>2. Paid(i)'
    BY <1>2 DEF Paid, Invoices
  <2> QED
    BY <1>1, <1>6, <1>7, <2>1, <2>2 DEF PaidOnEvidence, Took
<1>12. PeriodsTile'
  <2>1. \A j \in DOMAIN invoices : j = 1 \/ j - 1 \in DOMAIN invoices
    BY <1>5
  <2>2. invoices # <<>> /\ invoices' # <<>> /\ Len(invoices) \in DOMAIN invoices
    BY <1>2, <1>5, EmptySeq
  <2>3. \A j \in DOMAIN invoices :
          invoices'[j].from = IF j = 1 THEN TrialEnd ELSE invoices'[j - 1].to
    BY <1>2, <2>1 DEF Books, PeriodsTile, Invoices
  <2>4. subscription'.periodEnd = invoices'[Len(invoices')].to
    BY <1>2, <1>8, <2>2 DEF Books, PeriodsTile
  <2> QED
    BY <1>2, <2>2, <2>3, <2>4 DEF PeriodsTile, Invoices
<1>13. TrialIsFree'
  BY <1>2, <1>5, <1>8, EmptySeq DEF Books, TrialIsFree
<1>14. RestrictedIffOverdue'
  <2>1. \A j : j \in Overdue' <=> j \in Overdue /\ j # i
    BY <1>2 DEF Overdue, Invoices
  <2>2. CASE settling[c].clear
    <3>1. \A j \in DOMAIN invoices : j # i => invoices[j].status # "overdue"
      BY <1>2, <2>2 DEF Clear
    <3>2. Overdue' = {}
      BY <2>1, <3>1 DEF Overdue, Invoices
    <3> QED
      BY <1>1, <1>8, <2>2, <3>2 DEF RestrictedIffOverdue
  <2>3. CASE ~settling[c].clear
    <3>1. PICK j \in DOMAIN invoices : j # i /\ invoices[j].status = "overdue"
      BY <1>2, <2>3 DEF Clear
    <3>2. j \in Overdue /\ j \in Overdue'
      BY <2>1, <3>1 DEF Overdue, Invoices
    <3> QED
      BY <1>1, <1>8, <2>3, <3>2 DEF Books, RestrictedIffOverdue
  <2> QED
    BY <2>2, <2>3
<1> QED
  BY <1>4, <1>9, <1>10, <1>11, <1>12, <1>13, <1>14 DEF Reads, Books

LEMMA GiveUpKeeps ==
  ASSUME SerialInv, NEW c \in Collectors, GiveUp(c)
  PROVE  Sound'
<1> USE DEF SerialInv, Sound
<1>1. /\ check[c] # Idle \/ settling[c] # Idle
      /\ check' = [check EXCEPT ![c] = Idle] /\ settling' = [settling EXCEPT ![c] = Idle]
      /\ UNCHANGED <<clock, subscription, tenant, invoices, run, attempt, calls, provider>>
  BY DEF GiveUp
<1>2. /\ settling' \in [Collectors -> Settling \cup {Idle}] /\ settling'[c] = Idle
      /\ \A d \in Collectors : d # c => settling'[d] = settling[d]
  BY <1>1 DEF Shape
<1>3. check' \in [Collectors -> Check \cup {Idle}] /\ RunReads' /\ SettlingReads' /\ CheckReads'
  BY <1>1, <1>2, ClerkLeavesNone
<1>4. Shape'
  BY <1>1, <1>3, <1>2 DEF Shape, PaymentsTypeOK, BillingTypeOK
<1>5. Initiated'
  BY <1>1 DEF Reads, Initiated
<1>6. PaidOnEvidence'
  BY <1>1 DEF PaidOnEvidence, Paid, Invoices
<1> QED
  BY <1>1, <1>3, <1>4, <1>5, <1>6, BooksStand DEF Reads

LEMMA ClerkStepKeeps ==
  ASSUME SerialInv, NEW c \in Collectors, ClerkStep(c)
  PROVE  Sound'
<1>1. ASSUME NEW i, SettleByStaff(c, i) PROVE Sound'
  BY <1>1, StartSettlingKeeps DEF SettleByStaff
<1> QED
  BY <1>1, ReadAttemptKeeps, PollProviderKeeps, ApplyAnswerKeeps, SettleOnEvidenceKeeps,
     SettlementCountsKeeps, FinishSettlementKeeps, GiveUpKeeps DEF ClerkStep

----------------------------------------------------------------------------
(* The invariant.                                                          *)

LEMMA SerialInvInit == PaymentsInit => SerialInv
<1> SUFFICES ASSUME PaymentsInit PROVE SerialInv
  OBVIOUS
<1> USE DEF PaymentsInit, BillingInit
<1>1. Shape
  BY BillingConstants, EmptySeq
  DEF Shape, PaymentsTypeOK, BillingTypeOK, Subscription, Statuses
<1>2. Alone
  BY DEF Alone, Busy
<1>3. Reads
  BY DEF Reads, RunReads, SettlingReads, CheckReads, Initiated
<1>4. PaidOnEvidence
  BY DEF PaidOnEvidence
<1>5. DOMAIN invoices = {}
  BY EmptySeq, LenProperties
<1>6. Books
  BY <1>5 DEF Books, TrialIsFree, PeriodsTile, RestrictedIffOverdue, Overdue, Invoices
<1> QED
  BY <1>1, <1>2, <1>3, <1>4, <1>6 DEF SerialInv

LEMMA SerialInvStep == SerialInv /\ [PaymentsNext /\ OneAtATime]_vars => SerialInv'
<1> SUFFICES ASSUME SerialInv, [PaymentsNext /\ OneAtATime]_vars PROVE SerialInv'
  OBVIOUS
<1>1. CASE UNCHANGED vars
  <2>1. UNCHANGED <<clock, subscription, tenant, invoices, run, settling,
                    attempt, calls, provider, check>>
    BY <1>1 DEF vars, billingVars, paymentVars
  <2>2. Sound'
    <3>1. check' \in [Collectors -> Check \cup {Idle}]
      BY <2>1 DEF SerialInv, Shape, PaymentsTypeOK
    <3>2. CheckReads'
      BY <2>1 DEF SerialInv, Reads, CheckReads
    <3> QED
      BY <2>1, <3>1, <3>2, CheckOnlyKeeps DEF billingVars
  <2>3. Alone'
    BY <2>1 DEF SerialInv, Alone, Busy
  <2> QED
    BY <2>2, <2>3 DEF SerialInv, Sound
<1>2. CASE PaymentsNext /\ OneAtATime
  <2>1. Sound'
    BY <1>2, RunStepKeeps, TickKeeps, OutsideKeeps, ClerkStepKeeps DEF PaymentsNext, RunOrTick
  <2> QED
    BY <1>2, <2>1, AloneAfter DEF SerialInv, Sound
<1> QED
  BY <1>1, <1>2

LEMMA SerialInvAlways == SerialSpec => []SerialInv
BY SerialInvInit, SerialInvStep, PTL DEF SerialSpec

\* Billing is continuous: no period is billed twice and none is skipped, for
\* any calendar and any number of runs, repeated, late or rolled back.
THEOREM PeriodsAlwaysTile == SerialSpec => []PeriodsTile
<1>1. SerialInv => PeriodsTile
  BY DEF SerialInv, Books
<1> QED
  BY <1>1, SerialInvAlways, PTL

\* A tenant is restricted exactly while one of its invoices is overdue, and the
\* two tables that hold its status never part.
THEOREM RestrictionFollowsArrears == SerialSpec => []RestrictedIffOverdue
<1>1. SerialInv => RestrictedIffOverdue
  BY DEF SerialInv, Books
<1> QED
  BY <1>1, SerialInvAlways, PTL

\* Every attempt that counts as paid was paid at the provider and settled its
\* invoice, and the states have the right types.
THEOREM PaymentsAlwaysSound == SerialSpec => []PaymentsSound
<1>1. SerialInv => PaymentsSound
  BY DEF SerialInv, Shape, PaymentsSound
<1> QED
  BY <1>1, SerialInvAlways, PTL

----------------------------------------------------------------------------
(* What a step never takes back.                                           *)

PaidStays == \A i \in Invoices : invoices[i].status = "paid" => invoices'[i].status = "paid"

FinalStays ==
  \A a \in Attempts :
    /\ attempt[a].status \in Terminal => attempt'[a].status \in Terminal
    /\ ~Reopened(a)

InOrder ==
  /\ tenant # "SUSPENDED" /\ tenant' = "SUSPENDED" =>
       /\ tenant = "PAST_DUE"
       /\ \E i \in Overdue : clock > invoices[i].due + SuspendDays
  /\ tenant \in {"PAST_DUE", "SUSPENDED"} /\ tenant' = "ACTIVE" =>
       \E i \in Invoices : invoices[i].status # "paid" /\ invoices'[i].status = "paid"

OneWay == PaidStays /\ FinalStays /\ InOrder

LEMMA FinalStaysIfSame == attempt' = attempt => FinalStays
BY DEF FinalStays, Reopened

LEMMA BooksStandOneWay ==
  ASSUME UNCHANGED <<tenant, invoices>> PROVE PaidStays /\ InOrder
BY DEF PaidStays, InOrder

LEMMA EndTrialOneWay ==
  ASSUME SerialInv, NEW r \in Runs, EndTrial(r), attempt' = attempt
  PROVE  OneWay
<1>1. subscription.status = "TRIALING"
  BY DEF EndTrial, TrialOver, SerialInv, Reads, RunReads
<1>2. invoices = <<>> /\ tenant = "TRIAL" /\ tenant' = "ACTIVE"
  BY <1>1 DEF EndTrial, SerialInv, Books, TrialIsFree, RestrictedIffOverdue
<1>3. DOMAIN invoices = {}
  BY <1>2
<1> QED
  BY <1>2, <1>3, FinalStaysIfSame DEF OneWay, PaidStays, InOrder, Invoices

LEMMA CommitRunOneWay ==
  ASSUME SerialInv, NEW r \in Runs, CommitRun(r), attempt' = attempt
  PROVE  OneWay
<1> DEFINE a == run[r]
<1>1. /\ a.sub = subscription
      /\ \A i \in a.late : i \in DOMAIN invoices /\ invoices[i].status = "pending"
      /\ a.late # {} => subscription.status = "ACTIVE"
      /\ a.long => /\ subscription.status = "PAST_DUE"
                   /\ \E i \in Overdue : clock > invoices[i].due + SuspendDays
  BY DEF CommitRun, SerialInv, Reads, RunReads
<1>2. tenant' = NewStatus(a, tenant)
  BY DEF CommitRun
<1>3. \A i \in DOMAIN invoices :
        invoices'[i].status = IF i \in a.late THEN "overdue" ELSE invoices[i].status
  BY CommitWrites
<1>4. PaidStays
  BY <1>1, <1>3 DEF PaidStays, Invoices
<1>5. tenant = IF subscription.status = "TRIALING" THEN "TRIAL" ELSE subscription.status
  BY DEF SerialInv, Books, RestrictedIffOverdue
<1>6. InOrder
  BY <1>1, <1>2, <1>5 DEF InOrder, NewStatus
<1> QED
  BY <1>4, <1>6, FinalStaysIfSame DEF OneWay

LEMMA ApplyAnswerOneWay ==
  ASSUME SerialInv, NEW c \in Collectors, ApplyAnswer(c)
  PROVE  OneWay
<1>1. PICK a \in Attempts :
        /\ attempt'[a].status \notin {"PAID", "NONE"}
        /\ attempt[a].status \in Terminal => attempt'[a].status \in Terminal
        /\ attempt[a].status = "PAID" => attempt'[a].status = "REQUIRES_REVIEW"
        /\ \A b \in Attempts : b # a => attempt'[b] = attempt[b]
  BY ApplyAnswerWrites
<1>2. FinalStays
  BY <1>1 DEF FinalStays, Reopened
<1>3. UNCHANGED <<tenant, invoices>>
  BY DEF ApplyAnswer, billingVars
<1> QED
  BY <1>2, <1>3, BooksStandOneWay DEF OneWay

LEMMA FinishSettlementOneWay ==
  ASSUME SerialInv, NEW c \in Collectors, FinishSettlement(c)
  PROVE  OneWay
<1> DEFINE i == settling[c].invoice
<1>1. /\ i \in DOMAIN invoices /\ invoices[i].status # "paid"
      /\ \A j \in DOMAIN invoices :
           invoices'[j].status = IF j = i THEN "paid" ELSE invoices[j].status
  BY SettlementWrites
<1>2. PaidStays
  BY <1>1 DEF PaidStays, Invoices
<1>3. tenant' \in {tenant, "ACTIVE"}
  BY DEF FinishSettlement, CommitSettling
<1>4. InOrder
  BY <1>1, <1>3 DEF InOrder, Invoices
<1>5. attempt \in [Attempts -> [status : Statuses, polled : BOOLEAN]]
  BY DEF SerialInv, Shape, PaymentsTypeOK
<1>6. \A b \in Attempts : attempt'[b] = attempt[b] \/ attempt'[b].status = "PAID"
  BY <1>5 DEF FinishSettlement
<1>7. FinalStays
  BY <1>6 DEF FinalStays, Reopened, Terminal
<1> QED
  BY <1>2, <1>4, <1>7 DEF OneWay

\* Initiation only concerns an attempt that is not final.
LEMMA InitiateOneWay ==
  ASSUME SerialInv, InitiateStep
  PROVE  OneWay
<1>1. UNCHANGED <<tenant, invoices>>
  BY DEF InitiateStep, CreateAttempt, InitiationConfirmed, InitiationRejected, InitiationLost,
         billingVars
<1>2. PICK a \in Attempts :
        CreateAttempt(a) \/ InitiationConfirmed(a) \/ InitiationRejected(a) \/ InitiationLost(a)
  BY DEF InitiateStep
<1>3. attempt[a].status \in {"NONE", "CREATED"}
  BY <1>2 DEF CreateAttempt, InitiationConfirmed, InitiationRejected, InitiationLost,
              SerialInv, Reads, Initiated
<1>4. attempt \in [Attempts -> [status : Statuses, polled : BOOLEAN]]
  BY DEF SerialInv, Shape, PaymentsTypeOK
<1>5. \A b \in Attempts : b # a => attempt'[b] = attempt[b]
  BY <1>2, <1>4 DEF CreateAttempt, InitiationConfirmed, InitiationRejected, InitiationLost
<1>6. FinalStays
  BY <1>3, <1>5 DEF FinalStays, Reopened, Terminal
<1> QED
  BY <1>1, <1>6, BooksStandOneWay DEF OneWay

LEMMA StepsOneWay == SerialInv /\ PaymentsNext => OneWay
<1> SUFFICES ASSUME SerialInv, PaymentsNext PROVE OneWay
  OBVIOUS
<1>1. CASE RunOrTick /\ UNCHANGED paymentVars
  <2>1. attempt' = attempt
    BY <1>1 DEF paymentVars
  <2>2. ASSUME NEW r \in Runs, EndTrial(r) PROVE OneWay
    BY <2>1, <2>2, EndTrialOneWay
  <2>3. ASSUME NEW r \in Runs, CommitRun(r) PROVE OneWay
    BY <2>1, <2>3, CommitRunOneWay
  <2>4. ASSUME NEW r \in Runs, StartRun(r) \/ SelectOverdue(r) \/ AbortRun(r) PROVE OneWay
    BY <2>1, <2>4, FinalStaysIfSame, BooksStandOneWay
    DEF StartRun, SelectOverdue, AbortRun, OneWay
  <2>5. ASSUME Tick PROVE OneWay
    BY <2>1, <2>5, FinalStaysIfSame, BooksStandOneWay DEF Tick, OneWay
  <2> QED
    BY <1>1, <2>2, <2>3, <2>4, <2>5 DEF RunOrTick, RunStep
<1>2. CASE ProviderStep
  BY <1>2, FinalStaysIfSame, BooksStandOneWay
  DEF ProviderStep, CustomerActs, ProviderReverses, billingVars, OneWay
<1>3. CASE InitiateStep
  BY <1>3, InitiateOneWay
<1>4. ASSUME NEW c \in Collectors, ClerkStep(c) PROVE OneWay
  <2>1. CASE ApplyAnswer(c)
    BY <2>1, ApplyAnswerOneWay
  <2>2. CASE FinishSettlement(c)
    BY <2>2, FinishSettlementOneWay
  <2>3. ASSUME attempt' = attempt, UNCHANGED <<tenant, invoices>> PROVE OneWay
    BY <2>3, FinalStaysIfSame, BooksStandOneWay DEF OneWay
  <2>4. CASE \E a \in Attempts : ReadAttempt(c, a)
    BY <2>3, <2>4 DEF ReadAttempt, billingVars
  <2>5. CASE PollProvider(c) \/ GiveUp(c)
    BY <2>3, <2>5 DEF PollProvider, GiveUp, billingVars
  <2>6. CASE SettleOnEvidence(c) \/ SettlementCounts(c)
    BY <2>3, <2>6 DEF SettleOnEvidence, StartSettling, SettlementCounts, CountOverdue, paymentVars
  <2>7. CASE \E i \in DOMAIN invoices : SettleByStaff(c, i)
    BY <2>3, <2>7 DEF SettleByStaff, StartSettling, paymentVars
  <2> QED
    BY <1>4, <2>1, <2>2, <2>4, <2>5, <2>6, <2>7 DEF ClerkStep
<1> QED
  BY <1>1, <1>2, <1>3, <1>4 DEF PaymentsNext

\* A settled invoice is never asked for again, a final attempt stays final and
\* a paid one is at most sent to review, a tenant is warned before it is
\* suspended, after the whole window, and comes back by a settlement alone.
THEOREM NothingEverGoesBack == SerialSpec => NothingGoesBack
<1>1. SerialInv /\ [PaymentsNext /\ OneAtATime]_vars => [PaidStays]_vars
  BY StepsOneWay DEF OneWay
<1>2. SerialInv /\ [PaymentsNext /\ OneAtATime]_vars => [FinalStays]_vars
  BY StepsOneWay DEF OneWay
<1>3. SerialInv /\ [PaymentsNext /\ OneAtATime]_vars => [InOrder]_vars
  BY StepsOneWay DEF OneWay
<1>4. SerialSpec => [][PaidStays]_vars
  BY <1>1, SerialInvAlways, PTL DEF SerialSpec
<1>5. SerialSpec => [][FinalStays]_vars
  BY <1>2, SerialInvAlways, PTL DEF SerialSpec
<1>6. SerialSpec => [][InOrder]_vars
  BY <1>3, SerialInvAlways, PTL DEF SerialSpec
<1> QED
  BY <1>4, <1>5, <1>6
  DEF NothingGoesBack, PaidStaysPaid, StatusMonotonic, LifecycleInOrder,
      PaidStays, FinalStays, InOrder

----------------------------------------------------------------------------
(* Verification.                                                            *)

----------------------------------------------------------------------------
(* The kernel, of any subjects.                                            *)

ClerksFit ==
  /\ clerk \in [Clerks -> Errand \cup {None}]
  /\ \A c \in Clerks : clerk[c] # None =>
       /\ clerk[c] \in Errand
       /\ clerk[c].op = "TOGGLE" => clerk[c].staff \in Staff
       /\ clerk[c].op \in {"RENEW", "WITHDRAW"} => clerk[c].piece \in Evidence
       /\ clerk[c].op \in {"ADD", "RENEW"} => clerk[c].version # 0

Shapes ==
  /\ doc \in [Docs -> Doc] /\ approval \in [Approvals -> Approval]
  /\ evidence \in [Evidence -> Piece]
  /\ request \in [Requests -> Request]
  /\ flag \in Staff \cup {None} /\ toggledBy \in [Requests -> SUBSET Staff]

\* Superseded evidence points at its successor.
Pointed == \A e \in Evidence : evidence[e].status = "SUPERSEDED" => evidence[e].next # None

\* There is a first version of every document, and active evidence is of a version.
Numbered ==
  /\ \A d \in Docs : doc[d].status # "ABSENT" => doc[d].version # 0
  /\ \A e \in Evidence : evidence[e].status = "ACTIVE" => evidence[e].version # 0

\* What nobody asked for nobody has decided.
Unasked == \A a \in Approvals : approval[a].status = "ABSENT" => approval[a].decidedBy = None

VaultInv == Shapes /\ ClerksFit /\ Pointed /\ Numbered /\ Unasked

LEMMA TaskFits ==
  ASSUME NEW op \in {"ADD", "RENEW", "WITHDRAW"}, NEW e \in Evidence \cup {None},
         NEW d \in Docs \cup {None}, doc \in [Docs -> Doc]
  PROVE  /\ Task(op, e, d) \in Errand /\ Task(op, e, d).op = op /\ Task(op, e, d).piece = e
         /\ d # None => Task(op, e, d).version = doc[d].version
<1>1. (IF d = None THEN 0 ELSE doc[d].version) \in 0..MaxVersion
  BY DocumentsConstants DEF Doc
<1> QED BY <1>1 DEF Task, Errand

LEMMA OrdinalIsNat ==
  ASSUME NEW S \in SUBSET Requests
  PROVE  NextOrdinal(S) \in Nat
BY VerificationConstants, FS_Subset, FS_CardinalityType DEF NextOrdinal

LEMMA VaultInit == Init => VaultInv
BY DocumentsConstants, VerificationConstants
   DEF Init, DocInit, VaultInv, Shapes, ClerksFit, Pointed, Numbered, Unasked, Doc, Approval, Piece, Request, Types

LEMMA DocumentsKeep == ASSUME VaultInv, DocumentsNext PROVE VaultInv'
<1> USE DEF VaultInv, Shapes, Numbered, Unasked
<1>0. UNCHANGED <<evidence, request, flag, toggledBy, clerk>>
  BY DEF DocumentsNext
<1>1. Pointed' /\ ClerksFit' /\ evidence' \in [Evidence -> Piece] /\ request' \in [Requests -> Request]
      /\ flag' \in Staff \cup {None} /\ toggledBy' \in [Requests -> SUBSET Staff]
  BY <1>0 DEF Pointed, ClerksFit
<1>2. ASSUME NEW d \in Docs,
             \/ CreateDocument(d) \/ AddDocumentVersion(d)
             \/ \E retained \in BOOLEAN : SetRetention(d, retained)
             \/ ArchiveDocument(d) \/ RestoreDocument(d)
      PROVE  doc' \in [Docs -> Doc] /\ approval' \in [Approvals -> Approval] /\ Numbered' /\ Unasked'
  <2>1. CASE CreateDocument(d)
    BY <1>0, <2>1, DocumentsConstants DEF CreateDocument, Doc
  <2>2. CASE AddDocumentVersion(d)
    <3>1. doc[d] \in Doc /\ doc[d].version + 1 \in 0..MaxVersion
      BY <2>2, DocumentsConstants DEF AddDocumentVersion, Doc
    <3> QED
      BY <1>0, <2>2, <3>1 DEF AddDocumentVersion, Doc
  <2>3. CASE \E retained \in BOOLEAN : SetRetention(d, retained)
    BY <1>0, <2>3 DEF SetRetention, Doc
  <2>4. CASE ArchiveDocument(d) \/ RestoreDocument(d)
    BY <1>0, <2>4 DEF ArchiveDocument, RestoreDocument, Doc
  <2> QED
    BY <1>2, <2>1, <2>2, <2>3, <2>4
<1>3. ASSUME NEW d \in Docs, NEW a \in Approvals, NEW u \in Users, RequestApproval(a, d, u)
      PROVE  doc' \in [Docs -> Doc] /\ approval' \in [Approvals -> Approval] /\ Numbered' /\ Unasked'
  BY <1>0, <1>3, DocumentsConstants DEF RequestApproval, Approval, Doc
<1>4. ASSUME NEW a \in Approvals, NEW u \in Users, NEW decision \in {"APPROVED", "REJECTED"},
             DecideApproval(a, u, decision)
      PROVE  doc' \in [Docs -> Doc] /\ approval' \in [Approvals -> Approval] /\ Numbered' /\ Unasked'
  BY <1>0, <1>4 DEF DecideApproval, Approval
<1> QED
  BY <1>1, <1>2, <1>3, <1>4 DEF DocumentsNext, DocNext

LEMMA LooksKeep ==
  ASSUME VaultInv, NEW c \in Clerks,
         \/ \E d \in Docs : AddLook(c, d) \/ \E e \in Evidence : RenewLook(c, e, d)
         \/ \E e \in Evidence : WithdrawLook(c, e)
         \/ Fail(c)
  PROVE  VaultInv'
<1> USE DEF VaultInv, Shapes, Pointed, Numbered, Unasked, docVars, vaultVars
<1>1. ASSUME NEW d \in Docs, AddLook(c, d) PROVE VaultInv'
  <2>1. Task("ADD", None, d) \in Errand /\ Task("ADD", None, d).op = "ADD"
       /\ Task("ADD", None, d).version # 0
    <3>1. None \in Evidence \cup {None} /\ d # None /\ doc[d].version # 0
      BY <1>1, DocumentsConstants DEF AddLook
    <3>2. doc[d].version \in 0..MaxVersion
      BY DEF Doc
    <3> QED
      BY <3>1, <3>2 DEF Task, Errand
  <2> QED
    BY <1>1, <2>1 DEF AddLook, ClerksFit
<1>2. ASSUME NEW d \in Docs, NEW e \in Evidence, RenewLook(c, e, d) PROVE VaultInv'
  <2>1. /\ Task("RENEW", e, d) \in Errand /\ Task("RENEW", e, d).op = "RENEW"
        /\ Task("RENEW", e, d).piece = e /\ Task("RENEW", e, d).version # 0
    BY <1>2, TaskFits, DocumentsConstants DEF RenewLook
  <2> QED
    BY <1>2, <2>1 DEF RenewLook, ClerksFit
<1>3. ASSUME NEW e \in Evidence, WithdrawLook(c, e) PROVE VaultInv'
  BY <1>3, TaskFits DEF WithdrawLook, ClerksFit
<1>4. ASSUME Fail(c) PROVE VaultInv'
  BY <1>4 DEF Fail, Done, ClerksFit
<1> QED
  BY <1>1, <1>2, <1>3, <1>4

LEMMA DoneFits == ASSUME ClerksFit, NEW c \in Clerks, Done(c) PROVE ClerksFit'
BY DEF ClerksFit, Done

LEMMA CommitsKeep ==
  ASSUME VaultInv, NEW c \in Clerks,
         \/ \E e \in Evidence, type \in Types : AddCommit(c, e, type)
         \/ \E e \in Evidence : RenewCommit(c, e)
         \/ WithdrawCommit(c)
  PROVE  VaultInv'
<1> USE DEF VaultInv, Shapes, Unasked, docVars, vaultVars
<1>f. ASSUME NEW type \in Types, At(c, "ADD") \/ At(c, "RENEW")
      PROVE  /\ Fresh(c, type) \in Piece /\ Fresh(c, type).status = "ACTIVE"
             /\ Fresh(c, type).version # 0
  BY <1>f DEF At, ClerksFit, Errand, Fresh, Piece
<1>1. ASSUME NEW e \in Evidence, NEW type \in Types, AddCommit(c, e, type) PROVE VaultInv'
  <2>1. evidence' = [evidence EXCEPT ![e] = Fresh(c, type)] /\ At(c, "ADD")
    BY <1>1 DEF AddCommit
  <2>2. ClerksFit'
    BY <1>1, DoneFits DEF AddCommit
  <2>3. evidence' \in [Evidence -> Piece] /\ Pointed'
    BY <1>f, <2>1 DEF Pointed
  <2>4. Numbered' /\ UNCHANGED <<doc, approval, request, flag, toggledBy>>
    BY <1>1, <1>f, <2>1 DEF AddCommit, Numbered
  <2> QED
    BY <2>2, <2>3, <2>4
<1>2. ASSUME NEW s \in Evidence, RenewCommit(c, s) PROVE VaultInv'
  <2> DEFINE e == clerk[c].piece
             left == [evidence[e] EXCEPT !.status = "SUPERSEDED", !.next = s]
  <2>1. e \in Evidence /\ At(c, "RENEW")
    BY <1>2 DEF RenewCommit, At, ClerksFit
  <2>2. evidence[e].type \in Types /\ left \in Piece /\ left.next # None
       /\ left.status = "SUPERSEDED"
    <3>1. evidence[e] \in Piece
      BY <2>1
    <3> QED
      BY <3>1, VerificationConstants DEF Piece
  <2>3. evidence' = [evidence EXCEPT ![e] = left, ![s] = Fresh(c, evidence[e].type)]
    BY <1>2, <2>1 DEF RenewCommit, Piece
  <2>4. ClerksFit'
    BY <1>2, DoneFits DEF RenewCommit
  <2> HIDE DEF left, e
  <2>5. evidence' \in [Evidence -> Piece] /\ Pointed'
    BY <1>f, <2>1, <2>2, <2>3 DEF Pointed
  <2>6. Numbered' /\ UNCHANGED <<doc, approval, request, flag, toggledBy>>
    BY <1>2, <1>f, <2>1, <2>2, <2>3 DEF RenewCommit, Numbered
  <2> QED
    BY <2>4, <2>5, <2>6
<1>3. ASSUME WithdrawCommit(c) PROVE VaultInv'
  <2> DEFINE e == clerk[c].piece
  <2>1. e \in Evidence
    BY <1>3 DEF WithdrawCommit, At, ClerksFit
  <2>2. evidence' = [evidence EXCEPT ![e].status = "WITHDRAWN"]
    BY <1>3 DEF WithdrawCommit
  <2>3. ClerksFit'
    BY <1>3, DoneFits DEF WithdrawCommit
  <2>4. evidence' \in [Evidence -> Piece]
    BY <2>1, <2>2 DEF Piece
  <2> QED
    BY <1>3, <2>1, <2>2, <2>3, <2>4 DEF WithdrawCommit, Pointed, Numbered
<1> QED
  BY <1>1, <1>2, <1>3

LEMMA TogglesKeep ==
  ASSUME VaultInv, NEW c \in Clerks, ToggleAudit(c) \/ \E p \in Staff : ToggleStore(c, p)
  PROVE  VaultInv'
<1> USE DEF VaultInv, Shapes, Numbered, Unasked, workflowVars
<1>1. ASSUME ToggleAudit(c) PROVE VaultInv'
  <2>1. clerk[c].staff \in Staff
    BY <1>1 DEF ToggleAudit, At, ClerksFit
  <2>2. ClerksFit'
    BY <1>1, DoneFits DEF ToggleAudit
  <2> QED
    BY <1>1, <2>1, <2>2 DEF ToggleAudit, Pointed
<1>2. ASSUME NEW p \in Staff, ToggleStore(c, p) PROVE VaultInv'
  <2> DEFINE task == [Task("TOGGLE", None, None) EXCEPT !.staff = p]
  <2>1. task \in Errand /\ task.op = "TOGGLE" /\ task.staff = p
    BY DocumentsConstants DEF Task, Errand
  <2>2. clerk' = [clerk EXCEPT ![c] = task]
    BY <1>2 DEF ToggleStore
  <2> HIDE DEF task
  <2>3. ClerksFit'
    BY <2>1, <2>2 DEF ClerksFit
  <2>4. request' \in [Requests -> Request]
    BY <1>2 DEF ToggleStore, Request
  <2> QED
    BY <1>2, <2>3, <2>4 DEF ToggleStore, Pointed
<1> QED
  BY <1>1, <1>2

LEMMA RequestsKeep ==
  ASSUME VaultInv, NEW r \in Requests,
         \/ CreateDraft(r) \/ Submit(r) \/ StartReview(r) \/ Lapse(r)
         \/ \E p \in Staff :
              \/ \E to \in {"APPROVED", "REJECTED"} : DecideRequest(r, p, to)
              \/ RevokeBadge(r, p)
  PROVE  VaultInv'
<1> USE DEF VaultInv, Shapes, Numbered, Unasked, workflowVars
<1>0. request[r] \in Request
  OBVIOUS
<1>1. ASSUME CreateDraft(r) PROVE request' \in [Requests -> Request]
  <2>1. NextOrdinal({o \in Requests : request[o].drafted > 0}) \in Nat
    BY OrdinalIsNat
  <2> QED
    BY <1>0, <1>1, <2>1 DEF CreateDraft, Request
<1>2. ASSUME Submit(r) PROVE request' \in [Requests -> Request]
  <2> DEFINE frozen == {<<e, evidence[e].version>> : e \in Active}
  <2>1. FlagActors(r) \in SUBSET Staff
    BY DEF FlagActors
  <2>2. frozen \in SUBSET (Evidence \X (1..MaxVersion))
    BY DocumentsConstants DEF Active, Piece
  <2> QED
    BY <1>0, <1>2, <2>1, <2>2 DEF Submit, Request
<1>3. ASSUME StartReview(r) PROVE request' \in [Requests -> Request]
  BY <1>0, <1>3 DEF StartReview, Request
<1>4. ASSUME NEW p \in Staff, NEW to \in {"APPROVED", "REJECTED"}, DecideRequest(r, p, to)
      PROVE  request' \in [Requests -> Request]
  <2>1. (IF to = "APPROVED" THEN NextOrdinal(Issued) ELSE 0) \in Nat
    BY OrdinalIsNat DEF Issued
  <2> QED
    BY <1>0, <1>4, <2>1 DEF DecideRequest, Request
<1>5. ASSUME NEW p \in Staff, RevokeBadge(r, p) PROVE request' \in [Requests -> Request]
  BY <1>0, <1>5 DEF RevokeBadge, Request
<1>6. ASSUME Lapse(r) PROVE request' \in [Requests -> Request]
  BY <1>0, <1>6 DEF Lapse, Request
<1>7. request' \in [Requests -> Request]
  BY <1>1, <1>2, <1>3, <1>4, <1>5, <1>6
<1>8. UNCHANGED <<doc, approval, evidence, flag, toggledBy, clerk>>
  BY DEF CreateDraft, Submit, StartReview, DecideRequest, RevokeBadge, Lapse
<1> QED
  BY <1>7, <1>8 DEF Pointed, ClerksFit

LEMMA VaultStep == ASSUME VaultInv, [Next]_verificationVars PROVE VaultInv'
<1>1. CASE UNCHANGED verificationVars
  BY <1>1 DEF verificationVars, VaultInv, Shapes, ClerksFit, Pointed, Numbered, Unasked
<1>2. CASE Next
  BY <1>2, DocumentsKeep, LooksKeep, CommitsKeep, TogglesKeep, RequestsKeep
     DEF Next, VaultNext, ToggleNext, WorkflowNext
<1> QED
  BY <1>1, <1>2

LEMMA VaultAlways == VerificationSpec => []VaultInv
<1>1. Init => VaultInv
  BY VaultInit
<1>2. VaultInv /\ [Next]_verificationVars => VaultInv'
  BY VaultStep
<1> QED
  BY <1>1, <1>2, PTL DEF VerificationSpec

----------------------------------------------------------------------------
(* What superseded evidence may never do.                                  *)

LEMMA EvidenceStep ==
  ASSUME VaultInv, Next, NEW e \in Evidence
  PROVE  /\ evidence[e].status = "SUPERSEDED" => evidence'[e] = evidence[e]
         /\ evidence[e].status = "WITHDRAWN" => evidence'[e].status # "ACTIVE"
<1> USE DEF VaultInv, Shapes
<1>1. ASSUME NEW c \in Clerks, NEW n \in Evidence, NEW type \in Types, AddCommit(c, n, type)
      PROVE  evidence[e].status # "ABSENT" => evidence'[e] = evidence[e]
  BY <1>1 DEF AddCommit
<1>2. ASSUME NEW c \in Clerks, NEW s \in Evidence, RenewCommit(c, s)
      PROVE  /\ evidence[e].status = "SUPERSEDED" => evidence'[e] = evidence[e]
             /\ evidence[e].status = "WITHDRAWN" => evidence'[e].status # "ACTIVE"
  <2> DEFINE p == clerk[c].piece
  <2>1. p \in Evidence /\ evidence[p].next = None /\ evidence[s].status = "ABSENT"
    BY <1>2 DEF RenewCommit, Unpointed, At, ClerksFit
  <2>2. evidence[p].status # "SUPERSEDED"
    BY <2>1 DEF Pointed
  <2>3. evidence' = [evidence EXCEPT ![p].status = "SUPERSEDED", ![p].next = s,
                                     ![s] = Fresh(c, evidence[p].type)]
    BY <1>2 DEF RenewCommit
  <2>4. CASE e = p
    BY <2>1, <2>2, <2>3, <2>4 DEF Piece
  <2>5. CASE e # p
    BY <2>1, <2>3, <2>5
  <2> QED
    BY <2>4, <2>5
<1>3. ASSUME NEW c \in Clerks, WithdrawCommit(c)
      PROVE  /\ evidence[e].status = "SUPERSEDED" => evidence'[e] = evidence[e]
             /\ evidence[e].status = "WITHDRAWN" => evidence'[e].status # "ACTIVE"
  <2> DEFINE p == clerk[c].piece
  <2>1. p \in Evidence /\ evidence[p].status # "SUPERSEDED"
    BY <1>3 DEF WithdrawCommit, Unpointed, At, ClerksFit, Pointed
  <2>2. evidence' = [evidence EXCEPT ![p].status = "WITHDRAWN"]
    BY <1>3 DEF WithdrawCommit
  <2> QED
    BY <2>1, <2>2 DEF Piece
<1>4. ASSUME ~ \E c \in Clerks :
                 \/ \E n \in Evidence, type \in Types : AddCommit(c, n, type)
                 \/ \E s \in Evidence : RenewCommit(c, s)
                 \/ WithdrawCommit(c)
      PROVE  UNCHANGED evidence
  BY <1>4 DEF Next, VaultNext, ToggleNext, WorkflowNext, DocumentsNext, AddLook, RenewLook,
       WithdrawLook, Fail, ToggleStore, ToggleAudit, CreateDraft, Submit, StartReview, Lapse,
       DecideRequest, RevokeBadge, workflowVars
<1> QED
  BY <1>1, <1>2, <1>3, <1>4

\* Superseded evidence never changes again and withdrawn evidence does not come back
\* by itself, however a renewal and a withdrawal that read it at once interleave.
THEOREM SupersededAlwaysStays == VerificationSpec => SupersededStays
<1>1. VaultInv /\ [Next]_verificationVars =>
        [\A e \in Evidence :
           /\ evidence[e].status = "SUPERSEDED" => evidence'[e] = evidence[e]
           /\ evidence[e].status = "WITHDRAWN" => evidence'[e].status # "ACTIVE"]_verificationVars
  BY EvidenceStep
<1> QED
  BY <1>1, VaultAlways, PTL DEF VerificationSpec, SupersededStays

----------------------------------------------------------------------------
(* The kernel.                                                             *)

\* Two states in which the requests look the same to the kernel.
LEMMA SameEyes ==
  ASSUME VaultInv,
         \A r \in Requests : /\ RequestVerdict(r)' = RequestVerdict(r)
                             /\ request'[r].sod = request[r].sod
                             /\ request'[r].by = request[r].by
  PROVE  UNCHANGED RequestEyes!fourEyesVars
BY DEF RequestEyes!fourEyesVars

LEMMA RequestsDecidedByOthers ==
  ASSUME VaultInv, Next
  PROVE  [RequestEyes!FourEyesNext]_(RequestEyes!fourEyesVars)
<1> USE DEF VaultInv, Shapes, workflowVars, vaultVars
<1>1. CASE UNCHANGED request
  BY <1>1, SameEyes DEF RequestVerdict
<1>2. ASSUME NEW c \in Clerks, NEW p \in Staff, ToggleStore(c, p)
      PROVE  UNCHANGED RequestEyes!fourEyesVars
  BY <1>2, SameEyes DEF ToggleStore, RequestVerdict, Request
<1>3. ASSUME NEW r \in Requests, CreateDraft(r) \/ StartReview(r) \/ Lapse(r)
      PROVE  UNCHANGED RequestEyes!fourEyesVars
  BY <1>3, SameEyes DEF CreateDraft, StartReview, Lapse, RequestVerdict, Request
<1>4. ASSUME NEW r \in Requests, Submit(r)
      PROVE  RequestEyes!FourEyesNext
  <2>1. PICK excluded \in SUBSET Staff : excluded = FlagActors(r)
    BY DEF FlagActors
  <2>2. RequestEyes!PutForward(r, excluded)
    BY <1>4, <2>1 DEF Submit, RequestEyes!PutForward, RequestVerdict, Request
  <2> QED
    BY <2>2, Zenon DEF RequestEyes!FourEyesNext
<1>5. ASSUME NEW r \in Requests, NEW p \in Staff, NEW to \in {"APPROVED", "REJECTED"},
             DecideRequest(r, p, to)
      PROVE  RequestEyes!FourEyesNext
  <2>1. RequestEyes!Decide(r, p, "OPEN", to)
    BY <1>5 DEF DecideRequest, Segregated, RequestEyes!Decide, RequestVerdict, Request
  <2> QED
    BY <2>1 DEF RequestEyes!FourEyesNext
<1>6. ASSUME NEW r \in Requests, NEW p \in Staff, RevokeBadge(r, p)
      PROVE  RequestEyes!FourEyesNext
  <2>1. RequestEyes!Decide(r, p, "APPROVED", "REVOKED")
    BY <1>6 DEF RevokeBadge, Segregated, RequestEyes!Decide, RequestVerdict, Request
  <2> QED
    BY <2>1 DEF RequestEyes!FourEyesNext
<1>7. CASE VaultNext \/ DocumentsNext \/ \E c \in Clerks : ToggleAudit(c)
  BY <1>1, <1>7 DEF VaultNext, DocumentsNext, AddLook, RenewLook, WithdrawLook, AddCommit,
       RenewCommit, WithdrawCommit, Fail, ToggleAudit
<1> QED
  BY <1>2, <1>3, <1>4, <1>5, <1>6, <1>7 DEF Next, ToggleNext, WorkflowNext

LEMMA ApprovalsDecidedByOthers ==
  ASSUME VaultInv, Next
  PROVE  [ApprovalEyes!FourEyesNext]_(ApprovalEyes!fourEyesVars)
<1> USE DEF VaultInv, Shapes, workflowVars, docVars
<1>1. CASE UNCHANGED approval
  BY <1>1 DEF ApprovalEyes!fourEyesVars, ApprovalVerdict
<1>2. ASSUME NEW a \in Approvals, NEW d \in Docs, NEW u \in Users, RequestApproval(a, d, u)
      PROVE  ApprovalEyes!FourEyesNext
  <2>1. PICK excluded \in SUBSET Users : excluded = {u}
    OBVIOUS
  <2>2. ApprovalEyes!PutForward(a, excluded)
    <3> DEFINE shut(o) == {approval[o].requestedBy} \cap Users
    <3>1. /\ approval[a].status = "ABSENT" /\ approval'[a].status = "PENDING"
          /\ approval'[a].decidedBy = None /\ approval[a].decidedBy = None
          /\ shut(a)' = excluded
          /\ \A o \in Approvals \ {a} : approval'[o] = approval[o]
      BY <1>2, <2>1 DEF RequestApproval, Unasked
    <3>2. [o \in Approvals |-> shut(o)]' = [[o \in Approvals |-> shut(o)] EXCEPT ![a] = excluded]
      BY <3>1
    <3> DEFINE stand == [o \in Approvals |-> ApprovalVerdict(o)]
    <3>3. stand[a] = "NONE" /\ stand' = [stand EXCEPT ![a] = "OPEN"]
      BY <3>1 DEF ApprovalVerdict
    <3>4. UNCHANGED [o \in Approvals |-> approval[o].decidedBy]
      BY <3>1
    <3> QED
      BY <3>2, <3>3, <3>4 DEF ApprovalEyes!PutForward
  <2> QED
    BY <2>2, Zenon DEF ApprovalEyes!FourEyesNext
<1>3. ASSUME NEW a \in Approvals, NEW u \in Users, NEW to \in {"APPROVED", "REJECTED"},
             DecideApproval(a, u, to)
      PROVE  ApprovalEyes!FourEyesNext
  <2>1. ApprovalEyes!Decide(a, u, "OPEN", to)
    BY <1>3 DEF DecideApproval, SecondPerson, ApprovalEyes!Decide, ApprovalVerdict, Approval
  <2> QED
    BY <2>1 DEF ApprovalEyes!FourEyesNext
<1>4. ASSUME NEW d \in Docs,
             \/ CreateDocument(d) \/ AddDocumentVersion(d) \/ ArchiveDocument(d)
             \/ RestoreDocument(d) \/ \E retained \in BOOLEAN : SetRetention(d, retained)
      PROVE  UNCHANGED approval
  BY <1>4 DEF CreateDocument, AddDocumentVersion, ArchiveDocument, RestoreDocument, SetRetention
<1>5. CASE DocumentsNext
  BY <1>1, <1>2, <1>3, <1>4, <1>5 DEF DocumentsNext, DocNext
<1>6. CASE VaultNext \/ ToggleNext \/ WorkflowNext
  <2>1. UNCHANGED approval
    BY <1>6 DEF VaultNext, ToggleNext, WorkflowNext, AddLook, RenewLook, WithdrawLook, AddCommit,
         RenewCommit, WithdrawCommit, Fail, ToggleStore, ToggleAudit, CreateDraft, Submit,
         StartReview, Lapse, DecideRequest, RevokeBadge
  <2> QED
    BY <1>1, <2>1
<1> QED
  BY <1>5, <1>6 DEF Next

LEMMA KernelsStart == Init => RequestEyes!FourEyesInit /\ ApprovalEyes!FourEyesInit
<1> SUFFICES ASSUME Init PROVE RequestEyes!FourEyesInit /\ ApprovalEyes!FourEyesInit
  OBVIOUS
<1>1. RequestEyes!FourEyesInit
  BY DEF Init, RequestEyes!FourEyesInit, RequestVerdict
<1>2. ApprovalEyes!FourEyesInit
  BY DocumentsConstants DEF Init, DocInit, ApprovalEyes!FourEyesInit, ApprovalVerdict
<1> QED
  BY <1>1, <1>2

\* The verification workflow and the document approvals do what the approval kernel
\* promises, whoever toggles, submits, decides and revokes meanwhile.
THEOREM FourEyesAlwaysKept == VerificationSpec => FourEyesKept
<1>1. VaultInv /\ [Next]_verificationVars =>
        /\ [RequestEyes!FourEyesNext]_(RequestEyes!fourEyesVars)
        /\ [ApprovalEyes!FourEyesNext]_(ApprovalEyes!fourEyesVars)
  <2> SUFFICES ASSUME VaultInv, [Next]_verificationVars
               PROVE  /\ [RequestEyes!FourEyesNext]_(RequestEyes!fourEyesVars)
                      /\ [ApprovalEyes!FourEyesNext]_(ApprovalEyes!fourEyesVars)
    OBVIOUS
  <2>1. CASE UNCHANGED verificationVars
    BY <2>1 DEF verificationVars, RequestEyes!fourEyesVars, ApprovalEyes!fourEyesVars,
         RequestVerdict, ApprovalVerdict
  <2> QED
    BY <2>1, RequestsDecidedByOthers, ApprovalsDecidedByOthers
<1> QED
  BY <1>1, VaultAlways, KernelsStart, PTL
     DEF VerificationSpec, FourEyesKept, RequestEyes!FourEyesSpec, ApprovalEyes!FourEyesSpec

----------------------------------------------------------------------------
(* Who toggled a feature of the tenant.                                    *)

Toggling(p) == \E c \in Clerks : At(c, "TOGGLE") /\ clerk[c].staff = p

\* A toggle of a draft is audited, about to be, or was lost; what the submission
\* captured are those that were audited; and whoever decided was not captured.
Tracked ==
  /\ \A r \in Requests : request[r].status = "ABSENT" => request[r].toggled = {}
  /\ \A r \in Requests : request[r].status = "DRAFT" =>
       \A p \in request[r].toggled : p \in toggledBy[r] \/ p \in slipped \/ Toggling(p)
  /\ \A r \in Requests : request[r].status \notin {"ABSENT", "DRAFT"} =>
       \A p \in request[r].toggled : p \in request[r].sod \/ p \in slipped
  /\ \A r \in Requests : request[r].by # None =>
       /\ request[r].status \in {"APPROVED", "REJECTED", "REVOKED"}
       /\ request[r].by \notin request[r].sod

LEMMA TrackedInit == Init => Tracked
BY DEF Init, Tracked

\* A step that leaves the requests alone and loses no toggle.
LEMMA TrackedFrame ==
  ASSUME VaultInv, Tracked, UNCHANGED <<request, toggledBy>>, slipped \subseteq slipped',
         \A p \in Staff : Toggling(p) => Toggling(p)' \/ p \in slipped'
  PROVE  Tracked'
<1>1. ASSUME NEW r \in Requests, NEW p \in request[r].toggled PROVE p \in Staff
  <2>1. request[r] \in Request
    BY DEF VaultInv, Shapes
  <2> QED
    BY <2>1 DEF Request
<1> QED
  BY <1>1 DEF Tracked

LEMMA TrackedVault ==
  ASSUME VaultInv, Tracked, VaultNext \/ DocumentsNext
  PROVE  Tracked'
<1> USE DEF VaultInv, ClerksFit, At, Toggling
<1>1. ASSUME NEW c \in Clerks,
             \/ \E d \in Docs : AddLook(c, d) \/ \E e \in Evidence : RenewLook(c, e, d)
             \/ \E e \in Evidence : WithdrawLook(c, e)
      PROVE  Tracked'
  <2>1. clerk[c] = None /\ \A o \in Clerks \ {c} : clerk'[o] = clerk[o]
    BY <1>1 DEF AddLook, RenewLook, WithdrawLook
  <2>2. UNCHANGED <<request, toggledBy, slipped>>
    BY <1>1 DEF AddLook, RenewLook, WithdrawLook, vaultVars
  <2>3. \A p \in Staff : Toggling(p) => Toggling(p)'
    BY <2>1
  <2> HIDE DEF Toggling
  <2> QED
    BY <2>2, <2>3, TrackedFrame
<1>2. ASSUME NEW c \in Clerks,
             \/ \E e \in Evidence, type \in Types : AddCommit(c, e, type)
             \/ \E e \in Evidence : RenewCommit(c, e)
             \/ WithdrawCommit(c)
      PROVE  Tracked'
  <2>1. ~At(c, "TOGGLE") /\ \A o \in Clerks \ {c} : clerk'[o] = clerk[o]
    BY <1>2 DEF AddCommit, RenewCommit, WithdrawCommit, Done
  <2>2. UNCHANGED <<request, toggledBy, slipped>>
    BY <1>2 DEF AddCommit, RenewCommit, WithdrawCommit, vaultVars
  <2>3. \A p \in Staff : Toggling(p) => Toggling(p)'
    BY <2>1
  <2> HIDE DEF Toggling
  <2> QED
    BY <2>2, <2>3, TrackedFrame
<1>3. ASSUME NEW c \in Clerks, Fail(c) PROVE Tracked'
  <2>1. /\ UNCHANGED <<request, toggledBy>> /\ slipped \subseteq slipped'
        /\ At(c, "TOGGLE") => clerk[c].staff \in slipped'
        /\ \A o \in Clerks \ {c} : clerk'[o] = clerk[o]
    BY <1>3 DEF Fail, Done
  <2>2. \A p \in Staff : Toggling(p) => Toggling(p)' \/ p \in slipped'
    BY <2>1
  <2> HIDE DEF Toggling
  <2> QED
    BY <2>1, <2>2, TrackedFrame
<1>4. CASE DocumentsNext
  BY <1>4, TrackedFrame DEF DocumentsNext
<1> QED
  BY <1>1, <1>2, <1>3, <1>4 DEF VaultNext

LEMMA TrackedToggles ==
  ASSUME VaultInv, Tracked, ToggleNext
  PROVE  Tracked'
<1> USE DEF VaultInv, Shapes, ClerksFit, At, Toggling
<1>1. ASSUME NEW c \in Clerks, ToggleAudit(c) PROVE Tracked'
  <2>1. /\ UNCHANGED <<request, slipped>>
        /\ At(c, "TOGGLE") /\ \A o \in Clerks \ {c} : clerk'[o] = clerk[o]
        /\ \A r \in Requests : request[r].status # "ABSENT" =>
             toggledBy'[r] = toggledBy[r] \cup {clerk[c].staff}
    BY <1>1 DEF ToggleAudit, Done
  <2>2. ASSUME NEW r \in Requests, request[r].status = "DRAFT", NEW p \in request[r].toggled
        PROVE  p \in toggledBy'[r] \/ p \in slipped' \/ Toggling(p)'
    <3>1. CASE p \in toggledBy[r] \/ p \in slipped
      BY <2>1, <2>2, <3>1
    <3>2. CASE Toggling(p)
      BY <2>1, <2>2, <3>2
    <3> QED
      BY <2>2, <3>1, <3>2 DEF Tracked
  <2> HIDE DEF Toggling
  <2> QED
    BY <2>1, <2>2 DEF Tracked
<1>2. ASSUME NEW c \in Clerks, NEW p \in Staff, ToggleStore(c, p) PROVE Tracked'
  <2>1. /\ UNCHANGED <<toggledBy, slipped>> /\ clerk[c] = None
        /\ At(c, "TOGGLE")' /\ clerk'[c].staff = p
        /\ \A o \in Clerks \ {c} : clerk'[o] = clerk[o]
    <3> DEFINE task == [Task("TOGGLE", None, None) EXCEPT !.staff = p]
    <3>1. task \in Errand /\ task.op = "TOGGLE" /\ task.staff = p /\ task # None
      BY DocumentsConstants, VerificationConstants DEF Task, Errand
    <3>2. clerk' = [clerk EXCEPT ![c] = task]
      BY <1>2 DEF ToggleStore
    <3> HIDE DEF task
    <3> QED
      BY <1>2, <3>1, <3>2 DEF ToggleStore
  <2>2. \A q \in Staff : Toggling(q) => Toggling(q)'
    BY <2>1
  <2>3. Toggling(p)'
    BY <2>1
  <2>4. ASSUME NEW r \in Requests
        PROVE  /\ request'[r].status = request[r].status /\ request'[r].sod = request[r].sod
               /\ request'[r].by = request[r].by
               /\ request'[r].toggled =
                    IF request[r].status = "DRAFT" THEN request[r].toggled \cup {p}
                    ELSE request[r].toggled
               /\ request[r].toggled \subseteq Staff
    BY <1>2 DEF ToggleStore, Request
  <2> HIDE DEF Toggling, At
  <2>5. ASSUME NEW r \in Requests, request[r].status = "DRAFT", NEW q \in request'[r].toggled
        PROVE  q \in toggledBy[r] \/ q \in slipped \/ Toggling(q)'
    BY <2>2, <2>3, <2>4, <2>5 DEF Tracked
  <2> QED
    BY <2>1, <2>4, <2>5 DEF Tracked
<1> QED
  BY <1>1, <1>2 DEF ToggleNext

LEMMA TrackedWorkflow ==
  ASSUME VaultInv, Tracked, WorkflowNext
  PROVE  Tracked'
<1> USE DEF VaultInv, Shapes
<1>1. ASSUME NEW r \in Requests, Submit(r) PROVE Tracked'
  <2>1. /\ request[r].status = "DRAFT" /\ UNCHANGED <<toggledBy, clerk>>
        /\ slipped' = slipped \cup {clerk[c].staff : c \in {c \in Clerks : At(c, "TOGGLE")}}
    BY <1>1 DEF Submit
  <2>2. \A p : Toggling(p) => p \in slipped'
    BY <2>1 DEF Toggling
  <2>3. /\ request'[r].status = "SUBMITTED" /\ request'[r].sod = FlagActors(r)
        /\ request'[r].toggled = request[r].toggled /\ request'[r].by = request[r].by
        /\ \A o \in Requests \ {r} : request'[o] = request[o]
    BY <1>1 DEF Submit, Request
  <2>4. request[r].by = None
    BY <2>1 DEF Tracked
  <2>5. \A p : Toggling(p)' <=> Toggling(p)
    BY <2>1 DEF Toggling, At
  <2> QED
    BY <2>1, <2>2, <2>3, <2>4, <2>5 DEF Tracked, FlagActors
<1>2. ASSUME NEW r \in Requests, CreateDraft(r) \/ StartReview(r) \/ Lapse(r) PROVE Tracked'
  <2>1. /\ UNCHANGED <<toggledBy, clerk, slipped>>
        /\ request'[r].sod = request[r].sod /\ request'[r].by = request[r].by
        /\ request'[r].toggled = request[r].toggled
        /\ \A o \in Requests \ {r} : request'[o] = request[o]
    BY <1>2 DEF CreateDraft, StartReview, Lapse, Request
  <2>2. \/ request[r].status = "ABSENT" /\ request'[r].status = "DRAFT"
        \/ request[r].status = "SUBMITTED" /\ request'[r].status = "IN_REVIEW"
        \/ request'[r].status = request[r].status
    BY <1>2 DEF CreateDraft, StartReview, Lapse, Request
  <2>3. \A p : Toggling(p)' <=> Toggling(p)
    BY <2>1 DEF Toggling, At
  <2> QED
    BY <2>1, <2>2, <2>3 DEF Tracked
<1>3. ASSUME NEW r \in Requests, NEW p \in Staff,
             \/ \E to \in {"APPROVED", "REJECTED"} : DecideRequest(r, p, to)
             \/ RevokeBadge(r, p)
      PROVE  Tracked'
  <2>1. /\ UNCHANGED <<toggledBy, clerk, slipped>>
        /\ request[r].status \notin {"ABSENT", "DRAFT"}
        /\ request'[r].status \in {"APPROVED", "REJECTED", "REVOKED"}
        /\ request'[r].sod = request[r].sod /\ request'[r].by = p /\ p \notin request[r].sod
        /\ request'[r].toggled = request[r].toggled
        /\ \A o \in Requests \ {r} : request'[o] = request[o]
    BY <1>3 DEF DecideRequest, RevokeBadge, Segregated, Request
  <2>2. \A q : Toggling(q)' <=> Toggling(q)
    BY <2>1 DEF Toggling, At
  <2> QED
    BY <2>1, <2>2 DEF Tracked
<1> QED
  BY <1>1, <1>2, <1>3 DEF WorkflowNext

LEMMA TrackedAlways == VerificationSpec => []Tracked
<1>1. VaultInv /\ Tracked /\ [Next]_verificationVars => Tracked'
  <2> SUFFICES ASSUME VaultInv, Tracked, [Next]_verificationVars PROVE Tracked'
    OBVIOUS
  <2>1. CASE UNCHANGED verificationVars
    BY <2>1 DEF verificationVars, Tracked, Toggling, At
  <2> QED
    BY <2>1, TrackedVault, TrackedToggles, TrackedWorkflow DEF Next
<1> QED
  BY <1>1, TrackedInit, VaultAlways, PTL DEF VerificationSpec

\* Nobody decides a request, or revokes its badge, who toggled a feature of the tenant
\* while it was a draft, as long as the toggle was audited before the submission.
THEOREM TogglersAlwaysStayOut == VerificationSpec => []TogglersStayOut
<1>1. VaultInv /\ Tracked => TogglersStayOut
  <2> SUFFICES ASSUME VaultInv, Tracked, NEW r \in Requests,
                      request[r].by \in request[r].toggled
               PROVE  request[r].by \in slipped
    BY DEF TogglersStayOut
  <2>1. request[r].by # None
    BY VerificationConstants DEF VaultInv, Shapes, Request
  <2> QED
    BY <2>1 DEF Tracked
<1> QED
  BY <1>1, VaultAlways, TrackedAlways, PTL

\* The kernel's promise, as a statement about states: no request was decided by somebody
\* whom its snapshot excludes.
THEOREM DecidersAreOthers == VerificationSpec => []RequestEyes!DecidedByOthers
<1>1. Tracked => RequestEyes!DecidedByOthers
  BY VerificationConstants DEF Tracked, RequestEyes!DecidedByOthers
<1> QED
  BY <1>1, TrackedAlways, PTL

----------------------------------------------------------------------------
(* What rows say of each other, and what is shown of them.                 *)

\* What is pinned exists, and who read a piece of evidence can find it.
Pinned ==
  /\ \A d \in Docs : doc[d].status = "ABSENT" => doc[d].version = 0
  /\ \A a \in Approvals : approval[a].status # "ABSENT" =>
       approval[a].doc \in Docs /\ approval[a].version \in 1..doc[approval[a].doc].version
  /\ \A e \in Evidence : evidence[e].status # "ABSENT" =>
       evidence[e].doc \in Docs /\ evidence[e].version \in 1..doc[evidence[e].doc].version
  /\ \A c \in Clerks : clerk[c] # None =>
       /\ clerk[c].op \in {"ADD", "RENEW"} =>
            clerk[c].doc \in Docs /\ clerk[c].version \in 1..doc[clerk[c].doc].version
       /\ clerk[c].op \in {"RENEW", "WITHDRAW"} => evidence[clerk[c].piece].status # "ABSENT"

Chained ==
  /\ \A e, o \in Active :
       evidence[e].type = evidence[o].type /\ evidence[e].type \in Singletons => e = o
  /\ \A e \in Evidence :
       /\ (evidence[e].status = "SUPERSEDED") = (evidence[e].next # None)
       /\ evidence[e].next # None =>
            /\ evidence[evidence[e].next].type = evidence[e].type
            /\ evidence[evidence[e].next].status # "ABSENT"
            /\ \A o \in Evidence : evidence[o].next = evidence[e].next => o = e

\* A snapshot pins what was active together.
Frozen ==
  \A r \in Requests :
    /\ (request[r].status \in {"ABSENT", "DRAFT"}) = (request[r].frozen = {})
    /\ \A x \in request[r].frozen :
         evidence[x[1]].status # "ABSENT" /\ x[2] = evidence[x[1]].version
    /\ \A x, y \in request[r].frozen :
         evidence[x[1]].type = evidence[y[1]].type /\ evidence[x[1]].type \in Singletons => x = y

Drafted == {r \in Requests : request[r].drafted > 0}

\* Requests are drafted and badges issued in one and the same order, and what is open was
\* drafted last.
Ordered ==
  /\ \A r \in Requests :
       /\ (request[r].drafted > 0) = (request[r].status # "ABSENT")
       /\ (request[r].issued > 0) = (request[r].status \in {"APPROVED", "REVOKED"})
       /\ request[r].drafted <= Cardinality(Drafted)
       /\ request[r].issued <= Cardinality(Issued)
       /\ IsOpen(r) => \A o \in Requests : request[o].drafted <= request[r].drafted
  /\ \A r, o \in Drafted : request[r].drafted = request[o].drafted => r = o
  /\ \A r, o \in Issued : request[r].issued <= request[o].issued => request[r].drafted <= request[o].drafted
  /\ Issued # {} => \E r \in Issued : request[r].issued = Cardinality(Issued)

\* What no step does to a document or a piece of evidence.
RowsStay ==
  /\ \A d \in Docs : doc[d].version <= doc'[d].version
  /\ \A e \in Evidence : evidence[e].status # "ABSENT" =>
       /\ evidence'[e].status # "ABSENT" /\ evidence'[e].type = evidence[e].type
       /\ evidence'[e].doc = evidence[e].doc /\ evidence'[e].version = evidence[e].version

LEMMA RowsInit == Init => Pinned /\ Chained /\ Frozen /\ Ordered
<1> SUFFICES ASSUME Init PROVE Pinned /\ Chained /\ Frozen /\ Ordered
  OBVIOUS
<1>1. Drafted = {} /\ Issued = {}
  BY DEF Init, Drafted, Issued
<1>2. Cardinality(Drafted) = 0 /\ Cardinality(Issued) = 0
  BY <1>1, FS_EmptySet
<1> QED
  BY <1>1, <1>2 DEF Init, DocInit, Pinned, Chained, Frozen, Ordered, Active, IsOpen

\* Steps of the documents workspace.
LEMMA DocumentsStay ==
  ASSUME VaultInv, Pinned, DocNext
  PROVE  /\ \A d \in Docs : doc[d].version <= doc'[d].version
         /\ \A d \in Docs : doc'[d].status = "ABSENT" => doc'[d].version = 0
         /\ \A a \in Approvals : approval'[a].status # "ABSENT" =>
              approval'[a].doc \in Docs /\ approval'[a].version \in 1..doc'[approval'[a].doc].version
<1> USE DEF VaultInv, Shapes
<1>0. \A d \in Docs : doc[d] \in Doc
  OBVIOUS
<1>1. ASSUME NEW d \in Docs,
             \/ CreateDocument(d) \/ AddDocumentVersion(d)
             \/ \E retained \in BOOLEAN : SetRetention(d, retained)
             \/ ArchiveDocument(d) \/ RestoreDocument(d)
      PROVE  /\ UNCHANGED approval
             /\ \A x \in Docs : doc[x].version <= doc'[x].version
             /\ \A x \in Docs : doc'[x].status = "ABSENT" => doc'[x].version = 0
  <2>1. CASE CreateDocument(d)
    BY <1>0, <2>1 DEF CreateDocument, Pinned, Doc
  <2>2. CASE AddDocumentVersion(d)
    BY <1>0, <2>2, DocumentsConstants DEF AddDocumentVersion, Pinned, Doc
  <2>3. CASE \E retained \in BOOLEAN : SetRetention(d, retained)
    BY <1>0, <2>3 DEF SetRetention, Pinned, Doc
  <2>4. CASE ArchiveDocument(d) \/ RestoreDocument(d)
    BY <1>0, <2>4 DEF ArchiveDocument, RestoreDocument, Pinned, Doc
  <2> QED
    BY <1>1, <2>1, <2>2, <2>3, <2>4
<1>2. ASSUME NEW d \in Docs, NEW a \in Approvals, NEW u \in Users, RequestApproval(a, d, u)
      PROVE  /\ UNCHANGED doc
             /\ \A x \in Approvals : approval'[x].status # "ABSENT" =>
                  approval'[x].doc \in Docs /\ approval'[x].version \in 1..doc[approval'[x].doc].version
  <2>1. doc[d].version \in 1..doc[d].version
    BY <1>0, <1>2 DEF RequestApproval, Numbered, Doc
  <2> QED
    BY <1>2, <2>1 DEF RequestApproval, Pinned
<1>3. ASSUME NEW a \in Approvals, NEW u \in Users, NEW decision \in {"APPROVED", "REJECTED"},
             DecideApproval(a, u, decision)
      PROVE  /\ UNCHANGED doc
             /\ \A x \in Approvals : approval'[x].status # "ABSENT" =>
                  approval[x].status # "ABSENT" /\ approval'[x].doc = approval[x].doc
                  /\ approval'[x].version = approval[x].version
  BY <1>3 DEF DecideApproval, Approval
<1>4. ASSUME \A x \in Docs : doc[x].version <= doc'[x].version, UNCHANGED approval, doc' \in [Docs -> Doc]
      PROVE  \A a \in Approvals : approval'[a].status # "ABSENT" =>
               approval'[a].doc \in Docs /\ approval'[a].version \in 1..doc'[approval'[a].doc].version
  BY <1>0, <1>4 DEF Pinned, Doc
<1>5. CASE \E d \in Docs :
             \/ CreateDocument(d) \/ AddDocumentVersion(d)
             \/ \E retained \in BOOLEAN : SetRetention(d, retained)
             \/ ArchiveDocument(d) \/ RestoreDocument(d)
  <2>1. doc' \in [Docs -> Doc]
    <3>1. PICK d \in Docs :
             \/ CreateDocument(d) \/ AddDocumentVersion(d)
             \/ \E retained \in BOOLEAN : SetRetention(d, retained)
             \/ ArchiveDocument(d) \/ RestoreDocument(d)
      BY <1>5
    <3>2. CASE CreateDocument(d)
      BY <3>2, DocumentsConstants DEF CreateDocument, Doc
    <3>3. CASE AddDocumentVersion(d)
      <4>1. doc[d].version + 1 \in 0..MaxVersion
        BY <1>0, <3>3, DocumentsConstants DEF AddDocumentVersion, Doc
      <4> QED
        BY <1>0, <3>3, <4>1 DEF AddDocumentVersion, Doc
    <3>4. CASE \E retained \in BOOLEAN : SetRetention(d, retained)
      BY <1>0, <3>4 DEF SetRetention, Doc
    <3>5. CASE ArchiveDocument(d) \/ RestoreDocument(d)
      BY <1>0, <3>5 DEF ArchiveDocument, RestoreDocument, Doc
    <3> QED
      BY <3>1, <3>2, <3>3, <3>4, <3>5
  <2> QED
    BY <1>1, <1>4, <1>5, <2>1
<1>6. CASE \/ \E d \in Docs, a \in Approvals, u \in Users : RequestApproval(a, d, u)
           \/ \E a \in Approvals, u \in Users, decision \in {"APPROVED", "REJECTED"} :
                DecideApproval(a, u, decision)
  BY <1>0, <1>2, <1>3, <1>6 DEF Pinned, Doc
<1> QED
  BY <1>5, <1>6 DEF DocNext

\* What an evidence handler does when it writes.
LEMMA WritesStay ==
  ASSUME VaultInv, Pinned, Chained, NEW c \in Clerks,
         \/ \E e \in Evidence, type \in Types : AddCommit(c, e, type)
         \/ \E e \in Evidence : RenewCommit(c, e)
         \/ WithdrawCommit(c)
  PROVE  /\ UNCHANGED <<doc, approval, request>> /\ clerk' = [clerk EXCEPT ![c] = None]
         /\ RowsStay /\ Chained'
         /\ \A e \in Evidence : evidence'[e].status # "ABSENT" =>
              evidence'[e].doc \in Docs /\ evidence'[e].version \in 1..doc[evidence'[e].doc].version
<1> USE DEF VaultInv, Shapes
<1>0. /\ \A e \in Evidence : evidence[e] \in Piece
      /\ \A d \in Docs : doc[d].version \in Nat
  BY DocumentsConstants DEF Doc
<1>1. ASSUME NEW n \in Evidence, NEW type \in Types, AddCommit(c, n, type)
      PROVE  RowsStay /\ Chained' /\ \A e \in Evidence : evidence'[e].status # "ABSENT" =>
               evidence'[e].doc \in Docs /\ evidence'[e].version \in 1..doc[evidence'[e].doc].version
  <2> DEFINE fresh == Fresh(c, type)
  <2>1. /\ evidence' = [evidence EXCEPT ![n] = fresh] /\ evidence[n].status = "ABSENT"
        /\ UNCHANGED doc /\ Free(type, None) /\ clerk[c] # None /\ clerk[c].op = "ADD"
    BY <1>1 DEF AddCommit, At, docVars
  <2>2. /\ fresh.status = "ACTIVE" /\ fresh.type = type /\ fresh.next = None
        /\ fresh.doc = clerk[c].doc /\ fresh.version = clerk[c].version
    BY DEF Fresh
  <2> HIDE DEF fresh
  <2>3. evidence'[n] = fresh /\ \A e \in Evidence \ {n} : evidence'[e] = evidence[e]
    BY <2>1
  <2>4. RowsStay
    BY <1>0, <2>1, <2>3 DEF RowsStay
  <2>5. \A e, o \in Active' :
          evidence'[e].type = evidence'[o].type /\ evidence'[e].type \in Singletons => e = o
    <3>1. \A e \in Active' \ {n} : e \in Active
      BY <2>3 DEF Active
    <3>2. \A e \in Active : e \in Evidence /\ e # None /\ e # n
      BY <2>1, VerificationConstants DEF Active
    <3> QED
      BY <2>1, <2>2, <2>3, <3>1, <3>2 DEF Chained, Free, Active
  <2>6. Chained'
    BY <2>1, <2>2, <2>3, <2>5, <1>0, VerificationConstants DEF Chained, Piece
  <2> QED
    BY <2>1, <2>2, <2>3, <2>4, <2>6 DEF Pinned
<1>2. ASSUME NEW s \in Evidence, RenewCommit(c, s)
      PROVE  RowsStay /\ Chained' /\ \A e \in Evidence : evidence'[e].status # "ABSENT" =>
               evidence'[e].doc \in Docs /\ evidence'[e].version \in 1..doc[evidence'[e].doc].version
  <2> DEFINE p == clerk[c].piece
             fresh == Fresh(c, evidence[p].type)
  <2>1. /\ evidence' = [evidence EXCEPT ![p].status = "SUPERSEDED", ![p].next = s, ![s] = fresh]
        /\ evidence[s].status = "ABSENT" /\ evidence[p].next = None
        /\ UNCHANGED doc /\ Free(evidence[p].type, p) /\ clerk[c] # None /\ clerk[c].op = "RENEW"
    BY <1>2 DEF RenewCommit, At, docVars, Unpointed
  <2>2. /\ fresh.status = "ACTIVE" /\ fresh.type = evidence[p].type /\ fresh.next = None
        /\ fresh.doc = clerk[c].doc /\ fresh.version = clerk[c].version
    BY DEF Fresh
  <2>3. p \in Evidence /\ p # s /\ evidence[p].status # "ABSENT"
    BY <2>1 DEF ClerksFit, Pinned
  <2> HIDE DEF fresh, p
  <2>4. /\ evidence'[s] = fresh
        /\ evidence'[p] = [evidence[p] EXCEPT !.status = "SUPERSEDED", !.next = s]
        /\ \A e \in Evidence \ {s, p} : evidence'[e] = evidence[e]
    BY <2>1, <2>3
  <2>5. /\ evidence'[p].status = "SUPERSEDED" /\ evidence'[p].next = s
        /\ evidence'[p].type = evidence[p].type /\ evidence'[p].doc = evidence[p].doc
        /\ evidence'[p].version = evidence[p].version
    BY <2>4, <2>3, <1>0 DEF Piece
  <2>6. RowsStay
    BY <1>0, <2>1, <2>3, <2>4, <2>5 DEF RowsStay
  <2>7. \A e, o \in Active' :
          evidence'[e].type = evidence'[o].type /\ evidence'[e].type \in Singletons => e = o
    <3>1. \A e \in Active' \ {s} : e \in Active \ {p}
      BY <2>4, <2>5 DEF Active
    <3> QED
      BY <2>1, <2>2, <2>4, <3>1 DEF Chained, Free, Active
  <2>8. \A e \in Evidence : evidence[e].next # s
    BY <2>1, VerificationConstants DEF Chained
  <2>9. s # None
    BY VerificationConstants
  <2>10. \A e \in Evidence :
           /\ (evidence'[e].status = "SUPERSEDED") = (evidence'[e].next # None)
           /\ evidence'[e].next # None =>
                /\ evidence'[evidence'[e].next].type = evidence'[e].type
                /\ evidence'[evidence'[e].next].status # "ABSENT"
                /\ \A o \in Evidence : evidence'[o].next = evidence'[e].next => o = e
    <3> TAKE e \in Evidence
    <3>1. CASE e = s
      BY <3>1, <2>2, <2>4
    <3>2. CASE e = p
      BY <3>2, <2>2, <2>3, <2>4, <2>5, <2>8, <2>9
    <3>3. CASE e \notin {s, p}
      <4>1. evidence'[e] = evidence[e] /\ (evidence[e].next # None => evidence[e].next \in Evidence)
        BY <3>3, <2>4, <1>0 DEF Piece
      <4>2. evidence[e].next # None => evidence[e].next # s /\ evidence'[evidence[e].next].type = evidence[evidence[e].next].type
              /\ evidence'[evidence[e].next].status # "ABSENT"
        BY <4>1, <2>3, <2>4, <2>5, <2>8 DEF Chained
      <4>3. ASSUME NEW o \in Evidence, evidence'[o].next = evidence[e].next, evidence[e].next # None
            PROVE  o = e
        <5>1. o \notin {s, p}
          BY <4>2, <4>3, <2>2, <2>4, <2>5
        <5>2. evidence[o].next = evidence[e].next
          BY <4>3, <5>1, <2>4
        <5> QED
          BY <4>3, <5>2 DEF Chained
      <4> QED
        BY <4>1, <4>2, <4>3 DEF Chained
    <3> QED
      BY <3>1, <3>2, <3>3
  <2>11. Chained'
    BY <2>7, <2>10 DEF Chained
  <2>12. \A e \in Evidence : evidence'[e].status # "ABSENT" =>
           evidence'[e].doc \in Docs /\ evidence'[e].version \in 1..doc[evidence'[e].doc].version
    BY <2>1, <2>2, <2>3, <2>4, <2>5 DEF Pinned
  <2> QED
    BY <2>6, <2>11, <2>12
<1>3. ASSUME WithdrawCommit(c)
      PROVE  RowsStay /\ Chained' /\ \A e \in Evidence : evidence'[e].status # "ABSENT" =>
               evidence'[e].doc \in Docs /\ evidence'[e].version \in 1..doc[evidence'[e].doc].version
  <2> DEFINE p == clerk[c].piece
  <2>1. /\ evidence' = [evidence EXCEPT ![p].status = "WITHDRAWN"] /\ evidence[p].next = None
        /\ UNCHANGED doc /\ clerk[c] # None /\ clerk[c].op = "WITHDRAW"
    BY <1>3 DEF WithdrawCommit, At, docVars, Unpointed
  <2>2. p \in Evidence /\ evidence[p].status # "ABSENT"
    BY <2>1 DEF ClerksFit, Pinned
  <2> HIDE DEF p
  <2>3. /\ evidence'[p].status = "WITHDRAWN" /\ evidence'[p].type = evidence[p].type
        /\ evidence'[p].doc = evidence[p].doc /\ evidence'[p].version = evidence[p].version
        /\ evidence'[p].next = None
        /\ \A e \in Evidence \ {p} : evidence'[e] = evidence[e]
    BY <1>0, <2>1, <2>2 DEF Piece
  <2>4. RowsStay
    BY <1>0, <2>1, <2>2, <2>3 DEF RowsStay
  <2>5. \A e \in Active' : e \in Active /\ evidence'[e] = evidence[e]
    BY <2>3 DEF Active
  <2>6. \A e \in Evidence : /\ evidence'[e].type = evidence[e].type /\ evidence'[e].next = evidence[e].next
                            /\ evidence[e].next # None => evidence[e].next \in Evidence
    BY <1>0, <2>1, <2>3 DEF Piece
  <2>7. \A e \in Evidence :
           /\ (evidence'[e].status = "SUPERSEDED") = (evidence'[e].next # None)
           /\ evidence'[e].next # None => evidence'[evidence'[e].next].status # "ABSENT"
    BY <2>2, <2>3, <2>6 DEF Chained
  <2>8. Chained'
    BY <2>5, <2>6, <2>7 DEF Chained
  <2> QED
    BY <2>1, <2>2, <2>3, <2>4, <2>8 DEF Pinned
<1>4. UNCHANGED <<doc, approval, request>> /\ clerk' = [clerk EXCEPT ![c] = None]
  BY DEF AddCommit, RenewCommit, WithdrawCommit, Done, docVars, vaultVars
<1> QED
  BY <1>1, <1>2, <1>3, <1>4

LEMMA VersionsAreNumbers ==
  ASSUME VaultInv, NEW d \in Docs
  PROVE  d # None /\ doc[d].version \in Nat /\ (doc[d].status = "ACTIVE" => doc[d].version \in 1..doc[d].version)
<1>1. doc[d] \in Doc /\ (doc[d].status # "ABSENT" => doc[d].version # 0)
  BY DEF VaultInv, Shapes, Numbered
<1>2. doc[d].version \in Nat
  BY <1>1, DocumentsConstants DEF Doc
<1> QED
  BY <1>1, <1>2, DocumentsConstants

\* Every step keeps what is pinned where it is.
LEMMA PinsKeep ==
  ASSUME VaultInv, Pinned, Chained, Next
  PROVE  Pinned' /\ Chained' /\ RowsStay
<1>n. ASSUME NEW d \in Docs
      PROVE  d # None /\ (doc[d].status = "ACTIVE" => doc[d].version \in 1..doc[d].version)
  BY VersionsAreNumbers
<1> USE DEF VaultInv, Shapes
<1>0. \A d \in Docs : doc[d].version \in Nat
  BY DocumentsConstants DEF Doc
<1>1. ASSUME NEW c \in Clerks,
             \/ \E e \in Evidence, type \in Types : AddCommit(c, e, type)
             \/ \E e \in Evidence : RenewCommit(c, e)
             \/ WithdrawCommit(c)
      PROVE  Pinned' /\ Chained' /\ RowsStay
  <2>1. /\ UNCHANGED <<doc, approval, request>> /\ clerk' = [clerk EXCEPT ![c] = None]
        /\ RowsStay /\ Chained'
        /\ \A e \in Evidence : evidence'[e].status # "ABSENT" =>
             evidence'[e].doc \in Docs /\ evidence'[e].version \in 1..doc[evidence'[e].doc].version
    BY <1>1, WritesStay
  <2>2. \A o \in Clerks : clerk'[o] # None => o # c /\ clerk'[o] = clerk[o] /\ clerk[o] \in Errand
    BY <2>1 DEF ClerksFit
  <2>3. \A o \in Clerks : clerk'[o] # None /\ clerk[o].op \in {"RENEW", "WITHDRAW"} =>
          evidence'[clerk[o].piece].status # "ABSENT"
    BY <2>1, <2>2 DEF Pinned, RowsStay, ClerksFit
  <2> QED
    BY <2>1, <2>2, <2>3 DEF Pinned
<1>2. ASSUME NEW c \in Clerks,
             \/ \E d \in Docs : AddLook(c, d) \/ \E e \in Evidence : RenewLook(c, e, d)
             \/ \E e \in Evidence : WithdrawLook(c, e)
             \/ Fail(c)
      PROVE  Pinned' /\ Chained' /\ RowsStay
  <2>1. UNCHANGED <<doc, approval, evidence>> /\ \A o \in Clerks \ {c} : clerk'[o] = clerk[o]
    BY <1>2 DEF AddLook, RenewLook, WithdrawLook, Fail, Done, docVars, ClerksFit
  <2>2. clerk'[c] # None =>
          /\ clerk'[c].op \in {"ADD", "RENEW"} =>
               clerk'[c].doc \in Docs /\ clerk'[c].version \in 1..doc[clerk'[c].doc].version
          /\ clerk'[c].op \in {"RENEW", "WITHDRAW"} => evidence[clerk'[c].piece].status # "ABSENT"
    <3>2. ASSUME NEW d \in Docs, AddLook(c, d) \/ \E e \in Evidence : RenewLook(c, e, d)
          PROVE  /\ clerk'[c].doc = d /\ clerk'[c].version = doc[d].version /\ doc[d].status = "ACTIVE"
                 /\ clerk'[c].op = "RENEW" => evidence[clerk'[c].piece].status # "ABSENT"
                 /\ clerk'[c].op # "WITHDRAW"
      BY <1>n, <3>2 DEF AddLook, RenewLook, Task, Active, ClerksFit
    <3>3. ASSUME NEW e \in Evidence, WithdrawLook(c, e)
          PROVE  clerk'[c].op = "WITHDRAW" /\ evidence[clerk'[c].piece].status # "ABSENT"
      BY <3>3 DEF WithdrawLook, Task, Active, ClerksFit
    <3>4. CASE Fail(c)
      BY <3>4 DEF Fail, Done, ClerksFit
    <3> QED
      BY <1>2, <1>n, <3>2, <3>3, <3>4
  <2>3. Pinned'
    BY <2>1, <2>2 DEF Pinned
  <2> QED
    BY <1>0, <2>1, <2>3 DEF RowsStay, Chained, Active
<1>3. CASE ToggleNext
  <2>1. PICK c \in Clerks : ToggleAudit(c) \/ \E p \in Staff : ToggleStore(c, p)
    BY <1>3 DEF ToggleNext
  <2>2. UNCHANGED <<doc, approval, evidence>> /\ \A o \in Clerks \ {c} : clerk'[o] = clerk[o]
    BY <2>1 DEF ToggleAudit, ToggleStore, Done, workflowVars, ClerksFit
  <2>3. clerk'[c] # None => clerk'[c].op = "TOGGLE"
    BY <2>1 DEF ToggleAudit, ToggleStore, Done, Task, ClerksFit
  <2>4. Pinned'
    BY <2>2, <2>3 DEF Pinned
  <2> QED
    BY <1>0, <2>2, <2>4 DEF RowsStay, Chained, Active
<1>4. CASE WorkflowNext
  <2>1. UNCHANGED <<doc, approval, evidence, clerk>>
    <3>1. PICK r \in Requests :
            \/ CreateDraft(r) \/ Submit(r) \/ StartReview(r) \/ Lapse(r)
            \/ \E p \in Staff : (\E to \in {"APPROVED", "REJECTED"} : DecideRequest(r, p, to)) \/ RevokeBadge(r, p)
      BY <1>4 DEF WorkflowNext
    <3>2. CASE CreateDraft(r) \/ StartReview(r) \/ Lapse(r)
      BY <3>2 DEF CreateDraft, StartReview, Lapse, workflowVars
    <3>3. CASE Submit(r)
      BY <3>3 DEF Submit, workflowVars
    <3>4. ASSUME NEW p \in Staff, (\E to \in {"APPROVED", "REJECTED"} : DecideRequest(r, p, to)) \/ RevokeBadge(r, p)
          PROVE  UNCHANGED <<doc, approval, evidence, clerk>>
      BY <3>4 DEF DecideRequest, RevokeBadge, workflowVars
    <3> QED
      BY <3>1, <3>2, <3>3, <3>4
  <2> QED
    BY <1>0, <2>1 DEF Pinned, RowsStay, Chained, Active
<1>5. CASE DocumentsNext
  <2>1. UNCHANGED <<evidence, clerk>> /\ DocNext
    BY <1>5 DEF DocumentsNext
  <2>2. RowsStay
    BY <2>1, DocumentsStay DEF RowsStay
  <2>3. \A d \in Docs : doc'[d].version \in Nat
    BY <1>5, DocumentsKeep, DocumentsConstants DEF Doc
  <2>4. \A d \in Docs : \A v \in 1..doc[d].version : v \in 1..doc'[d].version
    BY <1>0, <2>1, <2>3, DocumentsStay
  <2>5. Pinned'
    BY <2>1, <2>4, DocumentsStay DEF Pinned
  <2> QED
    BY <2>1, <2>2, <2>5 DEF Chained, Active
<1> QED
  BY <1>1, <1>2, <1>3, <1>4, <1>5 DEF Next, VaultNext

\* What a step does to the requests, sorted by what Frozen and Ordered can tell apart.
LEMMA RequestEffects ==
  ASSUME VaultInv, Next
  PROVE  \/ \E r \in Requests : CreateDraft(r) \/ Submit(r)
                \/ \E p \in Staff : \E to \in {"APPROVED", "REJECTED"} : DecideRequest(r, p, to)
         \/ \A r \in Requests :
              /\ request'[r].frozen = request[r].frozen
              /\ request'[r].drafted = request[r].drafted /\ request'[r].issued = request[r].issued
              /\ \/ request'[r].status = request[r].status
                 \/ request[r].status = "SUBMITTED" /\ request'[r].status = "IN_REVIEW"
                 \/ request[r].status = "APPROVED" /\ request'[r].status = "REVOKED"
<1> DEFINE Plain == \A r \in Requests :
              /\ request'[r].frozen = request[r].frozen
              /\ request'[r].drafted = request[r].drafted /\ request'[r].issued = request[r].issued
              /\ \/ request'[r].status = request[r].status
                 \/ request[r].status = "SUBMITTED" /\ request'[r].status = "IN_REVIEW"
                 \/ request[r].status = "APPROVED" /\ request'[r].status = "REVOKED"
<1>0. \A r \in Requests : request[r] \in Request
  BY DEF VaultInv, Shapes
<1>1. CASE VaultNext \/ DocumentsNext \/ \E c \in Clerks : ToggleAudit(c)
  <2>1. UNCHANGED request
    BY <1>1 DEF VaultNext, DocumentsNext, ToggleAudit, AddLook, RenewLook, WithdrawLook, AddCommit,
         RenewCommit, WithdrawCommit, Fail, vaultVars
  <2> QED
    BY <2>1
<1>2. ASSUME NEW c \in Clerks, NEW p \in Staff, ToggleStore(c, p) PROVE Plain
  BY <1>0, <1>2 DEF ToggleStore, Request
<1>3. ASSUME NEW r \in Requests, StartReview(r) \/ Lapse(r) \/ \E p \in Staff : RevokeBadge(r, p)
      PROVE  Plain
  <2>1. request \in [Requests -> Request]
    BY DEF VaultInv, Shapes
  <2>2. CASE StartReview(r)
    BY <1>0, <2>1, <2>2 DEF StartReview, Request
  <2>3. CASE Lapse(r)
    BY <1>0, <2>1, <2>3 DEF Lapse, Request
  <2>4. CASE \E p \in Staff : RevokeBadge(r, p)
    BY <1>0, <2>1, <2>4 DEF RevokeBadge, Request
  <2> QED
    BY <1>3, <2>2, <2>3, <2>4
<1>4. CASE ToggleNext
  BY <1>1, <1>2, <1>4 DEF ToggleNext, Plain
<1>5. CASE WorkflowNext
  BY <1>3, <1>5 DEF WorkflowNext, Plain
<1> QED
  BY <1>1, <1>4, <1>5 DEF Next, Plain

LEMMA FrozenKeep ==
  ASSUME VaultInv, Chained, Frozen, RowsStay, Next
  PROVE  Frozen'
<1> USE DEF VaultInv, Shapes
<1>0. \A r \in Requests : request[r] \in Request /\ request[r].frozen \subseteq Evidence \X (1..MaxVersion)
  BY DEF Request
<1>s. ASSUME NEW r \in Requests, request'[r].frozen = request[r].frozen
      PROVE  /\ \A x \in request'[r].frozen :
                  evidence'[x[1]].status # "ABSENT" /\ x[2] = evidence'[x[1]].version
             /\ \A x, y \in request'[r].frozen :
                  evidence'[x[1]].type = evidence'[y[1]].type /\ evidence'[x[1]].type \in Singletons => x = y
  <2>1. \A x \in request[r].frozen : x[1] \in Evidence
    BY <1>0
  <2>2. \A x \in request[r].frozen :
          /\ evidence'[x[1]].status # "ABSENT" /\ evidence'[x[1]].type = evidence[x[1]].type
          /\ evidence'[x[1]].version = evidence[x[1]].version
    BY <2>1 DEF Frozen, RowsStay
  <2> QED
    BY <1>s, <2>2 DEF Frozen
<1>1. CASE \A r \in Requests :
              /\ request'[r].frozen = request[r].frozen
              /\ request'[r].drafted = request[r].drafted /\ request'[r].issued = request[r].issued
              /\ \/ request'[r].status = request[r].status
                 \/ request[r].status = "SUBMITTED" /\ request'[r].status = "IN_REVIEW"
                 \/ request[r].status = "APPROVED" /\ request'[r].status = "REVOKED"
  <2>1. \A r \in Requests : (request'[r].status \in {"ABSENT", "DRAFT"}) = (request'[r].frozen = {})
    BY <1>1 DEF Frozen
  <2> QED
    BY <1>1, <1>s, <2>1 DEF Frozen
<1>2. ASSUME NEW r \in Requests, CreateDraft(r) \/ \E p \in Staff : \E to \in {"APPROVED", "REJECTED"} : DecideRequest(r, p, to)
      PROVE  Frozen'
  <2>1. /\ request'[r].frozen = request[r].frozen /\ \A o \in Requests \ {r} : request'[o] = request[o]
        /\ (request'[r].status \in {"ABSENT", "DRAFT"}) = (request[r].status \in {"ABSENT", "DRAFT"})
    <3>1. CASE CreateDraft(r)
      BY <1>0, <3>1 DEF CreateDraft, Request
    <3>2. ASSUME NEW p \in Staff, NEW to \in {"APPROVED", "REJECTED"}, DecideRequest(r, p, to)
          PROVE  /\ request'[r].frozen = request[r].frozen /\ \A o \in Requests \ {r} : request'[o] = request[o]
                 /\ request[r].status = "IN_REVIEW" /\ request'[r].status = to
      BY <1>0, <3>2 DEF DecideRequest, Request
    <3> QED
      BY <1>2, <3>1, <3>2
  <2>2. \A o \in Requests : request'[o].frozen = request[o].frozen
    BY <2>1
  <2>3. \A o \in Requests : (request'[o].status \in {"ABSENT", "DRAFT"}) = (request'[o].frozen = {})
    BY <2>1 DEF Frozen
  <2> QED
    BY <1>s, <2>2, <2>3 DEF Frozen
<1>3. ASSUME NEW r \in Requests, Submit(r) PROVE Frozen'
  <2> DEFINE frozen == {<<e, evidence[e].version>> : e \in Active}
  <2>1. /\ UNCHANGED evidence /\ Active # {} /\ request'[r].status = "SUBMITTED"
        /\ request'[r].frozen = frozen /\ \A o \in Requests \ {r} : request'[o] = request[o]
    BY <1>0, <1>3 DEF Submit, Request, workflowVars
  <2>2. \A x \in frozen : \E e \in Active : x = <<e, evidence[e].version>>
    OBVIOUS
  <2>3. frozen # {} /\ \A e \in Active : e \in Evidence /\ evidence[e].status = "ACTIVE"
    <3>1. PICK e \in Active : TRUE
      BY <2>1
    <3>2. <<e, evidence[e].version>> \in frozen
      OBVIOUS
    <3>3. \A x \in Active : x \in Evidence /\ evidence[x].status = "ACTIVE"
      BY DEF Active
    <3> HIDE DEF frozen
    <3> QED
      BY <3>2, <3>3
  <2> HIDE DEF frozen
  <2>4. \A x \in frozen : x[1] \in Active /\ x = <<x[1], x[2]>> /\ x[2] = evidence[x[1]].version
    BY <2>2
  <2>5. \A x, y \in frozen :
           evidence[x[1]].type = evidence[y[1]].type /\ evidence[x[1]].type \in Singletons => x = y
    BY <2>4 DEF Chained
  <2>6. \A o \in Requests \ {r} : request'[o].frozen = request[o].frozen
    BY <2>1
  <2> QED
    BY <1>s, <2>1, <2>3, <2>4, <2>5, <2>6 DEF Frozen
<1> QED
  BY <1>1, <1>2, <1>3, RequestEffects

LEMMA OneMore ==
  ASSUME VaultInv, NEW S \in SUBSET Requests, NEW r \in Requests \ S
  PROVE  /\ Cardinality(S) \in Nat /\ NextOrdinal(S) = Cardinality(S) + 1
         /\ Cardinality(S \cup {r}) = NextOrdinal(S)
<1>1. IsFiniteSet(S)
  BY VerificationConstants, FS_Subset
<1>2. Cardinality(S) \in Nat /\ Cardinality(S \cup {r}) = Cardinality(S) + 1
  BY <1>1, FS_CardinalityType, FS_AddElement
<1> QED
  BY <1>2 DEF NextOrdinal

LEMMA OrderedFrame ==
  ASSUME Ordered,
         \A r \in Requests :
           /\ request'[r].drafted = request[r].drafted /\ request'[r].issued = request[r].issued
           /\ (request'[r].status # "ABSENT") = (request[r].status # "ABSENT")
           /\ (request'[r].status \in {"APPROVED", "REVOKED"}) = (request[r].status \in {"APPROVED", "REVOKED"})
           /\ IsOpen(r)' => IsOpen(r)
  PROVE  Ordered'
<1>1. Drafted' = Drafted /\ Issued' = Issued
  BY DEF Drafted, Issued
<1>2. \A r \in Requests :
        /\ (request'[r].drafted > 0) = (request'[r].status # "ABSENT")
        /\ (request'[r].issued > 0) = (request'[r].status \in {"APPROVED", "REVOKED"})
        /\ request'[r].drafted <= Cardinality(Drafted')
        /\ request'[r].issued <= Cardinality(Issued')
  BY <1>1 DEF Ordered
<1>3. \A r \in Requests : IsOpen(r)' => \A o \in Requests : request'[o].drafted <= request'[r].drafted
  BY DEF Ordered
<1>4. \A r, o \in Drafted' : request'[r].drafted = request'[o].drafted => r = o
  BY <1>1 DEF Ordered, Drafted
<1>5. \A r, o \in Issued' : request'[r].issued <= request'[o].issued => request'[r].drafted <= request'[o].drafted
  BY <1>1 DEF Ordered, Issued
<1>6. Issued' # {} => \E r \in Issued' : request'[r].issued = Cardinality(Issued')
  BY <1>1 DEF Ordered, Issued
<1> QED
  BY <1>2, <1>3, <1>4, <1>5, <1>6 DEF Ordered

LEMMA OrderedKeep ==
  ASSUME VaultInv, Ordered, Next
  PROVE  Ordered'
<1>0. \A r \in Requests :
        /\ request[r] \in Request /\ request[r].drafted \in Nat /\ request[r].issued \in Nat
        /\ request[r].status \in {"ABSENT", "DRAFT", "SUBMITTED", "IN_REVIEW", "APPROVED", "REJECTED", "REVOKED"}
  BY DEF VaultInv, Shapes, Request
<1>1. CASE \A r \in Requests :
              /\ request'[r].frozen = request[r].frozen
              /\ request'[r].drafted = request[r].drafted /\ request'[r].issued = request[r].issued
              /\ \/ request'[r].status = request[r].status
                 \/ request[r].status = "SUBMITTED" /\ request'[r].status = "IN_REVIEW"
                 \/ request[r].status = "APPROVED" /\ request'[r].status = "REVOKED"
  <2>1. \A r \in Requests :
          /\ (request'[r].status # "ABSENT") = (request[r].status # "ABSENT")
          /\ (request'[r].status \in {"APPROVED", "REVOKED"}) = (request[r].status \in {"APPROVED", "REVOKED"})
          /\ IsOpen(r)' => IsOpen(r)
    BY <1>1 DEF IsOpen
  <2> QED
    BY <1>1, <2>1, OrderedFrame
<1>2. ASSUME NEW r \in Requests, CreateDraft(r) PROVE Ordered'
  <2>1. /\ request'[r].status = "DRAFT" /\ request'[r].drafted = NextOrdinal(Drafted)
        /\ request'[r].issued = request[r].issued /\ request[r].status = "ABSENT"
        /\ \A o \in Requests \ {r} : request'[o] = request[o]
        /\ \A o \in Requests : ~IsOpen(o)
    BY <1>0, <1>2 DEF CreateDraft, Drafted, VaultInv, Shapes, Request
  <2>2. r \notin Drafted /\ r \notin Issued /\ Drafted \in SUBSET Requests
    BY <1>0, <2>1 DEF Ordered, Drafted, Issued
  <2>3. /\ Cardinality(Drafted) \in Nat /\ NextOrdinal(Drafted) = Cardinality(Drafted) + 1
        /\ Cardinality(Drafted \cup {r}) = NextOrdinal(Drafted)
    BY <2>2, OneMore
  <2>4. Drafted' = Drafted \cup {r} /\ Issued' = Issued
    BY <2>1, <2>2, <2>3, <1>0 DEF Drafted, Issued
  <2>5. \A o \in Requests \ {r} : ~IsOpen(o)'
    BY <2>1 DEF IsOpen
  <2>6. \A o \in Requests : request[o].drafted <= Cardinality(Drafted)
    BY DEF Ordered
  <2>7. \A o \in Requests : request'[o].drafted <= request'[r].drafted
    BY <1>0, <2>1, <2>3, <2>6
  <2>8. \A o \in Drafted : o # r /\ request'[o].drafted < request'[r].drafted
    BY <1>0, <2>1, <2>2, <2>3, <2>6 DEF Drafted
  <2>9. \A o, q \in Drafted' : request'[o].drafted = request'[q].drafted => o = q
    BY <1>0, <2>1, <2>3, <2>4, <2>8 DEF Ordered, Drafted
  <2>10. \A o \in Requests :
           /\ (request'[o].drafted > 0) = (request'[o].status # "ABSENT")
           /\ (request'[o].issued > 0) = (request'[o].status \in {"APPROVED", "REVOKED"})
           /\ request'[o].drafted <= Cardinality(Drafted')
           /\ request'[o].issued <= Cardinality(Issued')
    BY <1>0, <2>1, <2>3, <2>4, <2>7 DEF Ordered
  <2>11. \A o, q \in Issued' : request'[o].issued <= request'[q].issued => request'[o].drafted <= request'[q].drafted
    BY <2>1, <2>2, <2>4 DEF Ordered, Issued
  <2>12. \A o \in Requests : IsOpen(o)' => \A q \in Requests : request'[q].drafted <= request'[o].drafted
    BY <2>5, <2>7
  <2>13. Issued' # {} => \E o \in Issued' : request'[o].issued = Cardinality(Issued')
    BY <2>1, <2>2, <2>4 DEF Ordered, Issued
  <2> QED
    BY <2>9, <2>10, <2>11, <2>12, <2>13 DEF Ordered
<1>3. ASSUME NEW r \in Requests, Submit(r) PROVE Ordered'
  <2>1. /\ request[r].status = "DRAFT" /\ request'[r].status = "SUBMITTED"
        /\ request'[r].drafted = request[r].drafted /\ request'[r].issued = request[r].issued
        /\ \A o \in Requests \ {r} : request'[o] = request[o]
    BY <1>0, <1>3 DEF Submit, VaultInv, Shapes, Request
  <2>2. \A o \in Requests :
          /\ (request'[o].status # "ABSENT") = (request[o].status # "ABSENT")
          /\ (request'[o].status \in {"APPROVED", "REVOKED"}) = (request[o].status \in {"APPROVED", "REVOKED"})
          /\ IsOpen(o)' => IsOpen(o)
    BY <2>1 DEF IsOpen
  <2> QED
    BY <2>1, <2>2, OrderedFrame
<1>4. ASSUME NEW r \in Requests, NEW p \in Staff, NEW to \in {"APPROVED", "REJECTED"}, DecideRequest(r, p, to)
      PROVE  Ordered'
  <2>1. /\ request[r].status = "IN_REVIEW" /\ request'[r].status = to
        /\ request'[r].drafted = request[r].drafted
        /\ request'[r].issued = (IF to = "APPROVED" THEN NextOrdinal(Issued) ELSE 0)
        /\ \A o \in Requests \ {r} : request'[o] = request[o]
    BY <1>0, <1>4 DEF DecideRequest, VaultInv, Shapes, Request
  <2>2. \A o \in Requests : request'[o].drafted = request[o].drafted
    BY <2>1
  <2>3. Drafted' = Drafted /\ IsOpen(r) /\ ~IsOpen(r)' /\ \A o \in Requests \ {r} : IsOpen(o)' <=> IsOpen(o)
    BY <2>1, <2>2 DEF Drafted, IsOpen
  <2>4. r \notin Issued /\ Issued \in SUBSET Requests
    BY <1>0, <2>1 DEF Ordered, Issued
  <2>5. /\ Cardinality(Issued) \in Nat /\ NextOrdinal(Issued) = Cardinality(Issued) + 1
        /\ Cardinality(Issued \cup {r}) = NextOrdinal(Issued)
    BY <2>4, OneMore
  <2>6. Issued' = IF to = "APPROVED" THEN Issued \cup {r} ELSE Issued
    BY <1>0, <2>1, <2>4, <2>5 DEF Issued
  <2>7. \A o \in Requests : request'[o].issued <= Cardinality(Issued')
    BY <1>0, <2>1, <2>5, <2>6 DEF Ordered
  <2>8. \A o \in Requests : (request'[o].issued > 0) = (request'[o].status \in {"APPROVED", "REVOKED"})
    BY <2>1, <2>5 DEF Ordered
  <2>9. \A o \in Requests : request[o].drafted <= request[r].drafted
    BY <2>3 DEF Ordered
  <2>10. \A o, q \in Issued' : request'[o].issued <= request'[q].issued => request'[o].drafted <= request'[q].drafted
    <3> SUFFICES ASSUME NEW o \in Issued', NEW q \in Issued', request'[o].issued <= request'[q].issued
                 PROVE  request[o].drafted <= request[q].drafted
      BY <2>2, <2>4, <2>6
    <3>1. o \in Requests /\ q \in Requests
      BY <2>4, <2>6
    <3>2. CASE q = r
      BY <3>1, <3>2, <2>9
    <3>3. CASE q # r /\ o = r
      <4>1. q \in Issued /\ to = "APPROVED" /\ request'[q] = request[q]
        BY <3>1, <3>3, <2>1, <2>4, <2>6
      <4>2. request[q].issued <= Cardinality(Issued)
        BY <3>1 DEF Ordered
      <4> QED
        BY <1>0, <2>1, <2>5, <3>1, <3>3, <4>1, <4>2
    <3>4. CASE q # r /\ o # r
      BY <3>1, <3>4, <2>1, <2>6 DEF Ordered
    <3> QED
      BY <3>2, <3>3, <3>4
  <2>11. \A o \in Requests : (request'[o].drafted > 0) = (request'[o].status # "ABSENT")
    BY <2>1, <2>2 DEF Ordered
  <2>12. \A o \in Requests : IsOpen(o)' => \A q \in Requests : request'[q].drafted <= request'[o].drafted
    BY <2>2, <2>3 DEF Ordered
  <2>13. Issued' # {} => \E o \in Issued' : request'[o].issued = Cardinality(Issued')
    <3>1. CASE to = "APPROVED"
      BY <2>1, <2>5, <2>6, <3>1
    <3>2. CASE to # "APPROVED"
      BY <2>1, <2>4, <2>6, <3>2 DEF Ordered, Issued
    <3> QED
      BY <3>1, <3>2
  <2>14. \A o, q \in Drafted' : request'[o].drafted = request'[q].drafted => o = q
    BY <2>2, <2>3 DEF Ordered, Drafted
  <2> QED
    BY <2>7, <2>8, <2>10, <2>11, <2>12, <2>13, <2>14, <2>3, <2>2 DEF Ordered
<1> QED
  BY <1>1, <1>2, <1>3, <1>4, RequestEffects

LEMMA SlippedFits ==
  ASSUME VaultInv, slipped \subseteq Staff, [Next]_verificationVars
  PROVE  slipped' \subseteq Staff
<1> USE DEF VaultInv, ClerksFit
<1>1. \A c \in Clerks : At(c, "TOGGLE") => clerk[c].staff \in Staff
  BY DEF At
<1>2. ASSUME NEW c \in Clerks, Fail(c) PROVE slipped' \subseteq Staff
  BY <1>2 DEF Fail
<1>3. ASSUME NEW r \in Requests, Submit(r) PROVE slipped' \subseteq Staff
  <2>1. slipped' = slipped \cup {clerk[c].staff : c \in {c \in Clerks : At(c, "TOGGLE")}}
    BY <1>3 DEF Submit
  <2> QED
    BY <1>1, <2>1
<1>4. ASSUME NEW c \in Clerks,
             \/ \E d \in Docs : AddLook(c, d) \/ \E e \in Evidence : RenewLook(c, e, d)
             \/ \E e \in Evidence : WithdrawLook(c, e) \/ RenewCommit(c, e)
             \/ \E e \in Evidence, type \in Types : AddCommit(c, e, type)
             \/ WithdrawCommit(c)
      PROVE  UNCHANGED slipped
  BY <1>4 DEF AddLook, RenewLook, WithdrawLook, RenewCommit, AddCommit, WithdrawCommit, vaultVars
<1>5. ASSUME NEW r \in Requests, CreateDraft(r) \/ StartReview(r) \/ Lapse(r)
      PROVE  UNCHANGED slipped
  BY <1>5 DEF CreateDraft, StartReview, Lapse
<1>9. ASSUME NEW r \in Requests, NEW p \in Staff,
             (\E to \in {"APPROVED", "REJECTED"} : DecideRequest(r, p, to)) \/ RevokeBadge(r, p)
      PROVE  UNCHANGED slipped
  BY <1>9 DEF DecideRequest, RevokeBadge
<1>6. CASE ToggleNext \/ DocumentsNext \/ UNCHANGED verificationVars
  BY <1>6 DEF ToggleNext, ToggleAudit, ToggleStore, DocumentsNext, verificationVars
<1>7. CASE VaultNext
  BY <1>2, <1>4, <1>7 DEF VaultNext
<1>8. CASE WorkflowNext
  BY <1>3, <1>5, <1>8, <1>9 DEF WorkflowNext
<1> QED
  BY <1>6, <1>7, <1>8 DEF Next

RowsInv == Pinned /\ Chained /\ Frozen /\ Ordered /\ slipped \subseteq Staff

LEMMA RowsAlways == VerificationSpec => []RowsInv
<1>1. Init => RowsInv
  BY RowsInit DEF Init, RowsInv
<1>2. VaultInv /\ RowsInv /\ [Next]_verificationVars => RowsInv'
  <2> SUFFICES ASSUME VaultInv, RowsInv, [Next]_verificationVars PROVE RowsInv'
    OBVIOUS
  <2>1. CASE UNCHANGED verificationVars
    BY <2>1 DEF verificationVars, RowsInv, Pinned, Chained, Frozen, Ordered, Active, Issued, Drafted, IsOpen
  <2>2. CASE Next
    BY <2>2, PinsKeep, FrozenKeep, OrderedKeep, SlippedFits DEF RowsInv
  <2> QED
    BY <2>1, <2>2
<1> QED
  BY <1>1, <1>2, VaultAlways, PTL DEF VerificationSpec

\* Of rows in order, the one that CHOOSE takes is the one that came last.
LEMMA LatestIsLast ==
  ASSUME NEW S, NEW ordinal, NEW last \in S, \A o \in S : ordinal[o] \in Nat,
         \A o \in S : ordinal[o] <= ordinal[last]
  PROVE  /\ Latest(S, ordinal) \in S
         /\ \A o \in S : ordinal[o] <= ordinal[Latest(S, ordinal)]
BY DEF Latest

LEMMA SoundNow ==
  ASSUME VaultInv, RowsInv, Tracked
  PROVE  VerificationTypeOK /\ ChainsSound /\ RequestsSound
<1> USE DEF RowsInv
<1>1. VerificationTypeOK
  BY DEF VerificationTypeOK, DocTypeOK, VaultInv, Shapes, ClerksFit, Pinned
<1>2. ChainsSound
  BY DEF ChainsSound, Chained, Pinned
<1>3. \A r, o \in Requests : IsOpen(r) /\ IsOpen(o) => r = o
  <2> SUFFICES ASSUME NEW r \in Requests, NEW o \in Requests, IsOpen(r), IsOpen(o) PROVE r = o
    OBVIOUS
  <2>1. request[r].drafted \in Nat /\ request[o].drafted \in Nat
    BY DEF VaultInv, Shapes, Request
  <2>2. request[r].drafted <= request[o].drafted /\ request[o].drafted <= request[r].drafted
    BY DEF Ordered
  <2>3. r \in Drafted /\ o \in Drafted
    BY DEF Ordered, IsOpen, Drafted
  <2> QED
    BY <2>1, <2>2, <2>3 DEF Ordered
<1>4. Cardinality({r \in Requests : IsOpen(r)}) <= 1
  <2> DEFINE open == {r \in Requests : IsOpen(r)}
  <2>1. CASE open = {}
    BY <2>1, FS_EmptySet
  <2>2. CASE \E r \in open : open = {r}
    BY <2>2, FS_Singleton
  <2> QED
    BY <1>3, <2>1, <2>2
<1>5. RequestsSound
  BY <1>4 DEF RequestsSound, Frozen
<1> QED
  BY <1>1, <1>2, <1>5

LEMMA ShownNow ==
  ASSUME VaultInv, RowsInv, Tracked
  PROVE  ShownSound
<1> USE DEF RowsInv
<1>0. \A r \in Requests :
        /\ request[r] \in Request /\ request[r].drafted \in Nat /\ request[r].issued \in Nat
  BY DEF VaultInv, Shapes, Request
<1>1. ASSUME NEW r \in Requests, IsOpen(r) PROVE StatusShown.request = r
  <2> DEFINE ordinal == [o \in Drafted |-> request[o].drafted]
             latest == Latest(Drafted, ordinal)
  <2>1. r \in Drafted /\ \A o \in Drafted : ordinal[o] <= ordinal[r] /\ ordinal[o] \in Nat
    BY <1>0, <1>1 DEF Ordered, Drafted, IsOpen
  <2> HIDE DEF ordinal
  <2>2. latest \in Drafted /\ \A o \in Drafted : ordinal[o] <= ordinal[latest]
    BY <2>1, LatestIsLast
  <2> USE DEF ordinal
  <2>3. request[latest].drafted = request[r].drafted
    <3>1. ordinal[latest] = ordinal[r]
      <4> HIDE DEF ordinal, latest
      <4> QED
        BY <2>1, <2>2
    <3> HIDE DEF latest
    <3> QED
      BY <2>1, <2>2, <3>1
  <2>4. latest = r
    <3> HIDE DEF latest
    <3> QED
      BY <2>1, <2>2, <2>3 DEF Ordered
  <2>5. StatusShown.request = latest
    BY <2>1 DEF StatusShown, Drafted
  <2> QED
    BY <2>4, <2>5
<1>2. LET badge == BadgeProjection IN
        badge # None /\ badge.state = "ACTIVE" =>
          /\ request[badge.request].status = "APPROVED"
          /\ \A o \in Requests : request[o].status = "APPROVED"
               => request[o].drafted <= request[badge.request].drafted
  <2> DEFINE ordinal == [o \in Issued |-> request[o].issued]
             latest == Latest(Issued, ordinal)
  <2> SUFFICES ASSUME Issued # {}, BadgeState(latest) = "ACTIVE"
               PROVE  /\ request[latest].status = "APPROVED"
                      /\ \A o \in Requests : request[o].status = "APPROVED"
                           => request[o].drafted <= request[latest].drafted
    BY DEF BadgeProjection
  <2>1. \E last \in Issued : \A o \in Issued : ordinal[o] <= ordinal[last]
    <3>1. PICK last \in Issued : request[last].issued = Cardinality(Issued)
      BY DEF Ordered
    <3> QED
      BY <3>1 DEF Ordered, Issued
  <2>2. \A o \in Issued : ordinal[o] \in Nat
    BY <1>0 DEF Issued
  <2>3. latest \in Issued /\ \A o \in Issued : ordinal[o] <= ordinal[latest]
    <3> HIDE DEF ordinal
    <3> QED
      BY <2>1, <2>2, LatestIsLast
  <2>4. \A o \in Issued : request[o].issued <= request[latest].issued
    <3> HIDE DEF latest
    <3> QED
      BY <2>3
  <2> HIDE DEF latest
  <2>5. request[latest].status = "APPROVED"
    BY <1>0, <2>3 DEF BadgeState, Ordered, Issued
  <2>6. \A o \in Requests : request[o].status = "APPROVED" => o \in Issued
    BY DEF Ordered, Issued
  <2> QED
    BY <2>3, <2>4, <2>5, <2>6 DEF Ordered
<1>3. ASSUME NEW r \in Requests, NEW piece \in request[r].frozen PROVE Served(r, piece)
  <2>1. piece[1] \in Evidence /\ request[r].status \notin {"ABSENT", "DRAFT"}
    BY <1>0 DEF Frozen, Request
  <2>2. piece[2] = evidence[piece[1]].version /\ evidence[piece[1]].status # "ABSENT"
    BY DEF Frozen
  <2>3. piece[2] \in 1..doc[evidence[piece[1]].doc].version
    BY <2>1, <2>2 DEF Pinned
  <2> QED
    BY <2>1, <2>3 DEF Served
<1>4. ASSUME NEW p \in Staff, NEW item \in Queue(p, {"SUBMITTED", "IN_REVIEW"})
      PROVE  /\ item.blocked \/ p \notin request[item.request].toggled \/ p \in slipped
             /\ item.frozen # {} /\ item.by = None /\ item.badge = None
  <2>1. PICK r \in Requests : request[r].status \in {"SUBMITTED", "IN_REVIEW"} /\ item = Detail(r, p)
    BY <1>4 DEF Queue
  <2>2. /\ item.request = r /\ item.blocked = (p \in request[r].sod) /\ item.frozen = request[r].frozen
        /\ item.by = request[r].by /\ item.badge = IF r \in Issued THEN BadgeState(r) ELSE None
    BY <2>1 DEF Detail
  <2>3. r \notin Issued
    BY <2>1 DEF Issued, Ordered
  <2> QED
    BY <2>1, <2>2, <2>3 DEF Tracked, Frozen
<1> QED
  BY <1>1, <1>2, <1>3, <1>4 DEF ShownSound

\* Evidence, requests and what is shown of them hold together, for any number of
\* documents, pieces of evidence, requests, reviewers and processes.
THEOREM VerificationAlwaysSound == VerificationSpec => []VerificationSound
<1>1. VaultInv /\ RowsInv /\ Tracked => VerificationSound
  BY SoundNow, ShownNow DEF VerificationSound
<1> QED
  BY <1>1, VaultAlways, RowsAlways, TrackedAlways, PTL
=============================================================================
