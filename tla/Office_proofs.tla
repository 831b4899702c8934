---------------------------- MODULE Office_proofs ----------------------------
(***************************************************************************)
(* What holds around the ledgers: of one document sent by e-mail, for any  *)
(* number of requests and faults, and of bank lines and their              *)
(* reconciliation, for any accounts, lines and requests.  The lemmas on    *)
(* sums are those of StockLedger_proofs.                                   *)
(***************************************************************************)
EXTENDS Banking, Delivery, StockLedger_proofs

----------------------------------------------------------------------------
(* Deliveries.  The request that has the key goes through the steps before  *)
(* its answer is known, after it, and the catch block.                      *)

Sending == {"CLAIMED", "MAILING", "REFUSED"}
Taken == {"ACCEPTED", "MAILED", "NOTIFIED"}
Catching == {"FAILING", "FAILED"}
Working == Sending \cup Taken \cup {"AUDITING"} \cup Catching

Sender ==
  [step : {"IDLE", "READ"} \cup Working, preference : Nat, attempt : Nat, accepted : BOOLEAN]

DeliveryShape ==
  /\ preference \in [number : Nat, consent : BOOLEAN]
  /\ delivery \in [status : {"NONE", "PROCESSING", "SENT", "FAILED"}, preference : Nat,
                   owner : Senders \cup {NoOne},
                   code : {"NONE", "PROVIDER_FAILED", "IN_APP_OUTCOME_FAILED"}]
  /\ emailRow \in {"NONE", "sent", "failed"} /\ noticeRow \in {"NONE", "SENT", "FAILED"}
  /\ sender \in [Senders -> Sender]
  /\ mails \in Nat /\ unheard \in Nat

\* Before it is claimed nothing happens under the key.
Untouched ==
  delivery.status = "NONE" =>
    /\ delivery.code = "NONE" /\ emailRow = "NONE" /\ noticeRow = "NONE" /\ mails = 0 /\ unheard = 0
    /\ \A s \in Senders : sender[s].step \notin Working

\* What a request at work has done so far: it alone has the key, and a settled
\* one is at work no more, but to audit what was sent.
Knows(s, q) ==
  /\ q.accepted => q.step \in {"MAILED", "NOTIFIED", "AUDITING"} \cup Catching
  /\ q.step \in Working =>
    /\ delivery.owner = s /\ delivery.code = "NONE"
    /\ delivery.status \in
         (IF q.step = "AUDITING" THEN {"SENT"}
          ELSE IF q.step \in Catching THEN {"PROCESSING", "SENT"} ELSE {"PROCESSING"})
    /\ q.step \in Sending => mails = unheard
    /\ q.step \in Taken => mails = unheard + 1
    /\ q.step \in Sending \cup {"ACCEPTED", "MAILED"} => noticeRow = "NONE"
    /\ q.step \in {"MAILED", "NOTIFIED", "AUDITING"} => q.accepted
    /\ q.step \in {"NOTIFIED", "AUDITING"} => noticeRow = "SENT"
    /\ q.accepted => emailRow = "sent"
    /\ ~q.accepted /\ q.step = "FAILING" => noticeRow = "NONE"
    /\ ~q.accepted /\ q.step = "FAILED" => noticeRow # "SENT"

WorkersKnow == \A s \in Senders : Knows(s, sender[s])

OutcomeKept ==
  /\ unheard <= mails /\ mails <= unheard + 1
  /\ emailRow = "sent" => mails > 0
  /\ delivery.status = "SENT" => emailRow = "sent" /\ noticeRow = "SENT"
  /\ delivery.code # "NONE" => delivery.status = "FAILED"
  /\ delivery.code = "PROVIDER_FAILED" => noticeRow # "SENT"
  /\ delivery.code = "IN_APP_OUTCOME_FAILED" => emailRow = "sent"

DeliveryInv == DeliveryShape /\ Untouched /\ WorkersKnow /\ OutcomeKept

LEMMA DeliveryInvInit == DeliveryInit => DeliveryInv
BY DEF DeliveryInit, DeliveryInv, DeliveryShape, Untouched, WorkersKnow, Knows, OutcomeKept, NoDelivery,
       AtRest, Sender, Working, Sending, Taken, Catching

\* A step of the request that has the key.
LEMMA WorkerMoves ==
  ASSUME DeliveryInv, NEW s \in Senders, NEW q \in Sender, sender' = [sender EXCEPT ![s] = q],
         sender[s].step \in Working, DeliveryShape', Knows(s, q)', OutcomeKept', delivery'.status # "NONE"
  PROVE  DeliveryInv'
<1>1. \A t \in Senders : sender'[t] = IF t = s THEN q ELSE sender[t]
  BY DEF DeliveryInv, DeliveryShape
<1>2. \A t \in Senders : t # s => sender[t].step \notin Working
  BY DEF DeliveryInv, WorkersKnow, Knows
<1>3. WorkersKnow'
  <2> SUFFICES ASSUME NEW t \in Senders, NEW r, r = sender'[t] PROVE Knows(t, r)'
    BY DEF WorkersKnow
  <2>1. CASE t = s
    BY <1>1, <2>1
  <2>2. CASE t # s
    <3>1. r = sender[t] /\ r.step \notin Working /\ Knows(t, r)
      BY <1>1, <1>2, <2>2 DEF DeliveryInv, WorkersKnow
    <3> QED
      BY <3>1 DEF Knows
  <2> QED
    BY <2>1, <2>2
<1>4. Untouched'
  BY DEF Untouched
<1> QED
  BY <1>3, <1>4 DEF DeliveryInv

\* Who claims the key finds it free, and nobody at work.
LEMMA ClaimKeeps ==
  ASSUME DeliveryInv, NEW s \in Senders, ClaimDelivery(s)
  PROVE  DeliveryInv'
<1> USE DEF Working, Sending, Taken, Catching
<1>1. /\ sender[s].step = "READ" /\ sender[s] \in Sender /\ sender \in [Senders -> Sender]
      /\ UNCHANGED <<preference, emailRow, noticeRow, mails, unheard>>
      /\ ~sender[s].accepted
  BY DEF ClaimDelivery, At, Sent, DeliveryInv, DeliveryShape, WorkersKnow, Knows
<1>2. AtRest \in Sender /\ AtRest.step = "IDLE" /\ ~AtRest.accepted
  BY DEF AtRest, Sender
<1>3. CASE Unclaimed
  <2>1. PICK q : q = [sender[s] EXCEPT !.step = "CLAIMED"]
    OBVIOUS
  <2>2. sender' = [sender EXCEPT ![s] = q] /\ delivery.status = "NONE"
        /\ delivery' = [status |-> "PROCESSING", preference |-> sender[s].preference,
                        owner |-> s, code |-> "NONE"]
    BY <1>3, <2>1 DEF ClaimDelivery, Go, Unclaimed
  <2>3. q \in Sender /\ q.step = "CLAIMED" /\ ~q.accepted
    BY <1>1, <2>1 DEF Sender
  <2>4. \A t \in Senders : sender'[t] = IF t = s THEN q ELSE sender[t]
    BY <1>1, <2>2
  <2>5. DeliveryShape' /\ OutcomeKept' /\ Untouched'
    BY <1>1, <2>2, <2>3 DEF DeliveryInv, DeliveryShape, Untouched, OutcomeKept, Sender
  <2>6. WorkersKnow'
    <3> SUFFICES ASSUME NEW t \in Senders, NEW r, r = sender'[t] PROVE Knows(t, r)'
      BY DEF WorkersKnow
    <3>1. CASE t = s
      BY <1>1, <2>2, <2>3, <2>4, <3>1 DEF Knows, DeliveryInv, Untouched
    <3>2. CASE t # s
      BY <1>1, <2>2, <2>4, <3>2 DEF Knows, DeliveryInv, Untouched, WorkersKnow
    <3> QED
      BY <3>1, <3>2
  <2> QED
    BY <2>5, <2>6 DEF DeliveryInv
<1>4. CASE ~Unclaimed
  <2>1. UNCHANGED delivery /\ sender' = [sender EXCEPT ![s] = AtRest]
    BY <1>4 DEF ClaimDelivery
  <2> QED
    BY <1>1, <1>2, <2>1 DEF DeliveryInv, DeliveryShape, Untouched, WorkersKnow, Knows, OutcomeKept
<1> QED
  BY <1>3, <1>4

LEMMA ShareKeeps ==
  ASSUME DeliveryInv, NEW s \in Senders, Share(s)
  PROVE  DeliveryInv'
<1> USE DEF Working, Sending, Taken, Catching
<1>1. /\ sender[s].step = "CLAIMED" /\ sender[s] \in Sender /\ Knows(s, sender[s])
      /\ OutcomeKept /\ DeliveryShape /\ sender \in [Senders -> Sender]
      /\ UNCHANGED <<preference, delivery, emailRow, noticeRow, mails, unheard>>
  BY DEF Share, At, Sent, DeliveryInv, DeliveryShape, WorkersKnow
<1>2. PICK step \in {"MAILING", "FAILING"} : sender' = [sender EXCEPT ![s].step = step]
  BY DEF Share, Go
<1>3. PICK q : q = [sender[s] EXCEPT !.step = step]
  OBVIOUS
<1>4. q \in Sender /\ sender' = [sender EXCEPT ![s] = q] /\ q.step = step /\ q.accepted = sender[s].accepted
  BY <1>1, <1>2, <1>3 DEF Sender
<1>5. Knows(s, q)' /\ DeliveryShape' /\ OutcomeKept' /\ delivery'.status # "NONE"
  BY <1>1, <1>4 DEF Knows, DeliveryShape, OutcomeKept
<1> QED
  BY <1>1, <1>4, <1>5, WorkerMoves

LEMMA MailKeeps ==
  ASSUME DeliveryInv, NEW s \in Senders, MailAccepted(s) \/ MailRefused(s) \/ MailAnswerLost(s)
  PROVE  DeliveryInv'
<1> USE DEF Working, Sending, Taken, Catching
<1>1. /\ sender[s].step = "MAILING" /\ sender[s] \in Sender /\ Knows(s, sender[s])
      /\ OutcomeKept /\ DeliveryShape /\ sender \in [Senders -> Sender]
      /\ UNCHANGED <<preference, delivery, emailRow, noticeRow>>
  BY DEF MailAccepted, MailRefused, MailAnswerLost, At, Sent, Rows, DeliveryInv, DeliveryShape, WorkersKnow
<1>2. PICK step \in {"ACCEPTED", "MAILING", "REFUSED"} :
        /\ sender' = [sender EXCEPT ![s].attempt = Attempted(s), ![s].step = step]
        /\ IF step = "ACCEPTED" THEN mails' = mails + 1 /\ unheard' = unheard
           ELSE \/ UNCHANGED <<mails, unheard>>
                \/ mails' = mails + 1 /\ unheard' = unheard + 1
  BY DEF MailAccepted, MailRefused, MailAnswerLost, AfterRefusal, Sent
<1>3. PICK q : q = [sender[s] EXCEPT !.attempt = Attempted(s), !.step = step]
  OBVIOUS
<1>4. q \in Sender /\ q.step = step /\ q.accepted = sender[s].accepted
  <2>1. sender[s] \in Sender /\ step \in Working /\ Attempted(s) \in Nat
    BY <1>1 DEF Sender, Attempted
  <2>2. PICK r : r = [sender[s] EXCEPT !.attempt = Attempted(s)]
    OBVIOUS
  <2>3. r \in Sender /\ r.accepted = sender[s].accepted /\ q = [r EXCEPT !.step = step]
    BY <1>3, <2>1, <2>2 DEF Sender
  <2> QED
    BY <2>1, <2>3 DEF Sender
<1>5. sender' = [sender EXCEPT ![s] = q]
  BY <1>1, <1>2, <1>3
<1>6. DeliveryShape' /\ delivery'.status # "NONE"
  <2>1. delivery'.status # "NONE"
    BY <1>1 DEF Knows
  <2>2. sender' \in [Senders -> Sender]
    BY <1>1, <1>4, <1>5
  <2>3. mails' \in Nat /\ unheard' \in Nat
    BY <1>1, <1>2 DEF DeliveryShape
  <2> QED
    BY <1>1, <2>1, <2>2, <2>3 DEF DeliveryShape
<1>7. OutcomeKept'
  BY <1>1, <1>2 DEF DeliveryShape, OutcomeKept, Knows
<1>8. Knows(s, q)'
  BY <1>1, <1>2, <1>4 DEF DeliveryShape, Knows
<1> QED
  BY <1>1, <1>4, <1>5, <1>6, <1>7, <1>8, WorkerMoves

LEMMA PersistKeeps ==
  ASSUME DeliveryInv, NEW s \in Senders, PersistEmail(s)
  PROVE  DeliveryInv'
<1> USE DEF Working, Sending, Taken, Catching
<1>1. /\ sender[s].step \in {"ACCEPTED", "REFUSED"} /\ sender[s] \in Sender /\ Knows(s, sender[s])
      /\ OutcomeKept /\ DeliveryShape /\ sender \in [Senders -> Sender]
      /\ UNCHANGED <<preference, delivery, noticeRow, mails, unheard>>
  BY DEF PersistEmail, At, Sent, DeliveryInv, DeliveryShape, WorkersKnow
<1>2. CASE sender' = [sender EXCEPT ![s].step = "MAILED", ![s].accepted = TRUE] /\ At(s, "ACCEPTED") /\ emailRow' = "sent"
  <2>1. PICK q : q = [sender[s] EXCEPT !.step = "MAILED", !.accepted = TRUE]
    OBVIOUS
  <2>2. q \in Sender /\ sender' = [sender EXCEPT ![s] = q] /\ q.step = "MAILED" /\ q.accepted
    BY <1>1, <1>2, <2>1 DEF Sender
  <2>3. mails = unheard + 1 /\ noticeRow = "NONE" /\ delivery.status = "PROCESSING" /\ delivery.owner = s
        /\ delivery.code = "NONE"
    BY <1>1, <1>2 DEF Knows, At
  <2>4. OutcomeKept' /\ delivery'.status # "NONE"
    BY <1>1, <1>2, <2>3 DEF DeliveryShape, OutcomeKept
  <2>5. DeliveryShape'
    <3>1. sender' \in [Senders -> Sender]
      BY <1>1, <2>2
    <3> QED
      BY <1>1, <1>2, <3>1 DEF DeliveryShape
  <2>6. Knows(s, q)'
    BY <1>1, <1>2, <2>2, <2>3 DEF Knows
  <2> QED
    BY <1>1, <2>2, <2>4, <2>5, <2>6, WorkerMoves
<1>3. CASE /\ sender' = [sender EXCEPT ![s].step = "FAILING"]
           /\ \/ At(s, "ACCEPTED") /\ emailRow' \in {emailRow, "sent"}
              \/ At(s, "REFUSED") /\ emailRow' \in {emailRow, "failed"}
  <2>1. PICK q : q = [sender[s] EXCEPT !.step = "FAILING"]
    OBVIOUS
  <2>2. q \in Sender /\ sender' = [sender EXCEPT ![s] = q] /\ q.step = "FAILING" /\ ~q.accepted
    BY <1>1, <1>3, <2>1 DEF Sender, Knows
  <2>3. Knows(s, q)' /\ DeliveryShape' /\ OutcomeKept' /\ delivery'.status # "NONE"
    BY <1>1, <1>3, <2>2 DEF Knows, DeliveryShape, OutcomeKept, At
  <2> QED
    BY <1>1, <2>2, <2>3, WorkerMoves
<1> QED
  BY <1>2, <1>3 DEF PersistEmail, Go

LEMMA NotifySentKeeps ==
  ASSUME DeliveryInv, NEW s \in Senders, NotifySent(s)
  PROVE  DeliveryInv'
<1> USE DEF Working, Sending, Taken, Catching
<1>1. /\ sender[s].step = "MAILED" /\ sender[s] \in Sender /\ Knows(s, sender[s])
      /\ OutcomeKept /\ DeliveryShape /\ sender \in [Senders -> Sender]
      /\ UNCHANGED <<preference, delivery, emailRow, mails, unheard>>
  BY DEF NotifySent, At, Sent, DeliveryInv, DeliveryShape, WorkersKnow
<1>2. PICK step \in {"NOTIFIED", "FAILING"} :
        /\ sender' = [sender EXCEPT ![s].step = step]
        /\ noticeRow' \in {noticeRow, "SENT"} /\ (step = "NOTIFIED" => noticeRow' = "SENT")
  BY <1>1 DEF NotifySent, Go, Outcome, Knows
<1>3. PICK q : q = [sender[s] EXCEPT !.step = step]
  OBVIOUS
<1>4. q \in Sender /\ sender' = [sender EXCEPT ![s] = q] /\ q.step = step /\ q.accepted
  BY <1>1, <1>2, <1>3 DEF Sender, Knows
<1>5. Knows(s, q)' /\ DeliveryShape' /\ OutcomeKept' /\ delivery'.status # "NONE"
  BY <1>1, <1>2, <1>4 DEF Knows, DeliveryShape, OutcomeKept
<1> QED
  BY <1>1, <1>4, <1>5, WorkerMoves

LEMMA MarkSentKeeps ==
  ASSUME DeliveryInv, NEW s \in Senders, MarkSent(s)
  PROVE  DeliveryInv'
<1> USE DEF Working, Sending, Taken, Catching
<1>1. /\ sender[s].step = "NOTIFIED" /\ sender[s] \in Sender /\ Knows(s, sender[s])
      /\ OutcomeKept /\ DeliveryShape /\ sender \in [Senders -> Sender]
      /\ UNCHANGED <<preference, noticeRow, emailRow, mails, unheard>>
  BY DEF MarkSent, At, ReadyForSent, Sent, DeliveryInv, DeliveryShape, WorkersKnow
<1>2. PICK step \in {"AUDITING", "FAILING"} :
        /\ sender' = [sender EXCEPT ![s].step = step]
        /\ IF step = "AUDITING" THEN delivery' = [delivery EXCEPT !.status = "SENT"] ELSE UNCHANGED delivery
  BY DEF MarkSent, Go
<1>3. PICK q : q = [sender[s] EXCEPT !.step = step]
  OBVIOUS
<1>4. q \in Sender /\ sender' = [sender EXCEPT ![s] = q] /\ q.step = step /\ q.accepted
  BY <1>1, <1>2, <1>3 DEF Sender, Knows
<1>5. Knows(s, q)' /\ DeliveryShape' /\ OutcomeKept' /\ delivery'.status # "NONE"
  BY <1>1, <1>2, <1>4 DEF Knows, DeliveryShape, OutcomeKept
<1> QED
  BY <1>1, <1>4, <1>5, WorkerMoves

LEMMA AuditKeeps ==
  ASSUME DeliveryInv, NEW s \in Senders, AuditSent(s)
  PROVE  DeliveryInv'
<1> USE DEF Working, Sending, Taken, Catching
<1>1. /\ sender[s].step = "AUDITING" /\ sender[s] \in Sender /\ Knows(s, sender[s])
      /\ OutcomeKept /\ DeliveryShape /\ sender \in [Senders -> Sender]
      /\ UNCHANGED <<preference, delivery, noticeRow, emailRow, mails, unheard>>
  BY DEF AuditSent, At, Sent, Rows, DeliveryInv, DeliveryShape, WorkersKnow
<1>2. PICK q : q \in {AtRest, [sender[s] EXCEPT !.step = "FAILING"]} /\ sender' = [sender EXCEPT ![s] = q]
  BY DEF AuditSent, Go
<1>3. q \in Sender /\ ((q.step = "IDLE" /\ ~q.accepted) \/ (q.step = "FAILING" /\ q.accepted))
  <2>1. CASE q = AtRest
    BY <2>1 DEF Sender, AtRest
  <2>2. CASE q = [sender[s] EXCEPT !.step = "FAILING"]
    BY <1>1, <2>2 DEF Sender, Knows
  <2> QED
    BY <1>2, <2>1, <2>2
<1>4. Knows(s, q)' /\ DeliveryShape' /\ OutcomeKept' /\ delivery'.status # "NONE"
  BY <1>1, <1>2, <1>3 DEF Knows, DeliveryShape, OutcomeKept
<1> QED
  BY <1>1, <1>2, <1>3, <1>4, WorkerMoves

LEMMA NotifyFailedKeeps ==
  ASSUME DeliveryInv, NEW s \in Senders, NotifyFailed(s)
  PROVE  DeliveryInv'
<1> USE DEF Working, Sending, Taken, Catching
<1>1. /\ sender[s].step = "FAILING" /\ sender[s] \in Sender /\ Knows(s, sender[s])
      /\ OutcomeKept /\ DeliveryShape /\ sender \in [Senders -> Sender]
      /\ UNCHANGED <<preference, delivery, emailRow, mails, unheard>>
      /\ noticeRow' \in {noticeRow, IF noticeRow = "NONE" THEN "FAILED" ELSE noticeRow}
  BY DEF NotifyFailed, At, Sent, Outcome, DeliveryInv, DeliveryShape, WorkersKnow
<1>2. PICK q : q = [sender[s] EXCEPT !.step = "FAILED"]
  OBVIOUS
<1>3. q \in Sender /\ sender' = [sender EXCEPT ![s] = q] /\ q.step = "FAILED" /\ q.accepted = sender[s].accepted
  BY <1>1, <1>2 DEF Sender, NotifyFailed, Go
<1>4. Knows(s, q)' /\ DeliveryShape' /\ OutcomeKept' /\ delivery'.status # "NONE"
  BY <1>1, <1>3 DEF Knows, DeliveryShape, OutcomeKept
<1> QED
  BY <1>1, <1>3, <1>4, WorkerMoves

\* The code tells whether the customer got the mail.
LEMMA MarkFailedKeeps ==
  ASSUME DeliveryInv, NEW s \in Senders, MarkFailed(s)
  PROVE  DeliveryInv'
<1> USE DEF Working, Sending, Taken, Catching
<1>1. /\ sender[s].step = "FAILED" /\ Knows(s, sender[s])
      /\ OutcomeKept /\ DeliveryShape /\ sender \in [Senders -> Sender]
      /\ UNCHANGED <<preference, noticeRow, emailRow, mails, unheard>>
      /\ delivery' = [delivery EXCEPT !.status = "FAILED",
           !.code = IF sender[s].accepted THEN "IN_APP_OUTCOME_FAILED" ELSE "PROVIDER_FAILED"]
  BY DEF MarkFailed, At, Sent, FailedRow, DeliveryInv, DeliveryShape, WorkersKnow
<1>2. PICK q : q = AtRest
  OBVIOUS
<1>3. q \in Sender /\ sender' = [sender EXCEPT ![s] = q] /\ q.step = "IDLE" /\ ~q.accepted
  BY <1>2 DEF Sender, AtRest, MarkFailed
<1>4. Knows(s, q)' /\ DeliveryShape' /\ OutcomeKept' /\ delivery'.status # "NONE"
  BY <1>1, <1>3 DEF Knows, DeliveryShape, OutcomeKept
<1> QED
  BY <1>1, <1>3, <1>4, WorkerMoves

\* Who comes to rest without a word, or has read no more than the preference, holds
\* nothing the others rely on.
LEMMA RestsKeep ==
  ASSUME DeliveryInv, NEW s \in Senders, NEW q \in Sender, sender' = [sender EXCEPT ![s] = q],
         q.step \in {"IDLE", "READ"}, ~q.accepted,
         UNCHANGED <<delivery, emailRow, noticeRow, mails, unheard>>, DeliveryShape'
  PROVE  DeliveryInv'
<1> USE DEF Working, Sending, Taken, Catching
<1>1. \A t \in Senders : sender'[t] = IF t = s THEN q ELSE sender[t]
  BY DEF DeliveryInv, DeliveryShape
<1>2. WorkersKnow'
  <2> SUFFICES ASSUME NEW t \in Senders, NEW r, r = sender'[t] PROVE Knows(t, r)'
    BY DEF WorkersKnow
  <2>1. CASE t = s
    BY <1>1, <2>1 DEF Knows
  <2>2. CASE t # s
    BY <1>1, <2>2 DEF Knows, DeliveryInv, WorkersKnow
  <2> QED
    BY <2>1, <2>2
<1>3. Untouched'
  BY <1>1 DEF DeliveryInv, Untouched
<1>4. OutcomeKept'
  BY DEF DeliveryInv, OutcomeKept
<1> QED
  BY <1>2, <1>3, <1>4 DEF DeliveryInv

LEMMA DeliveryInvNext == DeliveryInv /\ [DeliveryNext]_deliveryVars => DeliveryInv'
<1> SUFFICES ASSUME DeliveryInv, [DeliveryNext]_deliveryVars PROVE DeliveryInv'
  OBVIOUS
<1>1. CASE UNCHANGED deliveryVars
  BY <1>1 DEF deliveryVars, DeliveryInv, DeliveryShape, Untouched, WorkersKnow, Knows, OutcomeKept
<1>2. CASE (\E consent \in BOOLEAN : RecordEmailPreference(consent)) \/ RevokeInvoiceShareLink
  <2>1. UNCHANGED <<delivery, emailRow, noticeRow, sender, mails, unheard>>
    BY <1>2 DEF RecordEmailPreference, RevokeInvoiceShareLink, Rows, Sent
  <2>2. preference' \in [number : Nat, consent : BOOLEAN]
    BY <1>2 DEF RecordEmailPreference, RevokeInvoiceShareLink, DeliveryInv, DeliveryShape
  <2> QED
    BY <2>1, <2>2 DEF DeliveryInv, DeliveryShape, Untouched, WorkersKnow, Knows, OutcomeKept
<1>3. ASSUME NEW s \in Senders, Prepare(s) \/ SenderDies(s) PROVE DeliveryInv'
  <2>1. PICK q : /\ sender' = [sender EXCEPT ![s] = q]
                 /\ q \in {AtRest, [AtRest EXCEPT !.step = "READ", !.preference = preference.number]}
    BY <1>3 DEF Prepare, SenderDies
  <2>2. q \in Sender /\ q.step \in {"IDLE", "READ"} /\ ~q.accepted
    <3>1. preference.number \in Nat
      BY DEF DeliveryInv, DeliveryShape
    <3>2. CASE q = AtRest
      BY <3>2 DEF AtRest, Sender
    <3>3. CASE q = [AtRest EXCEPT !.step = "READ", !.preference = preference.number]
      BY <3>1, <3>3 DEF AtRest, Sender
    <3> QED
      BY <2>1, <3>2, <3>3
  <2>3. UNCHANGED <<preference, delivery, emailRow, noticeRow, mails, unheard>>
    BY <1>3 DEF Prepare, SenderDies, Rows, Sent
  <2>4. DeliveryShape'
    BY <2>1, <2>2, <2>3 DEF DeliveryInv, DeliveryShape
  <2> QED
    BY <2>1, <2>2, <2>3, <2>4, RestsKeep
<1>4. ASSUME NEW s \in Senders, SenderStep(s) PROVE DeliveryInv'
  BY <1>4, ClaimKeeps, ShareKeeps, MailKeeps, PersistKeeps, NotifySentKeeps, MarkSentKeeps, AuditKeeps,
     NotifyFailedKeeps, MarkFailedKeeps DEF SenderStep
<1> QED
  BY <1>1, <1>2, <1>3, <1>4 DEF DeliveryNext

\* One customer, one message under a key - and one more for every answer the provider
\* lost - and what the request, its notifications and the provider say agrees, for any
\* number of requests, attempts and faults (finance-document-delivery.ts).
THEOREM DeliveryAlwaysSound == DeliverySpec => []DeliverySound
<1>1. DeliveryInv => DeliverySound
  BY DEF DeliveryInv, DeliveryShape, Untouched, OutcomeKept, DeliverySound, MailedByOneClaim, DeliveryTellsTruth
<1> QED
  BY <1>1, DeliveryInvInit, DeliveryInvNext, PTL DEF DeliverySpec

----------------------------------------------------------------------------
(* Bank lines.                                                              *)

BankShape ==
  /\ line \in [BankLines -> [account : BankAccounts \cup {Nil}, day : Nat, amount : Int,
                             match : {"NONE", "FEE", "TRANSFER", "RECEIPT"}, other : BankLines \cup {Nil}]]
  /\ books \in [BankAccounts -> Int] /\ entries \in [BankLines -> Nat]
  /\ statement = [x \in BankAccounts \X Days |-> statement[x]]
  /\ cashier = [c \in Cashiers |-> cashier[c]]

\* What is matched was imported.
MatchedThere == \A l \in BankLines : line[l].account = Nil => line[l].match = "NONE"

\* What a request to match has read and nobody changes: whose line it is, and how much.
AskedFor(r) ==
  /\ r.task \in {"FEE", "RECEIPT"} => \E l \in Imported : r.of = {l}
  /\ r.task = "TRANSFER" =>
       \E l, m \in Imported : /\ r.of = {l, m} /\ line[l].account # line[m].account
                              /\ line[l].amount + line[m].amount = 0

\* A worksheet's figures are those of the lines there were.
Within(w) == {l \in w.present : line[l].day <= w.day}
Figured(w) ==
  /\ w = [task |-> w.task, of |-> w.of, day |-> w.day, closing |-> w.closing, total |-> w.total,
          unreviewed |-> w.unreviewed, difference |-> w.difference, status |-> w.status, present |-> w.present]
  /\ w.present \subseteq LinesOf(w.of) /\ w.closing \in Int
  /\ w.total = Cardinality(Within(w)) /\ w.difference = Total(Within(w)) - w.closing
  /\ w.unreviewed = 0 => \A l \in Within(w) : line[l].match # "NONE"
  /\ w.status \in {"PREPARED", "APPROVED"} /\ (w.status = "APPROVED" => Balanced(w))

RequestsAsk ==
  \A c \in Cashiers : cashier[c] # Nil =>
    /\ cashier[c].task \in {"FEE", "TRANSFER", "RECEIPT", "WORKSHEET"}
    /\ AskedFor(cashier[c])
    /\ cashier[c].task = "WORKSHEET" => Figured(cashier[c])

StatementsFigured ==
  \A a \in BankAccounts, d \in Days : statement[a, d] # Nil =>
    /\ statement[a, d].of = a /\ statement[a, d].day = d /\ Figured(statement[a, d])

BankInv == BankShape /\ MatchedThere /\ RequestsAsk /\ StatementsFigured /\ MatchedOnce /\ BooksFollowStatements

AmountOf == [l \in BankLines |-> line[l].amount]

LEMMA TotalIs ==
  ASSUME BankShape, NEW ls \in SUBSET BankLines
  PROVE  Total(ls) = SumOf(AmountOf, ls) /\ Total(ls) \in Int /\ IsFiniteSet(ls)
<1> DEFINE w == [l \in ls |-> line[l].amount]
<1>1. IsFiniteSet(ls)
  BY FS_Subset, BankingConstants
<1>2. Total(ls) = SumOf(w, ls)
  BY <1>1, SumFunctionIs DEF Total
<1>3. \A l \in ls : w[l] = AmountOf[l] /\ w[l] \in Int
  BY DEF AmountOf, BankShape
<1> HIDE DEF w
<1>4. SumOf(w, ls) = SumOf(AmountOf, ls)
  BY <1>1, <1>3, SumSame
<1>5. SumOf(w, ls) \in Int
  BY <1>1, <1>3, SumType
<1> QED
  BY <1>1, <1>2, <1>4, <1>5

LEMMA TotalAfter ==
  ASSUME BankShape', NEW ls \in SUBSET BankLines
  PROVE  Total(ls)' = SumOf(AmountOf', ls)
<1> DEFINE w == [l \in ls |-> line'[l].amount]
<1>1. IsFiniteSet(ls)
  BY FS_Subset, BankingConstants
<1>2. Total(ls)' = SumOf(w, ls)
  <2>1. Total(ls)' = SumFunction(w)
    BY DEF Total
  <2> QED
    BY <1>1, <2>1, SumFunctionIs
<1>3. \A l \in ls : w[l] = AmountOf'[l]
  BY DEF AmountOf
<1> HIDE DEF w
<1> QED
  BY <1>1, <1>2, <1>3, SumSame

\* A line that was imported stays as it is but for its match, and a matched one
\* altogether.
Kept ==
  \A l \in BankLines :
    /\ line[l].account # Nil =>
         line'[l].account = line[l].account /\ line'[l].day = line[l].day /\ line'[l].amount = line[l].amount
    /\ line[l].match # "NONE" => line'[l] = line[l]

LEMMA FiguresKept ==
  ASSUME BankShape, Kept, NEW w, Figured(w)
  PROVE  Figured(w)'
<1>1. /\ w.present \subseteq BankLines /\ \A l \in w.present : line[l].account = w.of /\ line[l].account # Nil
  BY DEF Figured, LinesOf, Imported
<1>2. \A l \in w.present : line'[l].account = w.of /\ line'[l].account # Nil
                           /\ line'[l].day = line[l].day /\ line'[l].amount = line[l].amount
  BY <1>1 DEF Kept
<1>3. Within(w)' = Within(w)
  BY <1>2 DEF Within
<1>4. Total(Within(w))' = Total(Within(w))
  <2>1. [l \in Within(w) |-> line'[l].amount] = [l \in Within(w) |-> line[l].amount]
    BY <1>2 DEF Within
  <2> QED
    BY <2>1, <1>3 DEF Total
<1>5. w.present \subseteq LinesOf(w.of)'
  BY <1>1, <1>2 DEF LinesOf, Imported
<1>6. \A l \in Within(w) : line[l].match # "NONE" => line'[l].match # "NONE"
  BY <1>1 DEF Kept, Within
<1> QED
  BY <1>3, <1>4, <1>5, <1>6 DEF Figured, Balanced

LEMMA AskedKept ==
  ASSUME BankShape, Kept, NEW r, AskedFor(r)
  PROVE  AskedFor(r)'
<1>1. \A l \in Imported : /\ l \in BankLines /\ l \in Imported' /\ line'[l].account = line[l].account
                          /\ line'[l].amount = line[l].amount
  BY DEF Imported, Kept
<1> QED
  BY <1>1 DEF AskedFor

\* Whoever had a request under way has the same one or none: what it tells stays true.
LEMMA RequestsKept ==
  ASSUME BankInv, Kept, (\E c \in Cashiers : cashier' = [cashier EXCEPT ![c] = Nil]) \/ cashier' = cashier
  PROVE  RequestsAsk'
<1> SUFFICES ASSUME NEW d \in Cashiers, NEW r, r = cashier'[d], r # Nil
             PROVE  /\ r.task \in {"FEE", "TRANSFER", "RECEIPT", "WORKSHEET"} /\ AskedFor(r)'
                    /\ r.task = "WORKSHEET" => Figured(r)'
  BY DEF RequestsAsk
<1>1. r = cashier[d]
  BY DEF BankInv, BankShape
<1>2. BankShape /\ r.task \in {"FEE", "TRANSFER", "RECEIPT", "WORKSHEET"} /\ AskedFor(r) /\ (r.task = "WORKSHEET" => Figured(r))
  BY <1>1 DEF BankInv, RequestsAsk
<1>3. AskedFor(r)'
  BY <1>2, AskedKept
<1>4. r.task = "WORKSHEET" => Figured(r)'
  BY <1>2, FiguresKept
<1> QED
  BY <1>2, <1>3, <1>4

LEMMA StatementAt ==
  ASSUME StatementsFigured, NEW a \in BankAccounts, NEW d \in Days, NEW w, w = statement[a, d], w # Nil
  PROVE  w.of = a /\ w.day = d /\ Figured(w)
BY DEF StatementsFigured

LEMMA StatementsKept ==
  ASSUME BankInv, Kept, statement' = statement
  PROVE  StatementsFigured'
<1> SUFFICES ASSUME NEW a \in BankAccounts, NEW d \in Days, NEW w, w = statement'[a, d], w # Nil
             PROVE  w.of = a /\ w.day = d /\ Figured(w)'
  BY DEF StatementsFigured
<1>1. BankShape /\ w.of = a /\ w.day = d /\ Figured(w)
  BY DEF BankInv, StatementsFigured
<1> QED
  BY <1>1, FiguresKept

LEMMA BankInvInit == BankInit => BankInv
<1> SUFFICES ASSUME BankInit PROVE BankInv
  OBVIOUS
<1>1. \A l \in BankLines : line[l] = AbsentLine
  BY DEF BankInit
<1>2. BankShape
  <2>1. AbsentLine \in [account : BankAccounts \cup {Nil}, day : Nat, amount : Int,
                         match : {"NONE", "FEE", "TRANSFER", "RECEIPT"}, other : BankLines \cup {Nil}]
    BY DEF AbsentLine
  <2>2. line = [l \in BankLines |-> AbsentLine]
    BY DEF BankInit
  <2>3. books \in [BankAccounts -> Int] /\ entries \in [BankLines -> Nat]
    BY DEF BankInit
  <2>4. statement = [x \in BankAccounts \X Days |-> statement[x]]
    BY DEF BankInit
  <2>5. cashier = [c \in Cashiers |-> cashier[c]]
    BY DEF BankInit
  <2> QED
    BY <2>1, <2>2, <2>3, <2>4, <2>5 DEF BankShape
<1>3. MatchedThere /\ RequestsAsk /\ StatementsFigured /\ MatchedOnce
  <2>1. \A l \in BankLines : line[l].match = "NONE"
    BY <1>1 DEF AbsentLine
  <2>2. MatchedThere /\ MatchedOnce
    BY <2>1 DEF BankInit, MatchedThere, MatchedOnce
  <2>3. RequestsAsk
    BY DEF BankInit, RequestsAsk
  <2>4. StatementsFigured
    BY DEF BankInit, StatementsFigured
  <2> QED
    BY <2>2, <2>3, <2>4
<1>4. BooksFollowStatements
  <2> SUFFICES ASSUME NEW a \in BankAccounts PROVE books[a] = Total(LinesOf(a) \ Unreviewed(LinesOf(a)))
    BY DEF BooksFollowStatements
  <2>1. LinesOf(a) \ Unreviewed(LinesOf(a)) = {} /\ {} \in SUBSET BankLines /\ books[a] = 0
    BY <1>1 DEF LinesOf, Imported, AbsentLine, BankInit
  <2> QED
    BY <2>1, <1>2, TotalIs, SumEmpty
<1> QED
  BY <1>2, <1>3, <1>4 DEF BankInv

\* A new line is not matched yet, and every list that names lines was made without it.
LEMMA ImportKeepsBank ==
  ASSUME BankInv, NEW l \in BankLines, NEW a \in BankAccounts, NEW d \in Days, NEW x \in Amounts,
         ImportLine(l, a, d, x)
  PROVE  BankInv'
<1>1. /\ line[l].account = Nil /\ line[l].match = "NONE" /\ a # Nil
      /\ UNCHANGED <<books, entries, statement, cashier>>
  BY BankingConstants DEF ImportLine, Imported, BankInv, MatchedThere
<1>2. PICK q : q = [AbsentLine EXCEPT !.account = a, !.day = d, !.amount = x]
  OBVIOUS
<1>3. q = [account |-> a, day |-> d, amount |-> x, match |-> "NONE", other |-> Nil]
  BY <1>2 DEF AbsentLine
<1>4. \A m \in BankLines : line'[m] = IF m = l THEN q ELSE line[m]
  BY <1>2 DEF ImportLine, BankInv, BankShape
<1>5. Kept
  BY <1>1, <1>4 DEF Kept
<1>6. BankShape'
  <2>1. d \in Nat /\ x \in Int
    BY BankingConstants
  <2>2. line' = [line EXCEPT ![l] = q]
    BY <1>2 DEF ImportLine
  <2> QED
    BY <1>1, <1>3, <2>1, <2>2 DEF BankInv, BankShape
<1>7. MatchedThere'
  BY <1>3, <1>4 DEF BankInv, MatchedThere
<1>8. MatchedOnce'
  <2>1. \A m \in BankLines : line'[m].match = line[m].match
    BY <1>1, <1>3, <1>4
  <2>2. \A m \in BankLines : line[m].match = "TRANSFER" =>
          m # l /\ line[m].other \in BankLines /\ line[m].other # l
    BY <1>1 DEF BankInv, MatchedOnce
  <2> QED
    BY <1>1, <1>4, <2>1, <2>2 DEF BankInv, MatchedOnce
<1>9. BooksFollowStatements'
  <2> SUFFICES ASSUME NEW b \in BankAccounts, RateToBase[b] = 1
               PROVE  books'[b] = Total(LinesOf(b) \ Unreviewed(LinesOf(b)))'
    BY DEF BooksFollowStatements
  <2> DEFINE S == LinesOf(b) \ Unreviewed(LinesOf(b))
  <2>1. S' = S /\ \A m \in S : line'[m].amount = line[m].amount
    BY <1>1, <1>3, <1>4 DEF LinesOf, Imported, Unreviewed
  <2>2. Total(S)' = Total(S)
    BY <2>1 DEF Total
  <2> QED
    BY <1>1, <2>2 DEF BankInv, BooksFollowStatements
<1>10. RequestsAsk'
  BY <1>1, <1>5, RequestsKept
<1>11. StatementsFigured'
  BY <1>1, <1>5, StatementsKept
<1> QED
  BY <1>6, <1>7, <1>8, <1>9, <1>10, <1>11 DEF BankInv

\* What is read under no lock is true when it is read.
LEMMA TakeKeepsBank ==
  ASSUME BankInv, NEW c \in Cashiers, NEW r, Take(c, r), AskedFor(r),
         r.task \in {"FEE", "TRANSFER", "RECEIPT", "WORKSHEET"}, r.task = "WORKSHEET" => Figured(r)
  PROVE  BankInv'
<1>1. UNCHANGED <<line, books, entries, statement>> /\ cashier' = [cashier EXCEPT ![c] = r]
  BY DEF Take
<1>2. BankShape' /\ MatchedThere' /\ MatchedOnce'
  BY <1>1 DEF BankInv, BankShape, MatchedThere, MatchedOnce
<1>3. BooksFollowStatements'
  BY <1>1 DEF BankInv, BooksFollowStatements, Total, LinesOf, Imported, Unreviewed
<1>4. Kept
  BY <1>1 DEF Kept
<1>5. RequestsAsk'
  <2> SUFFICES ASSUME NEW e \in Cashiers, NEW s, s = cashier'[e], s # Nil
               PROVE  /\ s.task \in {"FEE", "TRANSFER", "RECEIPT", "WORKSHEET"} /\ AskedFor(s)'
                      /\ s.task = "WORKSHEET" => Figured(s)'
    BY DEF RequestsAsk
  <2>1. s = IF e = c THEN r ELSE cashier[e]
    BY <1>1 DEF BankInv, BankShape
  <2>2. BankShape /\ s.task \in {"FEE", "TRANSFER", "RECEIPT", "WORKSHEET"} /\ AskedFor(s)
        /\ (s.task = "WORKSHEET" => Figured(s))
    BY <2>1 DEF BankInv, RequestsAsk
  <2>3. AskedFor(s)'
    BY <2>2, <1>4, AskedKept
  <2>4. s.task = "WORKSHEET" => Figured(s)'
    BY <2>2, <1>4, FiguresKept
  <2> QED
    BY <2>2, <2>3, <2>4
<1> QED
  BY <1>1, <1>2, <1>3, <1>4, <1>5, StatementsKept DEF BankInv

LEMMA WorksheetFigured ==
  ASSUME BankInv, NEW a \in BankAccounts, NEW d \in Days, NEW closing \in Closings, NEW w, w = Worksheet(a, d, closing)
  PROVE  Figured(w) /\ w.task = "WORKSHEET" /\ w.of = a /\ w.day = d
<1>1. /\ w.task = "WORKSHEET" /\ w.of = a /\ w.day = d /\ w.closing = closing /\ w.status = "PREPARED"
      /\ w.present = LinesOf(a) /\ w.total = Cardinality(Covered(a, d))
      /\ w.unreviewed = Cardinality(Unreviewed(Covered(a, d)))
      /\ w.difference = Total(Covered(a, d)) - closing
  BY DEF Worksheet
<1>2. Within(w) = Covered(a, d)
  BY <1>1 DEF Within, Covered
<1>3. w.unreviewed = 0 => \A l \in Within(w) : line[l].match # "NONE"
  <2>1. IsFiniteSet(Unreviewed(Covered(a, d)))
    BY BankingConstants, FS_Subset DEF Unreviewed, Covered, LinesOf, Imported
  <2>2. w.unreviewed = 0 => Unreviewed(Covered(a, d)) = {}
    BY <1>1, <2>1, FS_EmptySet
  <2> QED
    BY <1>2, <2>2 DEF Unreviewed
<1>4. closing \in Int
  BY BankingConstants
<1>5. w = [task |-> w.task, of |-> w.of, day |-> w.day, closing |-> w.closing, total |-> w.total,
           unreviewed |-> w.unreviewed, difference |-> w.difference, status |-> w.status, present |-> w.present]
  BY DEF Worksheet
<1>6. /\ w.present \subseteq LinesOf(w.of) /\ w.closing \in Int
      /\ w.total = Cardinality(Within(w)) /\ w.difference = Total(Within(w)) - w.closing
      /\ w.status \in {"PREPARED", "APPROVED"} /\ w.status # "APPROVED"
  BY <1>1, <1>2, <1>4
<1> QED
  BY <1>1, <1>3, <1>5, <1>6 DEF Figured

LEMMA AbandonKeepsBank ==
  ASSUME BankInv, NEW c \in Cashiers, Abandon(c)
  PROVE  BankInv'
<1>1. UNCHANGED <<line, books, entries, statement>> /\ cashier' = [cashier EXCEPT ![c] = Nil]
  BY DEF Abandon
<1>2. BankShape' /\ MatchedThere' /\ MatchedOnce'
  BY <1>1 DEF BankInv, BankShape, MatchedThere, MatchedOnce
<1>3. BooksFollowStatements'
  BY <1>1 DEF BankInv, BooksFollowStatements, Total, LinesOf, Imported, Unreviewed
<1>4. Kept
  BY <1>1 DEF Kept
<1> QED
  BY <1>1, <1>2, <1>3, <1>4, RequestsKept, StatementsKept DEF BankInv

\* A statement takes its worksheet's figures, or a balanced one is approved.
LEMMA StatementKeepsBank ==
  ASSUME BankInv, (\E c \in Cashiers : PrepareReconciliation(c)) \/
                  (\E a \in BankAccounts, d \in Days : ApproveReconciliation(a, d))
  PROVE  BankInv'
<1>1. UNCHANGED <<line, books, entries>>
  BY DEF PrepareReconciliation, ApproveReconciliation
<1>2. (\E c \in Cashiers : cashier' = [cashier EXCEPT ![c] = Nil]) \/ cashier' = cashier
  BY DEF PrepareReconciliation, ApproveReconciliation
<1>3. Kept /\ MatchedThere' /\ MatchedOnce'
  BY <1>1 DEF Kept, BankInv, MatchedThere, MatchedOnce
<1>4. BooksFollowStatements'
  BY <1>1 DEF BankInv, BooksFollowStatements, Total, LinesOf, Imported, Unreviewed
<1>5. RequestsAsk'
  BY <1>2, <1>3, RequestsKept
<1>6. \E x, w : statement' = [statement EXCEPT ![x] = w]
  <2>1. ASSUME NEW c \in Cashiers, PrepareReconciliation(c) PROVE \E x, w : statement' = [statement EXCEPT ![x] = w]
    BY <2>1 DEF PrepareReconciliation
  <2>2. ASSUME NEW a \in BankAccounts, NEW d \in Days, ApproveReconciliation(a, d)
        PROVE  \E x, w : statement' = [statement EXCEPT ![x] = w]
    <3>1. PICK w : w = [statement[<<a, d>>] EXCEPT !.status = "APPROVED"]
      OBVIOUS
    <3>2. statement' = [statement EXCEPT ![<<a, d>>] = w]
      BY <2>2, <3>1 DEF ApproveReconciliation
    <3> QED
      BY <3>2
  <2> QED
    BY <2>1, <2>2
<1>7. BankShape'
  BY <1>1, <1>2, <1>6 DEF BankInv, BankShape
<1>8. StatementsFigured'
  <2> SUFFICES ASSUME NEW a \in BankAccounts, NEW d \in Days, NEW v, v = statement'[a, d], v # Nil
               PROVE  v.of = a /\ v.day = d /\ Figured(v)'
    BY DEF StatementsFigured
  <2>1. v.of = a /\ v.day = d /\ Figured(v)
    <3>1. CASE v = statement[a, d]
      BY <3>1, StatementAt DEF BankInv
    <3>2. ASSUME NEW c \in Cashiers, PrepareReconciliation(c), v # statement[a, d]
          PROVE  v.of = a /\ v.day = d /\ Figured(v)
      <4>1. PICK w : w = cashier[c]
        OBVIOUS
      <4>2. w # Nil /\ w.task = "WORKSHEET" /\ statement' = [statement EXCEPT ![<<w.of, w.day>>] = w]
        BY <3>2, <4>1 DEF PrepareReconciliation
      <4>3. Figured(w)
        BY <4>1, <4>2 DEF BankInv, RequestsAsk
      <4>4. v = w /\ <<a, d>> = <<w.of, w.day>>
        BY <3>2, <4>2 DEF BankInv, BankShape
      <4> QED
        BY <4>3, <4>4
    <3>3. ASSUME NEW b \in BankAccounts, NEW e \in Days, ApproveReconciliation(b, e), v # statement[a, d]
          PROVE  v.of = a /\ v.day = d /\ Figured(v)
      <4>1. PICK w : w = statement[b, e]
        OBVIOUS
      <4>2. w # Nil /\ Balanced(w) /\ statement' = [statement EXCEPT ![<<b, e>>].status = "APPROVED"]
        BY <3>3, <4>1 DEF ApproveReconciliation
      <4>3. w.of = b /\ w.day = e /\ Figured(w)
        BY <4>1, <4>2 DEF BankInv, StatementsFigured
      <4>4. v = [w EXCEPT !.status = "APPROVED"] /\ a = b /\ d = e
        BY <3>3, <4>1, <4>2 DEF BankInv, BankShape
      <4>5. w = [task |-> w.task, of |-> w.of, day |-> w.day, closing |-> w.closing, total |-> w.total,
                 unreviewed |-> w.unreviewed, difference |-> w.difference, status |-> w.status,
                 present |-> w.present]
        BY <4>3 DEF Figured
      <4>6. v = [task |-> w.task, of |-> w.of, day |-> w.day, closing |-> w.closing, total |-> w.total,
                 unreviewed |-> w.unreviewed, difference |-> w.difference, status |-> "APPROVED",
                 present |-> w.present]
        BY <4>4, <4>5
      <4>7. Within(v) = Within(w)
        BY <4>6 DEF Within
      <4> QED
        BY <4>2, <4>3, <4>4, <4>6, <4>7 DEF Figured, Balanced
    <3> QED
      BY <3>1, <3>2, <3>3
  <2> QED
    BY <1>3, <2>1, FiguresKept DEF BankInv
<1> QED
  BY <1>3, <1>4, <1>5, <1>7, <1>8 DEF BankInv

\* The condition of the update lets one of the requests that read a line unmatched
\* through, with both lines of a transfer or neither.
LEMMA CommitKeepsBank ==
  ASSUME BankInv, NEW c \in Cashiers, CommitMatch(c)
  PROVE  BankInv'
<1>1. PICK r : r = cashier[c]
  OBVIOUS
<1> DEFINE partner(l) == IF r.of = {l} THEN Nil ELSE CHOOSE m \in r.of : m # l
<1>2. /\ r.task \in {"FEE", "TRANSFER", "RECEIPT"} /\ AskedFor(r)
      /\ r.of \subseteq Imported /\ \A l \in r.of : line[l].match = "NONE"
      /\ statement' = statement /\ cashier' = [cashier EXCEPT ![c] = Nil]
  <2>1. /\ r # Nil /\ r.task \in {"FEE", "TRANSFER", "RECEIPT"} /\ r.of = Unreviewed(r.of)
        /\ statement' = statement /\ cashier' = [cashier EXCEPT ![c] = Nil]
    BY <1>1 DEF CommitMatch, Matching, StillUnreviewed
  <2>2. AskedFor(r)
    BY <1>1, <2>1 DEF BankInv, RequestsAsk
  <2>3. r.of \subseteq Imported
    BY <2>1, <2>2 DEF AskedFor
  <2> QED
    BY <2>1, <2>2, <2>3 DEF Unreviewed
<1>3. r.of \subseteq BankLines /\ \A l \in r.of : line[l].account # Nil
  BY <1>2 DEF Imported
<1>4. /\ \A l \in r.of : line'[l] = [line[l] EXCEPT !.match = r.task, !.other = partner(l)]
      /\ \A l \in BankLines \ r.of : line'[l] = line[l]
      /\ line' = [l \in BankLines |-> line'[l]]
  BY <1>1, <1>3 DEF CommitMatch
<1>5. \A l \in r.of : partner(l) \in BankLines \cup {Nil}
  BY <1>3
<1>6. ASSUME NEW l \in r.of
      PROVE  /\ line'[l] \in [account : BankAccounts \cup {Nil}, day : Nat, amount : Int,
                              match : {"NONE", "FEE", "TRANSFER", "RECEIPT"}, other : BankLines \cup {Nil}]
             /\ line'[l].account = line[l].account /\ line'[l].day = line[l].day
             /\ line'[l].amount = line[l].amount /\ line'[l].match = r.task /\ line'[l].other = partner(l)
  <2> HIDE DEF partner
  <2>1. line[l] \in [account : BankAccounts \cup {Nil}, day : Nat, amount : Int,
                     match : {"NONE", "FEE", "TRANSFER", "RECEIPT"}, other : BankLines \cup {Nil}]
    BY <1>3 DEF BankInv, BankShape
  <2>2. PICK q : q = [line[l] EXCEPT !.match = r.task]
    OBVIOUS
  <2>3. line'[l] = [q EXCEPT !.other = partner(l)]
    BY <1>4, <2>2
  <2>4. /\ q \in [account : BankAccounts \cup {Nil}, day : Nat, amount : Int,
                   match : {"NONE", "FEE", "TRANSFER", "RECEIPT"}, other : BankLines \cup {Nil}]
        /\ q.account = line[l].account /\ q.day = line[l].day /\ q.amount = line[l].amount /\ q.match = r.task
    BY <1>2, <2>1, <2>2
  <2>5. partner(l) \in BankLines \cup {Nil}
    BY <1>5
  <2> QED
    BY <2>3, <2>4, <2>5
<1>7. \A l \in BankLines : entries'[l] = entries[l] + (IF l \in r.of THEN 1 ELSE 0)
  BY <1>1 DEF CommitMatch
<1> HIDE DEF partner
<1>8. Kept
  BY <1>2, <1>4, <1>6 DEF Kept
<1>9. BankShape'
  <2>1. \A l \in BankLines :
          line'[l] \in [account : BankAccounts \cup {Nil}, day : Nat, amount : Int,
                        match : {"NONE", "FEE", "TRANSFER", "RECEIPT"}, other : BankLines \cup {Nil}]
    BY <1>4, <1>6 DEF BankInv, BankShape
  <2>2. entries' \in [BankLines -> Nat]
    <3>1. \A l \in BankLines : entries[l] \in Nat
      BY DEF BankInv, BankShape
    <3>2. entries' = [l \in BankLines |-> entries[l] + IF l \in r.of THEN 1 ELSE 0]
      BY <1>1 DEF CommitMatch
    <3> QED
      BY <3>1, <3>2
  <2>3. books' \in [BankAccounts -> Int]
    <3> DEFINE P(a) == r.of \cap LinesOf(a)
               w(a) == [l \in P(a) |-> Booked(r.task, l)]
    <3>1. books' = [a \in BankAccounts |-> books[a] + SumFunction(w(a))]
      BY <1>1 DEF CommitMatch
    <3>2. ASSUME NEW a \in BankAccounts PROVE SumFunction(w(a)) \in Int
      <4>1. IsFiniteSet(P(a))
        BY <1>3, FS_Subset, BankingConstants
      <4>2. \A l \in P(a) : line[l].account = a /\ line[l].amount \in Int
        BY <1>3 DEF LinesOf, BankInv, BankShape
      <4>3. RateToBase[a] \in Int
        BY BankingConstants
      <4>4. \A l \in P(a) : Booked(r.task, l) \in Int
        BY <4>2, <4>3 DEF Booked
      <4>5. \A l \in P(a) : w(a)[l] \in Int
        BY <4>4
      <4>6. DOMAIN w(a) = P(a)
        OBVIOUS
      <4> HIDE DEF P, w
      <4> QED
        BY <4>1, <4>5, <4>6, SumFunctionIs, SumType
    <3>3. \A a \in BankAccounts : books[a] \in Int
      BY DEF BankInv, BankShape
    <3> HIDE DEF w
    <3> QED
      BY <3>1, <3>2, <3>3
  <2>4. statement' = [x \in BankAccounts \X Days |-> statement'[x]] /\ cashier' = [d \in Cashiers |-> cashier'[d]]
    BY <1>2 DEF BankInv, BankShape
  <2> QED
    BY <1>4, <2>1, <2>2, <2>3, <2>4 DEF BankShape
<1>10. MatchedThere'
  <2> SUFFICES ASSUME NEW l \in BankLines, line'[l].account = Nil PROVE line'[l].match = "NONE"
    BY DEF MatchedThere
  <2>1. l \notin r.of
    BY <1>3, <1>6
  <2> QED
    BY <1>4, <2>1 DEF BankInv, MatchedThere
<1>11. RequestsAsk' /\ StatementsFigured'
  BY <1>2, <1>8, RequestsKept, StatementsKept
<1>12. MatchedOnce'
  <2>1. \A l \in BankLines : entries'[l] = IF line'[l].match = "NONE" THEN 0 ELSE 1
    <3> SUFFICES ASSUME NEW l \in BankLines PROVE entries'[l] = IF line'[l].match = "NONE" THEN 0 ELSE 1
      OBVIOUS
    <3>1. entries[l] = (IF line[l].match = "NONE" THEN 0 ELSE 1) /\ entries[l] \in Nat
      BY DEF BankInv, BankShape, MatchedOnce
    <3>2. CASE l \in r.of
      BY <1>2, <1>6, <1>7, <3>1, <3>2
    <3>3. CASE l \notin r.of
      <4>1. entries'[l] = entries[l] + 0 /\ line'[l] = line[l]
        BY <1>4, <1>7, <3>3
      <4> QED
        BY <3>1, <4>1
    <3> QED
      BY <3>2, <3>3
  <2>2. ASSUME NEW l \in BankLines, line'[l].match = "TRANSFER", NEW m, m = line'[l].other
        PROVE  /\ m \in BankLines /\ line'[m].match = "TRANSFER" /\ line'[m].other = l
               /\ line'[l].amount + line'[m].amount = 0 /\ line'[l].account # line'[m].account
    <3>1. CASE l \in r.of
      <4>1. r.task = "TRANSFER" /\ m = partner(l)
        BY <1>6, <2>2, <3>1
      <4>2. PICK x \in Imported, y \in Imported :
              r.of = {x, y} /\ line[x].account # line[y].account /\ line[x].amount + line[y].amount = 0
        BY <1>2, <4>1 DEF AskedFor
      <4>3. x # y /\ partner(x) = y /\ partner(y) = x
        BY <4>2 DEF partner
      <4>4. x \in BankLines /\ y \in BankLines /\ line[x].amount \in Int /\ line[y].amount \in Int
        BY <4>2 DEF Imported, BankInv, BankShape
      <4>5. (l = x /\ m = y) \/ (l = y /\ m = x)
        BY <3>1, <4>1, <4>2, <4>3
      <4>6. /\ line'[x].account = line[x].account /\ line'[x].amount = line[x].amount
            /\ line'[x].match = "TRANSFER" /\ line'[x].other = y
        BY <1>6, <4>1, <4>2, <4>3
      <4>7. /\ line'[y].account = line[y].account /\ line'[y].amount = line[y].amount
            /\ line'[y].match = "TRANSFER" /\ line'[y].other = x
        BY <1>6, <4>1, <4>2, <4>3
      <4> QED
        BY <4>2, <4>4, <4>5, <4>6, <4>7
    <3>2. CASE l \notin r.of
      <4>1. line'[l] = line[l]
        BY <1>4, <3>2
      <4>2. /\ m \in BankLines /\ line[m].match = "TRANSFER" /\ line[m].other = l
            /\ line[l].amount + line[m].amount = 0 /\ line[l].account # line[m].account
        BY <2>2, <4>1 DEF BankInv, MatchedOnce
      <4>3. line'[m] = line[m]
        BY <1>2, <1>4, <4>2
      <4> QED
        BY <4>1, <4>2, <4>3
    <3> QED
      BY <3>1, <3>2
  <2> QED
    BY <2>1, <2>2 DEF MatchedOnce
<1>13. BooksFollowStatements'
  <2> SUFFICES ASSUME NEW a \in BankAccounts, RateToBase[a] = 1
               PROVE  books'[a] = Total(LinesOf(a) \ Unreviewed(LinesOf(a)))'
    BY DEF BooksFollowStatements
  <2> DEFINE S == LinesOf(a) \ Unreviewed(LinesOf(a))
             P == r.of \cap LinesOf(a)
             w == [l \in P |-> Booked(r.task, l)]
  <2>1. books'[a] = Total(S) + SumFunction(w)
    BY <1>1 DEF CommitMatch, BankInv, BooksFollowStatements
  <2>2. S \subseteq BankLines /\ P \subseteq BankLines /\ S \cap P = {} /\ IsFiniteSet(S) /\ IsFiniteSet(P)
    BY <1>2, FS_Subset, BankingConstants DEF LinesOf, Imported, Unreviewed
  <2>3. \A l \in P : AmountOf[l] \in Int /\ Booked(r.task, l) = AmountOf[l]
    <3> SUFFICES ASSUME NEW l \in P PROVE AmountOf[l] \in Int /\ Booked(r.task, l) = AmountOf[l]
      OBVIOUS
    <3>1. l \in BankLines /\ line[l].account = a /\ AmountOf[l] = line[l].amount /\ line[l].amount \in Int
      BY <1>3 DEF LinesOf, AmountOf, BankInv, BankShape
    <3>2. (IF r.task = "RECEIPT" THEN RateToBase[line[l].account] ELSE 1) = 1
      BY <3>1
    <3> QED
      BY <3>1, <3>2 DEF Booked
  <2>4. SumFunction(w) = SumOf(AmountOf, P)
    <3>1. DOMAIN w = P /\ \A l \in P : w[l] = AmountOf[l]
      BY <2>3
    <3> HIDE DEF w
    <3> QED
      BY <2>2, <3>1, SumFunctionIs, SumSame
  <2>5. Total(S) = SumOf(AmountOf, S)
    BY <2>2, TotalIs DEF BankInv
  <2>6. \A l \in BankLines : AmountOf[l] \in Int
    BY DEF AmountOf, BankInv, BankShape
  <2>7. S' = S \cup P
    <3>1. \A l \in BankLines : line'[l].account = line[l].account
      BY <1>4, <1>6
    <3>2. \A l \in BankLines : line'[l].match = IF l \in r.of THEN r.task ELSE line[l].match
      BY <1>4, <1>6
    <3> QED
      BY <1>2, <3>1, <3>2 DEF LinesOf, Imported, Unreviewed
  <2>8. AmountOf' = AmountOf
    BY <1>4, <1>6 DEF AmountOf
  <2>9. Total(S)' = SumOf(AmountOf, S \cup P)
    <3>1. PICK U : U = S \cup P
      OBVIOUS
    <3>2. Total(U)' = SumOf(AmountOf', U)
      BY <1>9, <2>2, <3>1, TotalAfter
    <3>3. Total(S)' = Total(U)'
      BY <2>7, <3>1 DEF Total
    <3> QED
      BY <2>8, <3>1, <3>2, <3>3
  <2>10. SumOf(AmountOf, S \cup P) = Total(S) + SumFunction(w)
    <3> HIDE DEF S, P, w
    <3> QED
      BY <2>2, <2>4, <2>5, <2>6, SumApart
  <2> QED
    BY <2>1, <2>9, <2>10
<1> QED
  BY <1>9, <1>10, <1>11, <1>12, <1>13 DEF BankInv

LEMMA BankInvNext == BankInv /\ [BankNext]_bankVars => BankInv'
<1> SUFFICES ASSUME BankInv, [BankNext]_bankVars PROVE BankInv'
  OBVIOUS
<1>1. CASE UNCHANGED bankVars
  <2>1. UNCHANGED <<line, books, entries, statement, cashier>>
    BY <1>1 DEF bankVars
  <2>2. Kept
    BY <2>1 DEF Kept
  <2>3. BankShape' /\ MatchedThere' /\ MatchedOnce'
    BY <2>1 DEF BankInv, BankShape, MatchedThere, MatchedOnce
  <2>4. BooksFollowStatements'
    BY <2>1 DEF BankInv, BooksFollowStatements, Total, LinesOf, Imported, Unreviewed
  <2> QED
    BY <2>1, <2>2, <2>3, <2>4, RequestsKept, StatementsKept DEF BankInv
<1>2. ASSUME NEW l \in BankLines, NEW a \in BankAccounts, NEW d \in Days, NEW x \in Amounts, ImportLine(l, a, d, x)
      PROVE  BankInv'
  BY <1>2, ImportKeepsBank
<1>3. ASSUME NEW c \in Cashiers, NEW l \in BankLines, ReadForFee(c, l) \/ ReadForReceipt(c, l) PROVE BankInv'
  <2>1. PICK r : /\ r \in {[task |-> "FEE", of |-> {l}], [task |-> "RECEIPT", of |-> {l}]} /\ Take(c, r)
                 /\ l \in Imported
    BY <1>3 DEF ReadForFee, ReadForReceipt, MayPostFee, MayMatchReceipt, Unreviewed
  <2>2. r.task \in {"FEE", "RECEIPT"} /\ r.of = {l}
    BY <2>1
  <2>3. AskedFor(r)
    BY <2>1, <2>2 DEF AskedFor
  <2> QED
    BY <2>1, <2>2, <2>3, TakeKeepsBank
<1>4. ASSUME NEW c \in Cashiers, NEW l \in BankLines, NEW m \in BankLines, ReadForTransfer(c, l, m) PROVE BankInv'
  <2>1. PICK r : r = [task |-> "TRANSFER", of |-> {l, m}]
    OBVIOUS
  <2>2. Take(c, r) /\ l \in Imported /\ m \in Imported /\ line[l].account # line[m].account
        /\ line[l].amount + line[m].amount = 0
    BY <1>4, <2>1 DEF ReadForTransfer, MayTransfer, Unreviewed
  <2>3. AskedFor(r) /\ r.task = "TRANSFER"
    BY <2>1, <2>2 DEF AskedFor
  <2> QED
    BY <2>2, <2>3, TakeKeepsBank
<1>5. ASSUME NEW c \in Cashiers, CommitMatch(c) \/ Abandon(c) \/ PrepareReconciliation(c) PROVE BankInv'
  BY <1>5, CommitKeepsBank, AbandonKeepsBank, StatementKeepsBank
<1>6. ASSUME NEW a \in BankAccounts, NEW d \in Days, ApproveReconciliation(a, d) PROVE BankInv'
  BY <1>6, StatementKeepsBank
<1>7. ASSUME NEW a \in BankAccounts, NEW d \in Days, NEW c \in Cashiers, NEW closing \in Closings,
             ReadWorksheet(c, a, d, closing)
      PROVE  BankInv'
  <2>1. PICK w : w = Worksheet(a, d, closing)
    OBVIOUS
  <2>2. Take(c, w) /\ Figured(w) /\ w.task = "WORKSHEET"
    BY <1>7, <2>1, WorksheetFigured DEF ReadWorksheet
  <2> QED
    BY <2>2, TakeKeepsBank DEF AskedFor
<1> QED
  BY <1>1, <1>2, <1>3, <1>4, <1>5, <1>6, <1>7 DEF BankNext

LEMMA NothingBetween == \A t, n \in Int : t - n = 0 => t = n
OBVIOUS

LEMMA BankInvSound == BankInv => BankingSound
<1> SUFFICES ASSUME BankInv PROVE BankingSound
  OBVIOUS
<1>1. OffersAccepted
  <2> SUFFICES ASSUME NEW l \in BankLines, NEW m \in TransferCandidates(l) PROVE MayTransfer(l, m)
    BY DEF OffersAccepted
  <2>1. /\ l \in Unreviewed(Imported) /\ m \in Unreviewed(Imported) /\ line[m].account # line[l].account
        /\ RateToBase[line[m].account] = RateToBase[line[l].account] /\ line[m].amount = -line[l].amount
    BY DEF TransferCandidates
  <2>2. line[l].amount \in Int
    BY DEF BankInv, BankShape
  <2> QED
    BY <2>1, <2>2 DEF MayTransfer
<1>2. ApprovedIsComplete
  <2> SUFFICES ASSUME NEW a \in BankAccounts, NEW d \in Days,
                      statement[a, d] # Nil, Report(a, d).figures.status = "APPROVED"
               PROVE  /\ \A l \in {k \in Report(a, d).figures.present : line[k].day <= d} :
                           l \in DOMAIN Report(a, d).matched /\ Report(a, d).matched[l]
                      /\ Cardinality({k \in Report(a, d).figures.present : line[k].day <= d})
                           = Report(a, d).figures.total
                      /\ Total({k \in Report(a, d).figures.present : line[k].day <= d})
                           = Report(a, d).figures.closing
    BY Zenon DEF ApprovedIsComplete
  <2> PICK r : r = Report(a, d)
    OBVIOUS
  <2> PICK ls : ls = {k \in r.figures.present : line[k].day <= d}
    OBVIOUS
  <2> PICK w : w = statement[a, d]
    OBVIOUS
  <2>0. /\ w # Nil /\ w = r.figures /\ ls = {l \in w.present : line[l].day <= d}
        /\ DOMAIN r.matched = Covered(a, d)
        /\ \A l \in Covered(a, d) : r.matched[l] = (line[l].match # "NONE")
    BY DEF Report
  <2>1. w.of = a /\ w.day = d /\ Figured(w)
    <3>1. statement[a, d] # Nil
      OBVIOUS
    <3>2. statement[a, d].of = a /\ statement[a, d].day = d /\ Figured(statement[a, d])
      BY <3>1, StatementAt DEF BankInv
    <3> QED
      BY <3>2
  <2>2. ls = Within(w) /\ w.present \subseteq LinesOf(a) /\ Balanced(w) /\ w.closing \in Int
        /\ w.total = Cardinality(ls) /\ w.difference = Total(ls) - w.closing
        /\ (w.unreviewed = 0 => \A l \in ls : line[l].match # "NONE")
    BY <2>0, <2>1 DEF Figured, Within
  <2>3. w.difference = 0 /\ w.unreviewed = 0
    BY <2>2 DEF Balanced
  <2>4. ls \in SUBSET BankLines /\ ls \subseteq Covered(a, d)
    <3>1. \A l \in ls : l \in LinesOf(a) /\ line[l].day <= d
      BY <2>0, <2>2
    <3> QED
      BY <3>1 DEF LinesOf, Imported, Covered
  <2>5. Total(ls) \in Int
    BY <2>4, TotalIs DEF BankInv
  <2>6. Total(ls) = w.closing
    <3>1. Total(ls) - w.closing = 0 /\ w.closing \in Int
      BY <2>2, <2>3
    <3> QED
      BY <3>1, <2>5, NothingBetween, Zenon
  <2>7. \A l \in ls : l \in DOMAIN r.matched /\ r.matched[l]
    BY <2>0, <2>2, <2>3, <2>4, Zenon
  <2> QED
    BY <2>0, <2>2, <2>6, <2>7
<1> QED
  BY <1>1, <1>2 DEF BankInv, BankingSound

\* However many requests read a line unmatched, one entry carries it, the bank account's
\* ledger follows what is matched, transfers match both of their lines with each other,
\* and an approved statement was complete (bank-reconciliation.ts).
THEOREM BankingAlwaysSound == BankSpec => []BankingSound
BY BankInvInit, BankInvNext, BankInvSound, PTL DEF BankSpec
=============================================================================
