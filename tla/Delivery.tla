------------------------------ MODULE Delivery ------------------------------
(***************************************************************************)
(* One finance document sent by e-mail under an idempotency key            *)
(* (server/src/finance-document-delivery.ts), with the customer's e-mail   *)
(* preference, the share link of an invoice, the notification service and  *)
(* its gateways (server/src/notifications.ts, server/src/platform/         *)
(* notifications).  Requests with the key may overlap and differ in the    *)
(* preference they saw; the mail provider may refuse a message or take it  *)
(* and lose the answer, a write may fail, and a server may die.            *)
(***************************************************************************)
EXTENDS Integers, FiniteSets

CONSTANTS Senders, MaxAttempts, MaxPreference, MaxFaults, NoOne

ASSUME DeliveryConstants ==
  /\ MaxAttempts \in 1..3 /\ {MaxPreference, MaxFaults} \subseteq Nat
  /\ NoOne \notin Senders

VARIABLES
  preference,  \* the latest contact_communication_preference_event, and its number
  delivery,    \* the finance_document_delivery_request of the key
  emailRow,    \* its notification by e-mail: NONE, sent or failed
  noticeRow,   \* its notification in the application: NONE, SENT or FAILED
  link,        \* the newest invoice share link: NONE, OPEN or REVOKED
  sender,      \* the request every sender has under way
  mails,       \* history: messages the provider took
  unheard,     \* history: those whose answer was lost
  orphaned,    \* history: the request that claimed the key died
  faults       \* refusals, lost answers, failed writes and crashes so far

deliveryVars == <<preference, delivery, emailRow, noticeRow, link, sender, mails, unheard, orphaned, faults>>

AtRest == [step |-> "IDLE", preference |-> 0, attempt |-> 0, accepted |-> FALSE]
NoDelivery == [status |-> "NONE", preference |-> 0, owner |-> NoOne, code |-> "NONE"]

DeliveryInit ==
  /\ preference = [number |-> 0, consent |-> FALSE]
  /\ delivery = NoDelivery
  /\ emailRow = "NONE" /\ noticeRow = "NONE" /\ link = "NONE"
  /\ sender = [s \in Senders |-> AtRest]
  /\ mails = 0 /\ unheard = 0 /\ orphaned = FALSE /\ faults = 0

At(s, step) == sender[s].step = step
Go(s, step) == sender' = [sender EXCEPT ![s].step = step]
Rows == <<delivery, emailRow, noticeRow, link>>
Sent == <<mails, unheard, orphaned>>

\* Anything that can go wrong goes wrong at most MaxFaults times.
Fault == faults < MaxFaults /\ faults' = faults + 1

----------------------------------------------------------------------------
(* Consent and links.                                                      *)

RecordEmailPreference(consent) ==
  /\ preference.number < MaxPreference
  /\ preference' = [number |-> preference.number + 1, consent |-> consent]
  /\ UNCHANGED <<Rows, sender, Sent, faults>>

RevokeInvoiceShareLink ==
  /\ link = "OPEN" /\ link' = "REVOKED"
  /\ UNCHANGED <<preference, delivery, emailRow, noticeRow, sender, Sent, faults>>

----------------------------------------------------------------------------
(* The request.                                                            *)

\* prepareDelivery and latestEmailPreference; without consent the request is
\* refused and only audited.
Prepare(s) ==
  /\ At(s, "IDLE") /\ preference.consent
  /\ sender' = [sender EXCEPT ![s] = [AtRest EXCEPT !.step = "READ", !.preference = preference.number]]
  /\ UNCHANGED <<preference, Rows, Sent, faults>>

\* A plausible slip: a failed request may be claimed anew.
UnclaimedOrFailed == delivery.status \in {"NONE", "FAILED"}

\* onConflictDoNothing: the unique index lets one request have the key.
Unclaimed == delivery.status = "NONE"

\* The others are answered from the row, or refused if their preference differs.
ClaimDelivery(s) ==
  /\ At(s, "READ")
  /\ IF Unclaimed
     THEN /\ delivery' = [status |-> "PROCESSING", preference |-> sender[s].preference,
                          owner |-> s, code |-> "NONE"]
          /\ Go(s, "CLAIMED")
     ELSE sender' = [sender EXCEPT ![s] = AtRest] /\ UNCHANGED delivery
  /\ UNCHANGED <<preference, emailRow, noticeRow, link, Sent, faults>>

\* createInvoiceShareLink and, in a transaction of its own, the link's id on the
\* request; a statement or a reminder has no link.
Share(s) ==
  /\ At(s, "CLAIMED")
  /\ \/ link' \in {link, "OPEN"} /\ Go(s, "MAILING") /\ UNCHANGED faults
     \/ link' \in {link, "OPEN"} /\ Go(s, "FAILING") /\ Fault
  /\ UNCHANGED <<preference, delivery, emailRow, noticeRow, Sent>>

\* A call of the mail provider: accepted, refused, or accepted with its answer
\* lost, which looks the same as refused and is tried again.
Attempted(s) == sender[s].attempt + 1
AfterRefusal(s) ==
  sender' = [sender EXCEPT ![s].attempt = Attempted(s),
               ![s].step = IF Attempted(s) < MaxAttempts THEN "MAILING" ELSE "REFUSED"]

MailAccepted(s) ==
  /\ At(s, "MAILING")
  /\ mails' = mails + 1
  /\ sender' = [sender EXCEPT ![s].attempt = Attempted(s), ![s].step = "ACCEPTED"]
  /\ UNCHANGED <<preference, Rows, unheard, orphaned, faults>>

MailRefused(s) ==
  /\ At(s, "MAILING") /\ Fault
  /\ AfterRefusal(s)
  /\ UNCHANGED <<preference, Rows, Sent>>

MailAnswerLost(s) ==
  /\ At(s, "MAILING") /\ Fault
  /\ mails' = mails + 1 /\ unheard' = unheard + 1
  /\ AfterRefusal(s)
  /\ UNCHANGED <<preference, Rows, orphaned>>

\* persistNotification; the audit that follows may fail, which leaves the row
\* and throws.
PersistEmail(s) ==
  \/ /\ At(s, "ACCEPTED")
     /\ emailRow' = "sent"
     /\ sender' = [sender EXCEPT ![s].step = "MAILED", ![s].accepted = TRUE]
     /\ UNCHANGED <<preference, delivery, noticeRow, link, Sent, faults>>
  \/ /\ At(s, "ACCEPTED") /\ Fault
     /\ emailRow' \in {emailRow, "sent"} /\ Go(s, "FAILING")
     /\ UNCHANGED <<preference, delivery, noticeRow, link, Sent>>
  \/ /\ At(s, "REFUSED") /\ Go(s, "FAILING")
     /\ \/ emailRow' = "failed" /\ UNCHANGED faults
        \/ UNCHANGED emailRow /\ Fault
     /\ UNCHANGED <<preference, delivery, noticeRow, link, Sent>>

\* The outcome is shown to the user once: findNotificationDuplicate answers the
\* second time.
Outcome(said) == IF noticeRow = "NONE" THEN said ELSE noticeRow

NotifySent(s) ==
  /\ At(s, "MAILED")
  /\ \/ noticeRow' = Outcome("SENT") /\ Go(s, "NOTIFIED") /\ UNCHANGED faults
     \/ noticeRow' \in {noticeRow, Outcome("SENT")} /\ Go(s, "FAILING") /\ Fault
  /\ UNCHANGED <<preference, delivery, emailRow, link, Sent>>

\* The step the request's row follows the answers in.
ReadyForSent == "NOTIFIED"

MarkSent(s) ==
  /\ At(s, ReadyForSent)
  /\ \/ delivery' = [delivery EXCEPT !.status = "SENT"] /\ Go(s, "AUDITING") /\ UNCHANGED faults
     \/ UNCHANGED delivery /\ Go(s, "FAILING") /\ Fault
  /\ UNCHANGED <<preference, emailRow, noticeRow, link, Sent>>

\* recordAudit; when it fails the request that was sent is marked failed.
AuditSent(s) ==
  /\ At(s, "AUDITING")
  /\ \/ sender' = [sender EXCEPT ![s] = AtRest] /\ UNCHANGED faults
     \/ Go(s, "FAILING") /\ Fault
  /\ UNCHANGED <<preference, Rows, Sent>>

\* The catch block: its notice may fail without consequence.
NotifyFailed(s) ==
  /\ At(s, "FAILING")
  /\ \/ noticeRow' = Outcome("FAILED") /\ UNCHANGED faults
     \/ UNCHANGED noticeRow /\ Fault
  /\ Go(s, "FAILED")
  /\ UNCHANGED <<preference, delivery, emailRow, link, Sent>>

\* A plausible slip: the catch block throws on before the row is written.
FailedRowNever(s) == delivery

FailedRow(s) ==
  [delivery EXCEPT !.status = "FAILED",
     !.code = IF sender[s].accepted THEN "IN_APP_OUTCOME_FAILED" ELSE "PROVIDER_FAILED"]

MarkFailed(s) ==
  /\ At(s, "FAILED")
  /\ delivery' = FailedRow(s)
  /\ sender' = [sender EXCEPT ![s] = AtRest]
  /\ UNCHANGED <<preference, emailRow, noticeRow, link, Sent, faults>>

\* A server dies, or the write of the catch block fails: the row stays as it is.
SenderDies(s) ==
  /\ sender[s] # AtRest /\ Fault
  /\ sender' = [sender EXCEPT ![s] = AtRest]
  /\ orphaned' = (orphaned \/ sender[s].step \notin {"READ", "AUDITING"})
  /\ UNCHANGED <<preference, Rows, mails, unheard>>

SenderStep(s) ==
  \/ ClaimDelivery(s) \/ Share(s)
  \/ MailAccepted(s) \/ MailRefused(s) \/ MailAnswerLost(s) \/ PersistEmail(s)
  \/ NotifySent(s) \/ MarkSent(s) \/ AuditSent(s)
  \/ NotifyFailed(s) \/ MarkFailed(s)

DeliveryNext ==
  \/ \E consent \in BOOLEAN : RecordEmailPreference(consent)
  \/ RevokeInvoiceShareLink
  \/ \E s \in Senders : Prepare(s) \/ SenderStep(s) \/ SenderDies(s)

DeliverySpec == DeliveryInit /\ [][DeliveryNext]_deliveryVars

DeliveryFairness == \A s \in Senders : WF_deliveryVars(SenderStep(s))

----------------------------------------------------------------------------
(* Properties.                                                             *)

\* Whatever is retried under the key, the customer gets one message, and one
\* more for every answer the provider lost.
MailedByOneClaim == mails <= 1 + unheard

\* The request, its notifications and the provider agree: sent means mailed,
\* persisted and shown; a failure shown as the provider's was not shown as sent;
\* one after the mail was accepted still left a mail; and only mail that went out
\* is recorded as sent.
DeliveryTellsTruth ==
  /\ delivery.status = "SENT" => emailRow = "sent" /\ noticeRow = "SENT" /\ mails > 0
  /\ delivery.code = "PROVIDER_FAILED" => noticeRow # "SENT"
  /\ delivery.code = "IN_APP_OUTCOME_FAILED" => mails > 0 /\ emailRow = "sent"
  /\ noticeRow = "FAILED" => delivery.status \in {"PROCESSING", "FAILED"}
  /\ emailRow = "sent" => mails > 0

DeliverySound == MailedByOneClaim /\ DeliveryTellsTruth

\* A claimed request is settled one way or the other, unless the server that
\* claimed it dies.
DeliverySettles == delivery.status = "PROCESSING" ~> delivery.status # "PROCESSING" \/ orphaned
=============================================================================
