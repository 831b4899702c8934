------------------------------ MODULE Contacts ------------------------------
(***************************************************************************)
(* Contacts, their roles and their removal (server/src/contact-records.ts, *)
(* suppliers.ts, the contact routes of routes.ts).  An owner removes       *)
(* contacts at once; others ask for it, and an owner decides.  Every       *)
(* handler is one transaction that takes row locks as it goes: a batch     *)
(* locks its contacts in the order they come up, an owner's removal then   *)
(* the pending requests about them, a decision first the request and then  *)
(* the contact.  What a transaction writes shows at its commit, when its   *)
(* locks go.                                                               *)
(***************************************************************************)
EXTENDS Naturals, FiniteSets

CONSTANTS
  Contacts, Removals, \* rows of contacts and of record_deletion_requests
  Codes,              \* supplier codes
  Clerks,             \* transactions that may be open at once
  Unset

ASSUME ContactConstants == Contacts \cap Removals = {} /\ Unset \notin Codes \cup Contacts \cup Removals

VARIABLES
  contact, \* status, role and supplier code of every contact
  removal, \* record_deletion_requests
  clerk,   \* the transaction every clerk has open
  told     \* history: the decisions that were answered for every request

contactVars == <<contact, removal, clerk, told>>

ContactInit ==
  /\ contact = [c \in Contacts |-> [status |-> "NONE", vendor |-> FALSE, code |-> Unset]]
  /\ removal = [r \in Removals |-> [status |-> "NONE", of |-> Unset]]
  /\ clerk = [k \in Clerks |-> Unset]
  /\ told = [r \in Removals |-> {}]

Active(c) == contact[c].status = "ACTIVE"
Pending(r) == removal[r].status = "PENDING"
PendingAbout(cs) == {r \in Removals : Pending(r) /\ removal[r].of \in cs}

----------------------------------------------------------------------------
(* Locks.                                                                  *)

HeldBy(k) == IF clerk[k] = Unset THEN {} ELSE clerk[k].held
Free(row) == \A k \in Clerks : row \notin HeldBy(k)

\* The rows that k's transaction has yet to lock, as far as it can tell.
Wanted(k) ==
  LET t == clerk[k]
      batch == t.contacts \ t.held
  IN CASE t.op \in {"MARK", "ASK"} -> batch
       [] t.op = "REMOVE" -> IF batch # {} THEN batch ELSE PendingAbout(t.contacts) \ t.held
       [] t.op = "REJECT" -> {t.request} \ t.held
       [] t.op = "APPROVE" -> IF t.request \notin t.held THEN {t.request} ELSE {removal[t.request].of} \ t.held

\* k waits for a row that l has.
WaitsFor(k, l) == k # l /\ clerk[k] # Unset /\ Wanted(k) \cap HeldBy(l) # {}

Idle(k) == clerk' = [clerk EXCEPT ![k] = Unset]

\* A row that was removed or decided meanwhile ends the request: not found, or in conflict.
Lock(k) ==
  /\ clerk[k] # Unset
  /\ \E row \in {row \in Wanted(k) : Free(row)} :
       IF (row \in Contacts /\ Active(row)) \/ (row \in Removals /\ Pending(row))
       THEN clerk' = [clerk EXCEPT ![k].held = @ \cup {row}]
       ELSE Idle(k)
  /\ UNCHANGED <<contact, removal, told>>

Ring(ks) == ks # {} /\ \A k \in ks : \E l \in ks : WaitsFor(k, l)

\* The database aborts one of those that wait for each other.
AbortDeadlock(k) ==
  /\ \E ks \in SUBSET Clerks : k \in ks /\ Ring(ks) /\ \A ls \in SUBSET ks \ {ks} : ~Ring(ls)
  /\ Idle(k)
  /\ UNCHANGED <<contact, removal, told>>

----------------------------------------------------------------------------
(* Requests.                                                               *)

\* What the requests under way ask about.
Asked == UNION {{l} \X clerk[l].contacts : l \in {l \in Clerks : clerk[l] # Unset /\ clerk[l].op = "ASK"}}

\* Rows of removal are a bound: there is one for whatever is asked.
Begin(k, op, cs, r) ==
  /\ clerk[k] = Unset
  /\ \A c \in cs : contact[c].status # "NONE"
  /\ op = "ASK" => Cardinality(cs) + Cardinality(Asked) <= Cardinality({x \in Removals : removal[x].status = "NONE"})
  /\ clerk' = [clerk EXCEPT ![k] = [op |-> op, contacts |-> cs, request |-> r, held |-> {}]]
  /\ UNCHANGED <<contact, removal, told>>

BulkUpdate(k) ==
  /\ clerk[k].op = "MARK"
  /\ contact' = [c \in Contacts |-> IF c \in clerk[k].contacts THEN [contact[c] EXCEPT !.vendor = TRUE] ELSE contact[c]]
  /\ UNCHANGED <<removal, told>>

SoftRemove(cs) ==
  contact' = [c \in Contacts |-> IF c \in cs THEN [contact[c] EXCEPT !.status = "REMOVED"] ELSE contact[c]]

\* A plausible slip: the requests about what an owner removes are left for a decision.
SettledLeft(cs) == removal

\* What an owner removes is thereby approved.
Settled(cs) ==
  [r \in Removals |-> IF r \in PendingAbout(cs) THEN [removal[r] EXCEPT !.status = "APPROVED"] ELSE removal[r]]

RemoveNow(k) ==
  /\ clerk[k].op = "REMOVE"
  /\ SoftRemove(clerk[k].contacts)
  /\ removal' = Settled(clerk[k].contacts)
  /\ UNCHANGED told

\* One request about each contact, unless one of them has a pending one.
AskRemoval(k) ==
  LET cs == clerk[k].contacts
  IN /\ clerk[k].op = "ASK"
     /\ IF PendingAbout(cs) # {} THEN UNCHANGED removal
        ELSE \E new \in [cs -> {r \in Removals : removal[r].status = "NONE"}] :
               /\ \A c, d \in cs : c # d => new[c] # new[d]
               /\ removal' = [r \in Removals |-> IF \E c \in cs : new[c] = r
                                THEN [status |-> "PENDING", of |-> CHOOSE c \in cs : new[c] = r] ELSE removal[r]]
     /\ UNCHANGED <<contact, told>>

DecideRequest(k) ==
  LET r == clerk[k].request
      status == IF clerk[k].op = "APPROVE" THEN "APPROVED" ELSE "REJECTED"
  IN /\ clerk[k].op \in {"APPROVE", "REJECT"}
     /\ IF clerk[k].op = "APPROVE" THEN SoftRemove({removal[r].of}) ELSE UNCHANGED contact
     /\ removal' = [removal EXCEPT ![r].status = status]
     /\ told' = [told EXCEPT ![r] = @ \cup {status}]

CommitRequest(k) ==
  /\ clerk[k] # Unset /\ Wanted(k) = {}
  /\ BulkUpdate(k) \/ RemoveNow(k) \/ AskRemoval(k) \/ DecideRequest(k)
  /\ Idle(k)

\* The look before the write; the index on the codes of contacts that are there has the last word.
CodeFree(c, code) == code = Unset \/ \A d \in Contacts \ {c} : Active(d) => contact[d].code # code

CreateSupplier(c, code) ==
  /\ contact[c].status = "NONE" /\ CodeFree(c, code)
  /\ contact' = [contact EXCEPT ![c] = [status |-> "ACTIVE", vendor |-> TRUE, code |-> code]]
  /\ UNCHANGED <<removal, clerk, told>>

UpdateSupplier(c, code) ==
  /\ Active(c) /\ contact[c].vendor /\ Free(c) /\ CodeFree(c, code)
  /\ contact' = [contact EXCEPT ![c].code = code]
  /\ UNCHANGED <<removal, clerk, told>>

\* Who stops being a supplier keeps the code.
UpdateContact(c, vendor) ==
  /\ Active(c) /\ Free(c)
  /\ contact' = [contact EXCEPT ![c].vendor = vendor]
  /\ UNCHANGED <<removal, clerk, told>>

CreateContact(c) ==
  /\ contact[c].status = "NONE"
  /\ contact' = [contact EXCEPT ![c].status = "ACTIVE"]
  /\ UNCHANGED <<removal, clerk, told>>

ContactNext ==
  \/ \E k \in Clerks :
       \/ \E op \in {"MARK", "ASK", "REMOVE"}, cs \in SUBSET Contacts \ {{}} : Begin(k, op, cs, Unset)
       \/ \E op \in {"APPROVE", "REJECT"}, r \in {r \in Removals : removal[r].status # "NONE"} : Begin(k, op, {}, r)
       \/ Lock(k) \/ AbortDeadlock(k) \/ CommitRequest(k)
  \/ \E c \in Contacts : CreateContact(c) \/ (\E vendor \in BOOLEAN : UpdateContact(c, vendor))
                        \/ \E code \in Codes \cup {Unset} : CreateSupplier(c, code) \/ UpdateSupplier(c, code)

\* A transaction goes on while it can, locks are granted in turn, and the deadlock detector runs.
ContactFairness ==
  /\ \A k \in Clerks : SF_contactVars(Lock(k)) /\ WF_contactVars(CommitRequest(k))
  /\ WF_contactVars(\E k \in Clerks : AbortDeadlock(k))

----------------------------------------------------------------------------
(* Properties.                                                             *)

\* Whatever overlaps, a pending request is about a contact that is there, and is the
\* only one about it; one that was approved took its contact away; a decision that was
\* answered stands; and no two contacts that are there share a supplier code.
ContactsSound ==
  /\ \A r \in Removals :
       /\ Pending(r) => Active(removal[r].of) /\ PendingAbout({removal[r].of}) = {r}
       /\ removal[r].status = "APPROVED" => contact[removal[r].of].status = "REMOVED"
       /\ told[r] \subseteq {removal[r].status}
  /\ \A c, d \in Contacts : c # d /\ Active(c) /\ Active(d) /\ contact[c].code # Unset => contact[c].code # contact[d].code

\* Removals and decisions, which lock the same rows in opposite orders, all come to an end.
TransactionsEnd == \A k \in Clerks : clerk[k] # Unset ~> clerk[k] = Unset
=============================================================================
