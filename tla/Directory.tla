------------------------------ MODULE Directory ------------------------------
(***************************************************************************)
(* The public business profile of one tenant and the enquiries it receives *)
(* through the directory (server/src/business-profile.ts).  Staff save a   *)
(* draft, the owner publishes a snapshot of it or takes it back, each      *)
(* under the profile's row lock; the directory serves the snapshot alone.  *)
(* An enquiry looks at the snapshot, then counts what its sender sent in   *)
(* the last day, and is inserted by a transaction of its own; it is        *)
(* handled under its row lock, and becomes a contact only if it is         *)
(* converted.                                                              *)
(***************************************************************************)
EXTENDS Naturals, FiniteSets

CONSTANTS
  Faces,         \* what a profile may say
  Enquirers,     \* requests to send an enquiry, of one sender tenant
  Enquiries,     \* rows of directory_enquiries
  DailyLimit,
  Hidden

ASSUME DirectoryConstants == DailyLimit \in Nat \ {0} /\ Hidden \notin Faces

VARIABLES
  profile,  \* business_profiles: status, draft and published snapshot
  edited,   \* updated_at is later than published_at
  enquiry,  \* directory_enquiries: status, contact, and whether it is of the last day
  enquirer, \* what every request to send found
  leads     \* contacts made from enquiries

directoryVars == <<profile, edited, enquiry, enquirer, leads>>

DirectoryInit ==
  /\ profile = [status |-> "NONE", draft |-> Hidden, snapshot |-> Hidden]
  /\ edited = FALSE
  /\ enquiry = [e \in Enquiries |-> [status |-> "NONE", lead |-> Hidden, today |-> FALSE]]
  /\ enquirer = [r \in Enquirers |-> "IDLE"]
  /\ leads = {}

----------------------------------------------------------------------------
(* The profile.                                                            *)

Drafts == [face : Faces, accept : BOOLEAN, showContact : BOOLEAN]

\* The contact details are part of it only where the draft shows them.
BuildSnapshot(d) == [face |-> d.face, accept |-> d.accept, contact |-> d.showContact]

\* The snapshot is never touched.
SaveProfile(d) ==
  /\ profile' = [profile EXCEPT !.draft = d, !.status = IF @ = "NONE" THEN "DRAFT" ELSE @]
  /\ edited' = TRUE
  /\ UNCHANGED <<enquiry, enquirer, leads>>

PublishProfile ==
  /\ profile.status # "NONE"
  /\ profile' = [profile EXCEPT !.status = "PUBLISHED", !.snapshot = BuildSnapshot(profile.draft)]
  /\ edited' = FALSE
  /\ UNCHANGED <<enquiry, enquirer, leads>>

UnpublishProfile ==
  /\ profile.status = "PUBLISHED"
  /\ profile' = [profile EXCEPT !.status = "UNPUBLISHED", !.snapshot = Hidden]
  /\ edited' = TRUE
  /\ UNCHANGED <<enquiry, enquirer, leads>>

\* What the tenant is told of its own profile.
StaleSincePublish == profile.status = "PUBLISHED" /\ edited

----------------------------------------------------------------------------
(* Enquiries.                                                              *)

Accepting == profile.status = "PUBLISHED" /\ profile.snapshot.accept
SentToday == {e \in Enquiries : enquiry[e].today}

FindTarget(r) ==
  /\ enquirer[r] = "IDLE" /\ Accepting
  /\ enquirer' = [enquirer EXCEPT ![r] = "FOUND"]
  /\ UNCHANGED <<profile, edited, enquiry, leads>>

CountToday(r) ==
  /\ enquirer[r] = "FOUND"
  /\ enquirer' = [enquirer EXCEPT ![r] = IF Cardinality(SentToday) >= DailyLimit THEN "IDLE" ELSE "COUNTED"]
  /\ UNCHANGED <<profile, edited, enquiry, leads>>

SendEnquiry(r, e) ==
  /\ enquirer[r] = "COUNTED" /\ enquiry[e].status = "NONE"
  /\ enquiry' = [enquiry EXCEPT ![e] = [status |-> "NEW", lead |-> Hidden, today |-> TRUE]]
  /\ enquirer' = [enquirer EXCEPT ![r] = "IDLE"]
  /\ UNCHANGED <<profile, edited, leads>>

\* Enquiries grow a day old.
NextDay ==
  /\ SentToday # {}
  /\ enquiry' = [e \in Enquiries |-> [enquiry[e] EXCEPT !.today = FALSE]]
  /\ UNCHANGED <<profile, edited, enquirer, leads>>

ResolveEnquiry(e, action) ==
  /\ enquiry[e].status = "NEW"
  /\ IF action = "convert"
     THEN /\ leads' = leads \cup {e}
          /\ enquiry' = [enquiry EXCEPT ![e].status = "CONVERTED", ![e].lead = e]
     ELSE /\ enquiry' = [enquiry EXCEPT ![e].status = "DISMISSED"]
          /\ UNCHANGED leads
  /\ UNCHANGED <<profile, edited, enquirer>>

DirectoryNext ==
  \/ PublishProfile \/ UnpublishProfile \/ NextDay
  \/ \E d \in Drafts : SaveProfile(d)
  \/ \E r \in Enquirers : FindTarget(r) \/ CountToday(r) \/ \E e \in Enquiries : SendEnquiry(r, e)
  \/ \E e \in Enquiries, action \in {"convert", "dismiss"} : ResolveEnquiry(e, action)

----------------------------------------------------------------------------
(* Properties.                                                             *)

\* Nothing shows of a profile that is not published; a published one that is not
\* called stale shows its draft, contact details only where the draft shows them.
\* A sender exceeds its day's limit by no more than its requests that counted at the
\* same time, and there is one contact for each enquiry that was converted.
DirectorySound ==
  /\ profile.status # "PUBLISHED" <=> profile.snapshot = Hidden
  /\ profile.status = "PUBLISHED" /\ ~StaleSincePublish =>
       /\ profile.snapshot.face = profile.draft.face
       /\ profile.snapshot.contact => profile.draft.showContact
  /\ Cardinality(SentToday) + Cardinality({r \in Enquirers : enquirer[r] = "COUNTED"})
       <= DailyLimit + Cardinality(Enquirers) - 1
  /\ leads = {e \in Enquiries : enquiry[e].status = "CONVERTED" /\ enquiry[e].lead = e}
=============================================================================
