---------------------------- MODULE Verification ----------------------------
(***************************************************************************)
(* The verification of one tenant (server/src/verification-vault.ts,       *)
(* verification-workflow.ts and, for who toggled its features,             *)
(* platform/features/service.ts).                                          *)
(*                                                                         *)
(* Evidence refers to a version of a document.  Its handlers read it       *)
(* without a lock and write it by its id: they are two steps here, and     *)
(* only the CHECK constraints and the unique index of the table stand      *)
(* between two of them.  The handlers of a request lock its row.  A        *)
(* feature toggle and its audit entry are two transactions.                *)
(***************************************************************************)
EXTENDS Documents, FiniteSets

CONSTANTS Evidence, Requests, Staff, Clerks

\* What a process has in hand between its two steps.
Errand ==
  [op : {"ADD", "RENEW", "WITHDRAW", "TOGGLE"}, piece : Evidence \cup {None},
   doc : Docs \cup {None}, version : 0..MaxVersion, staff : Staff \cup {None}]

ASSUME VerificationConstants ==
  /\ IsFiniteSet(Requests)
  /\ None \notin Evidence \cup Staff \cup Errand

Types == {"TAX_CLEARANCE", "LICENCE"}
Singletons == {"TAX_CLEARANCE"}

VARIABLES
  evidence,   \* verification_evidence
  request,    \* verification_requests, their snapshots, decisions and badges
  flag,       \* who toggled verify.centre last
  toggledBy,  \* for every request, the toggles audited since it was drafted
  clerk,      \* the evidence handler or the toggle every process has in hand
  slipped     \* history: staff one of whose toggles was not audited in time

verificationVars == <<doc, approval, evidence, request, flag, toggledBy, clerk, slipped>>
vaultVars == <<request, flag, toggledBy, slipped>>
workflowVars == <<doc, approval, evidence>>

Piece ==
  [status : {"ABSENT", "ACTIVE", "SUPERSEDED", "WITHDRAWN"}, type : Types,
   doc : Docs \cup {None}, version : 0..MaxVersion, next : Evidence \cup {None}]

Request ==
  [status : {"ABSENT", "DRAFT", "SUBMITTED", "IN_REVIEW", "APPROVED", "REJECTED", "REVOKED"},
   frozen : SUBSET (Evidence \X (1..MaxVersion)), sod : SUBSET Staff,
   toggled : SUBSET Staff, by : Staff \cup {None},
   drafted : Nat, issued : Nat, lapsed : BOOLEAN]

Init ==
  /\ DocInit
  /\ evidence = [e \in Evidence |->
       [status |-> "ABSENT", type |-> "LICENCE", doc |-> None, version |-> 0, next |-> None]]
  /\ request = [r \in Requests |->
       [status |-> "ABSENT", frozen |-> {}, sod |-> {}, toggled |-> {}, by |-> None,
        drafted |-> 0, issued |-> 0, lapsed |-> FALSE]]
  /\ flag = None
  /\ toggledBy = [r \in Requests |-> {}]
  /\ clerk = [c \in Clerks |-> None]
  /\ slipped = {}

Active == {e \in Evidence : evidence[e].status = "ACTIVE"}

----------------------------------------------------------------------------
(* The vault.                                                              *)

Task(op, e, d) ==
  [op |-> op, piece |-> e, doc |-> d, version |-> IF d = None THEN 0 ELSE doc[d].version,
   staff |-> None]
At(c, op) == clerk[c] # None /\ clerk[c].op = op
Done(c) == clerk' = [clerk EXCEPT ![c] = None]

\* requireWorkspaceDocument pins the version that is current.
AddLook(c, d) ==
  /\ clerk[c] = None /\ doc[d].status = "ACTIVE"
  /\ clerk' = [clerk EXCEPT ![c] = Task("ADD", None, d)]
  /\ UNCHANGED <<docVars, evidence, vaultVars>>

RenewLook(c, e, d) ==
  /\ clerk[c] = None
  /\ e \in Active /\ doc[d].status = "ACTIVE"
  /\ clerk' = [clerk EXCEPT ![c] = Task("RENEW", e, d)]
  /\ UNCHANGED <<docVars, evidence, vaultVars>>

WithdrawLook(c, e) ==
  /\ clerk[c] = None /\ e \in Active
  /\ clerk' = [clerk EXCEPT ![c] = Task("WITHDRAW", e, None)]
  /\ UNCHANGED <<docVars, evidence, vaultVars>>

\* Faulty variant: the unique index forgets that a type is single.
FreeAlways(type, leaving) == TRUE

\* verification_evidence_singleton_active, once the given piece has left ACTIVE
Free(type, leaving) ==
  type \in Singletons => \A o \in Active \ {leaving} : evidence[o].type # type

Fresh(c, type) ==
  [status |-> "ACTIVE", type |-> type, doc |-> clerk[c].doc, version |-> clerk[c].version,
   next |-> None]

AddCommit(c, e, type) ==
  /\ At(c, "ADD") /\ evidence[e].status = "ABSENT"
  /\ Free(type, None)
  /\ evidence' = [evidence EXCEPT ![e] = Fresh(c, type)]
  /\ Done(c)
  /\ UNCHANGED <<docVars, vaultVars>>

\* Faulty variant: no constraint ties a pointer to the status.
UnpointedAlways(e) == TRUE

\* A piece that has a successor may not be WITHDRAWN, not even for a moment.
Unpointed(e) == evidence[e].next = None

RenewCommit(c, successor) ==
  LET e == clerk[c].piece
  IN /\ At(c, "RENEW") /\ evidence[successor].status = "ABSENT"
     /\ Unpointed(e)
     /\ Free(evidence[e].type, e)
     /\ evidence' = [evidence EXCEPT ![e].status = "SUPERSEDED", ![e].next = successor,
                                     ![successor] = Fresh(c, evidence[e].type)]
     /\ Done(c)
     /\ UNCHANGED <<docVars, vaultVars>>

WithdrawCommit(c) ==
  /\ At(c, "WITHDRAW")
  /\ Unpointed(clerk[c].piece)
  /\ evidence' = [evidence EXCEPT ![clerk[c].piece].status = "WITHDRAWN"]
  /\ Done(c)
  /\ UNCHANGED <<docVars, vaultVars>>

\* A constraint refuses the write, or the process dies.
Fail(c) ==
  /\ clerk[c] # None
  /\ slipped' = slipped \cup (IF clerk[c].op = "TOGGLE" THEN {clerk[c].staff} ELSE {})
  /\ Done(c)
  /\ UNCHANGED <<docVars, evidence, request, flag, toggledBy>>

----------------------------------------------------------------------------
(* Feature toggles.                                                        *)

\* setFlag stores the flag, ...
ToggleStore(c, p) ==
  /\ clerk[c] = None
  /\ flag' = p
  /\ request' = [r \in Requests |->
       IF request[r].status = "DRAFT" THEN [request[r] EXCEPT !.toggled = @ \cup {p}] ELSE request[r]]
  /\ clerk' = [clerk EXCEPT ![c] = [Task("TOGGLE", None, None) EXCEPT !.staff = p]]
  /\ UNCHANGED <<workflowVars, toggledBy, slipped>>

\* ... then its audit entry.
ToggleAudit(c) ==
  /\ At(c, "TOGGLE")
  /\ toggledBy' = [r \in Requests |->
       IF request[r].status = "ABSENT" THEN {} ELSE toggledBy[r] \cup {clerk[c].staff}]
  /\ Done(c)
  /\ UNCHANGED <<workflowVars, request, flag, slipped>>

----------------------------------------------------------------------------
(* The workflow.                                                           *)

IsOpen(r) == request[r].status \in {"DRAFT", "SUBMITTED", "IN_REVIEW"}

\* The columns created_at and issued_at, as ordinals.
NextOrdinal(S) == 1 + Cardinality(S)
Issued == {r \in Requests : request[r].issued > 0}

\* createVerificationDraft locks the tenant.
CreateDraft(r) ==
  /\ request[r].status = "ABSENT"
  /\ \A o \in Requests : ~IsOpen(o)
  /\ request' = [request EXCEPT ![r].status = "DRAFT",
       ![r].drafted = NextOrdinal({o \in Requests : request[o].drafted > 0})]
  /\ UNCHANGED <<workflowVars, flag, toggledBy, clerk, slipped>>

\* Faulty variant: only the last toggle counts.
LastActor(r) == {flag} \cap Staff

\* detectableFlagActors
FlagActors(r) == ({flag} \cap Staff) \cup toggledBy[r]

\* The complete set of active evidence is frozen with its pinned versions.
Submit(r) ==
  /\ request[r].status = "DRAFT" /\ Active # {}
  /\ request' = [request EXCEPT ![r] =
       [@ EXCEPT !.status = "SUBMITTED", !.sod = FlagActors(r),
                 !.frozen = {<<e, evidence[e].version>> : e \in Active}]]
  /\ slipped' = slipped \cup {clerk[c].staff : c \in {c \in Clerks : At(c, "TOGGLE")}}
  /\ UNCHANGED <<workflowVars, flag, toggledBy, clerk>>

StartReview(r) ==
  /\ request[r].status = "SUBMITTED"
  /\ request' = [request EXCEPT ![r].status = "IN_REVIEW"]
  /\ UNCHANGED <<workflowVars, flag, toggledBy, clerk, slipped>>

\* Faulty variant: whoever holds the permission may decide.
SegregatedNever(r, p) == TRUE

\* enforceSegregation over segregationFor
Segregated(r, p) == p \notin request[r].sod

\* decideVerificationRequest: with an approval comes the badge.
DecideRequest(r, p, to) ==
  /\ request[r].status = "IN_REVIEW" /\ Segregated(r, p)
  /\ request' = [request EXCEPT ![r].status = to, ![r].by = p,
                                ![r].issued = IF to = "APPROVED" THEN NextOrdinal(Issued) ELSE 0]
  /\ UNCHANGED <<workflowVars, flag, toggledBy, clerk, slipped>>

RevokeBadge(r, p) ==
  /\ request[r].status = "APPROVED" /\ Segregated(r, p)
  /\ request' = [request EXCEPT ![r].status = "REVOKED", ![r].by = p]
  /\ UNCHANGED <<workflowVars, flag, toggledBy, clerk, slipped>>

\* The day after the badge's expires_at.
Lapse(r) ==
  /\ request[r].issued > 0 /\ ~request[r].lapsed
  /\ request' = [request EXCEPT ![r].lapsed = TRUE]
  /\ UNCHANGED <<workflowVars, flag, toggledBy, clerk, slipped>>

----------------------------------------------------------------------------
(* What the tenant and the reviewers are shown.                            *)

Latest(S, ordinal) == CHOOSE r \in S : \A o \in S : ordinal[o] <= ordinal[r]

BadgeState(r) ==
  CASE request[r].status = "REVOKED" -> "REVOKED"
    [] request[r].status # "REVOKED" /\ request[r].lapsed -> "EXPIRED"
    [] OTHER -> "ACTIVE"

\* getTenantBadgeProjection: of several badges the one issued last.
BadgeProjection ==
  IF Issued = {} THEN None
  ELSE LET r == Latest(Issued, [o \in Issued |-> request[o].issued])
       IN [request |-> r, state |-> BadgeState(r)]

\* getVerificationStatus: the request drafted last, beside the badge.
StatusShown ==
  LET drafted == {r \in Requests : request[r].drafted > 0}
  IN [request |-> IF drafted = {} THEN None ELSE Latest(drafted, [o \in drafted |-> request[o].drafted]),
      badge |-> BadgeProjection]

\* getPlatformVerificationRequest: what a reviewer sees of a request.
Detail(r, p) ==
  [request |-> r, blocked |-> p \in request[r].sod, frozen |-> request[r].frozen,
   by |-> request[r].by, badge |-> IF r \in Issued THEN BadgeState(r) ELSE None]

\* listVerificationQueue: a draft is nobody's but the tenant's.
Queue(p, statuses) ==
  {Detail(r, p) : r \in {r \in Requests : request[r].status \in statuses \ {"ABSENT", "DRAFT"}}}

\* getPlatformVerificationEvidenceContent: a version is never rewritten, so that
\* its checksum is the captured one.
Served(r, piece) ==
  /\ request[r].status \notin {"ABSENT", "DRAFT"}
  /\ piece \in request[r].frozen
  /\ piece[2] <= doc[evidence[piece[1]].doc].version

----------------------------------------------------------------------------

VaultNext ==
  \E c \in Clerks :
    \/ \E d \in Docs : AddLook(c, d) \/ \E e \in Evidence : RenewLook(c, e, d)
    \/ \E e \in Evidence : WithdrawLook(c, e) \/ RenewCommit(c, e)
    \/ \E e \in Evidence, type \in Types : AddCommit(c, e, type)
    \/ WithdrawCommit(c) \/ Fail(c)

ToggleNext == \E c \in Clerks : ToggleAudit(c) \/ \E p \in Staff : ToggleStore(c, p)

WorkflowNext ==
  \E r \in Requests :
    \/ CreateDraft(r) \/ Submit(r) \/ StartReview(r) \/ Lapse(r)
    \/ \E p \in Staff :
         \/ \E to \in {"APPROVED", "REJECTED"} : DecideRequest(r, p, to)
         \/ RevokeBadge(r, p)

DocumentsNext ==
  DocNext /\ UNCHANGED <<evidence, request, flag, toggledBy, clerk, slipped>>

Next == VaultNext \/ ToggleNext \/ WorkflowNext \/ DocumentsNext

VerificationSpec == Init /\ [][Next]_verificationVars

----------------------------------------------------------------------------
(* Properties.                                                             *)

VerificationTypeOK ==
  /\ DocTypeOK
  /\ evidence \in [Evidence -> Piece]
  /\ request \in [Requests -> Request]
  /\ flag \in Staff \cup {None} /\ slipped \subseteq Staff
  /\ toggledBy \in [Requests -> SUBSET Staff]
  /\ clerk \in [Clerks -> Errand \cup {None}]

\* Of a single type at most one piece is active; a superseded piece has one
\* successor of its own type, which succeeds nothing else; what a piece pins exists.
ChainsSound ==
  /\ \A e, o \in Active :
       evidence[e].type = evidence[o].type /\ evidence[e].type \in Singletons => e = o
  /\ \A e \in Evidence :
       /\ (evidence[e].status = "SUPERSEDED") = (evidence[e].next # None)
       /\ evidence[e].status # "ABSENT" =>
            evidence[e].version \in 1..doc[evidence[e].doc].version
       /\ evidence[e].next # None =>
            /\ evidence[evidence[e].next].type = evidence[e].type
            /\ evidence[evidence[e].next].status # "ABSENT"
            /\ \A o \in Evidence : evidence[o].next = evidence[e].next => o = e

\* Of a type of which there is one, a snapshot holds at most one piece, and one
\* request is open.
RequestsSound ==
  /\ \A r \in Requests :
       /\ (request[r].status \in {"ABSENT", "DRAFT"}) = (request[r].frozen = {})
       /\ \A x, y \in request[r].frozen :
            evidence[x[1]].type = evidence[y[1]].type /\ evidence[x[1]].type \in Singletons => x = y
  /\ Cardinality({r \in Requests : IsOpen(r)}) <= 1

\* What is shown is so: an open request is never hidden behind another, the badge
\* shown is ACTIVE only on a standing approval that is not older than any other,
\* what a decision rested on can still be opened, and the queue holds undecided
\* requests of frozen evidence, whoever it does not call blocked having toggled
\* nothing that was audited in time.
ShownSound ==
  /\ \A r \in Requests : IsOpen(r) => StatusShown.request = r
  /\ LET badge == BadgeProjection IN
       badge # None /\ badge.state = "ACTIVE" =>
         /\ request[badge.request].status = "APPROVED"
         /\ \A o \in Requests : request[o].status = "APPROVED"
              => request[o].drafted <= request[badge.request].drafted
  /\ \A r \in Requests : \A piece \in request[r].frozen : Served(r, piece)
  /\ \A p \in Staff : \A item \in Queue(p, {"SUBMITTED", "IN_REVIEW"}) :
       /\ item.blocked \/ p \notin request[item.request].toggled \/ p \in slipped
       /\ item.frozen # {} /\ item.by = None /\ item.badge = None

\* Evidence, requests and what is shown of them, on states of the right types.
VerificationSound == VerificationTypeOK /\ ChainsSound /\ RequestsSound /\ ShownSound

\* Evidence that was superseded never changes again, and no evidence comes back
\* by itself: a withdrawal or a second renewal that read it before is refused.
SupersededStays ==
  [][\A e \in Evidence :
       /\ evidence[e].status = "SUPERSEDED" => evidence'[e] = evidence[e]
       /\ evidence[e].status = "WITHDRAWN" => evidence'[e].status # "ACTIVE"]_verificationVars

\* Who toggled a feature of the tenant while the request was a draft has no part
\* in its decision, as long as the toggle was audited before the submission.
TogglersStayOut ==
  \A r \in Requests : request[r].by \in request[r].toggled => request[r].by \in slipped

\* The header of verification-vault.ts: a row that was superseded or withdrawn is
\* immutable.
TerminalStays ==
  [][\A e \in Evidence :
       evidence[e].status \in {"SUPERSEDED", "WITHDRAWN"} => evidence'[e] = evidence[e]]_verificationVars

RequestVerdict(r) ==
  CASE request[r].status \in {"ABSENT", "DRAFT"} -> "NONE"
    [] request[r].status \in {"SUBMITTED", "IN_REVIEW"} -> "OPEN"
    [] OTHER -> request[r].status

\* A request is a subject of the kernel that excludes the captured actors.
RequestEyes == INSTANCE FourEyes WITH
  Subjects <- Requests, People <- Staff, Nobody <- None,
  verdict <- [r \in Requests |-> RequestVerdict(r)],
  barred <- [r \in Requests |-> request[r].sod],
  by <- [r \in Requests |-> request[r].by]

\* The verification of a business and the approval of a document both do what the
\* approval kernel promises, and nothing beside it.
FourEyesKept == RequestEyes!FourEyesSpec /\ ApprovalEyes!FourEyesSpec
=============================================================================
