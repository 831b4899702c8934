---------------------------- MODULE PlatformStaff ----------------------------
(***************************************************************************)
(* The platform's own staff (server/src/platform-staff.ts): who has which  *)
(* role, who is disabled, who reports to whom.  A handler reads the target *)
(* and the manager it was given without a lock and writes by id later in   *)
(* its transaction, so it is a look and a commit here.  Only the principal *)
(* administrator, whom the seed creates, may call them.                    *)
(*                                                                         *)
(* And the evidence they keep of backups and restore drills                *)
(* (server/src/platform/admin/backup-manifests.ts, restore-drills.ts,      *)
(* control-center.ts): a drill is recorded against a manifest and reviewed *)
(* once, by the principal administrator and never by who recorded it.      *)
(* Rows are append-only.  Time is in half minutes; a drill reports whole   *)
(* ones.                                                                   *)
(***************************************************************************)
EXTENDS Integers, FiniteSets

CONSTANTS Staffers, Principal, StaffRoles, Requests, Vacant

ASSUME StaffConstants ==
  /\ Principal \in Staffers
  /\ "PRINCIPAL_ADMIN" \notin StaffRoles
  /\ Vacant \notin Staffers

VARIABLES
  member,   \* users without a tenant, and their platform_staff_profiles
  present,  \* the members with a session in force
  request   \* what every request in progress has read and is about to write

staffVars == <<member, present, request>>

NoMember == [role |-> "NONE", status |-> "absent", manager |-> Vacant, temporary |-> FALSE]

StaffInit ==
  /\ member = [p \in Staffers |->
       IF p = Principal THEN [NoMember EXCEPT !.role = "PRINCIPAL_ADMIN", !.status = "active", !.temporary = TRUE]
       ELSE NoMember]
  /\ present = {}
  /\ request = [q \in Requests |-> Vacant]

Members == {p \in Staffers : member[p].status # "absent"}

\* Signed in, not disabled since, and with a password of one's own.
Acts(p) == p \in present /\ member[p].status = "active" /\ ~member[p].temporary

\* What the session layer grants; its races are those of module Sessions.
SignInStaff(p) ==
  /\ member[p].status = "active"
  /\ present' = present \cup {p}
  /\ UNCHANGED <<member, request>>

\* A colleague of whom the platform staff list says that he is active.
MayManageStaff(p, manager) ==
  manager # Vacant => manager # p /\ member[manager].status = "active"

Asks(q, op, p, role, status, manager) ==
  request' = [request EXCEPT ![q] =
    [op |-> op, who |-> p, role |-> role, status |-> status, manager |-> manager]]

CreateLook(q, p, role, manager) ==
  /\ request[q] = Vacant /\ Acts(Principal)
  /\ p \notin Members /\ MayManageStaff(p, manager)
  /\ Asks(q, "CREATE", p, role, "active", manager)
  /\ UNCHANGED <<member, present>>

\* The unique index on the e-mail address admits one of two.
CreateStaff(q) ==
  /\ request[q] # Vacant /\ request[q].op = "CREATE"
  /\ LET r == request[q]
     IN member' = IF r.who \in Members THEN member
                  ELSE [member EXCEPT ![r.who] =
                    [role |-> r.role, status |-> "active", manager |-> r.manager, temporary |-> TRUE]]
  /\ request' = [request EXCEPT ![q] = Vacant]
  /\ UNCHANGED present

Delegable(p) == member[p].role # "PRINCIPAL_ADMIN"

UpdateLook(q, p, role, status, manager) ==
  /\ request[q] = Vacant /\ Acts(Principal)
  /\ p \in Members \ {Principal} /\ Delegable(p) /\ MayManageStaff(p, manager)
  /\ Asks(q, "UPDATE", p, role, status, manager)
  /\ UNCHANGED <<member, present>>

\* Who is disabled loses every session in the same transaction.
UpdateStaff(q) ==
  /\ request[q] # Vacant /\ request[q].op = "UPDATE"
  /\ LET r == request[q]
     IN /\ member' = [member EXCEPT ![r.who] =
              [@ EXCEPT !.role = r.role, !.status = r.status, !.manager = r.manager]]
        /\ present' = IF r.status = "disabled" THEN present \ {r.who} ELSE present
  /\ request' = [request EXCEPT ![q] = Vacant]

TemporaryLook(q, p) ==
  /\ request[q] = Vacant /\ Acts(Principal)
  /\ p \in Members \ {Principal} /\ Delegable(p)
  /\ Asks(q, "TEMPORARY", p, member[p].role, "active", Vacant)
  /\ UNCHANGED <<member, present>>

\* It also takes a disabled member back.
TemporaryPassword(q) ==
  /\ request[q] # Vacant /\ request[q].op = "TEMPORARY"
  /\ LET p == request[q].who
     IN /\ member' = [member EXCEPT ![p].status = "active", ![p].temporary = TRUE]
        /\ present' = present \ {p}
  /\ request' = [request EXCEPT ![q] = Vacant]

\* The member chooses a password of his own.
OwnPassword(p) ==
  /\ p \in present /\ member[p].status = "active" /\ member[p].temporary
  /\ member' = [member EXCEPT ![p].temporary = FALSE]
  /\ UNCHANGED <<present, request>>

StaffNext ==
  \/ \E p \in Staffers : SignInStaff(p) \/ OwnPassword(p)
  \/ \E q \in Requests :
       \/ CreateStaff(q) \/ UpdateStaff(q) \/ TemporaryPassword(q)
       \/ \E p \in Staffers : TemporaryLook(q, p)
       \/ \E p \in Staffers, role \in StaffRoles, manager \in Staffers \cup {Vacant} :
            \/ CreateLook(q, p, role, manager)
            \/ \E status \in {"active", "disabled"} : UpdateLook(q, p, role, status, manager)

----------------------------------------------------------------------------
(* Backups and restore drills.                                             *)

CONSTANTS Manifests, Drills, Environments, Losses, TargetRpo

ASSUME DrillConstants == Losses \subseteq Int /\ TargetRpo \in Nat

VARIABLES
  manifest, \* platform_backup_manifests
  drill,    \* platform_restore_drills
  review    \* platform_restore_drill_reviews

drillVars == <<manifest, drill, review>>
DrillOutcomes == {"SUCCEEDED", "FAILED"}

DrillInit ==
  /\ manifest = [m \in Manifests |-> Vacant]
  /\ drill = [d \in Drills |-> Vacant]
  /\ review = [d \in Drills |-> Vacant]

\* Half minutes to minutes: a minute begun counts, and a recovery beyond the target is no loss.
MinutesCeil(loss) == IF loss > 0 THEN (loss + 1) \div 2 ELSE 0

RecordManifest(p, m, environment, status) ==
  /\ Acts(p) /\ manifest[m] = Vacant
  /\ manifest' = [manifest EXCEPT ![m] = [environment |-> environment, status |-> status]]
  /\ UNCHANGED <<staffVars, drill, review>>

\* The recorder must still be active, the manifest a succeeded one of the environment.
RecordLook(q, p, d, m, environment, outcome, loss) ==
  /\ request[q] = Vacant /\ Acts(p)
  /\ manifest[m] # Vacant /\ drill[d] = Vacant
  /\ manifest[m].status = "succeeded" /\ manifest[m].environment = environment
  /\ request' = [request EXCEPT ![q] =
       [op |-> "RECORD", drill |-> d, manifest |-> m, outcome |-> outcome, loss |-> loss, by |-> p]]
  /\ UNCHANGED <<member, present, drillVars>>

\* The drill's identifier is unique; of two that passed the look one fails.
RecordDrill(q) ==
  /\ request[q] # Vacant /\ request[q].op = "RECORD"
  /\ LET r == request[q]
     IN drill' = IF drill[r.drill] # Vacant THEN drill
                 ELSE [drill EXCEPT ![r.drill] =
                   [manifest |-> r.manifest, outcome |-> r.outcome, loss |-> r.loss,
                    rpo |-> MinutesCeil(r.loss), by |-> r.by]]
  /\ request' = [request EXCEPT ![q] = Vacant]
  /\ UNCHANGED <<member, present, manifest, review>>

AcceptanceEligible(d) == drill[d].outcome = "SUCCEEDED" /\ drill[d].rpo <= TargetRpo

\* The drill's row is locked: looking and writing are one step.
ReviewDrill(p, d, decision) ==
  /\ Acts(p) /\ member[p].role = "PRINCIPAL_ADMIN"
  /\ drill[d] # Vacant /\ drill[d].by # p
  /\ review[d] = Vacant
  /\ decision = "ACCEPTED" => AcceptanceEligible(d)
  /\ review' = [review EXCEPT ![d] = [decision |-> decision, by |-> p]]
  /\ UNCHANGED <<staffVars, manifest, drill>>

Accepted == {d \in Drills : review[d] # Vacant /\ review[d].decision = "ACCEPTED"}

\* The gate of the control centre that restore drills open.
RestoreGate == IF Cardinality(Accepted) > 0 THEN "recorded" ELSE "not-recorded"

DrillNext ==
  \/ StaffNext /\ UNCHANGED drillVars
  \/ \E p \in Staffers :
       \/ \E m \in Manifests, e \in Environments, s \in {"succeeded", "failed"} : RecordManifest(p, m, e, s)
       \/ \E d \in Drills, decision \in {"ACCEPTED", "REJECTED"} : ReviewDrill(p, d, decision)
       \/ \E q \in Requests, d \in Drills, m \in Manifests, e \in Environments, o \in DrillOutcomes, l \in Losses :
            RecordLook(q, p, d, m, e, o, l)
  \/ \E q \in Requests : RecordDrill(q)

----------------------------------------------------------------------------
(* Properties.                                                             *)

\* However the requests of two windows overlap: there is one principal administrator,
\* who stays active; nobody who is disabled has a session; and everybody's manager is
\* another member of the staff.
StaffSound ==
  /\ \A p \in Staffers : member[p].role = "PRINCIPAL_ADMIN" <=> p = Principal
  /\ member[Principal].status = "active"
  /\ \A p \in present : member[p].status = "active"
  /\ \A p \in Members : member[p].manager # Vacant => member[p].manager \in Members \ {p}

\* Whoever is hired, disabled or taken back meanwhile: the gate is open only on a drill
\* that succeeded on a good backup, lost no more than its target allows to the half
\* minute, and was accepted by the principal administrator, who had not recorded it.
DrillsSound ==
  /\ \A d \in Drills : review[d] # Vacant => drill[d] # Vacant /\ review[d].by = Principal /\ drill[d].by # Principal
  /\ RestoreGate = "recorded" =>
       \E d \in Accepted : /\ drill[d].outcome = "SUCCEEDED" /\ drill[d].loss <= 2 * TargetRpo
                           /\ manifest[drill[d].manifest].status = "succeeded"
=============================================================================
