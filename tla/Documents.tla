----------------------------- MODULE Documents -----------------------------
(***************************************************************************)
(* The documents workspace (server/src/document-workspace.ts): documents   *)
(* whose content is a growing list of versions, their retention, and the   *)
(* approval of one version by a second person.  Every handler locks the    *)
(* row it decides about, so each is one step.                              *)
(***************************************************************************)
EXTENDS Integers

CONSTANTS Docs, Approvals, Users, MaxVersion, None

ASSUME DocumentsConstants ==
  /\ MaxVersion \in Nat \ {0}
  /\ None \notin Users \cup Docs

VARIABLES
  doc,        \* workspace_documents; their versions are 1..version
  approval    \* document_approvals

docVars == <<doc, approval>>

Doc ==
  [status : {"ABSENT", "ACTIVE", "ARCHIVED"}, version : 0..MaxVersion, retained : BOOLEAN]

Approval ==
  [status : {"ABSENT", "PENDING", "APPROVED", "REJECTED"}, doc : Docs \cup {None},
   version : 0..MaxVersion, requestedBy : Users \cup {None}, decidedBy : Users \cup {None}]

DocInit ==
  /\ doc = [d \in Docs |-> [status |-> "ABSENT", version |-> 0, retained |-> FALSE]]
  /\ approval = [a \in Approvals |->
       [status |-> "ABSENT", doc |-> None, version |-> 0, requestedBy |-> None, decidedBy |-> None]]

CreateDocument(d) ==
  /\ doc[d].status = "ABSENT"
  /\ doc' = [doc EXCEPT ![d] = [status |-> "ACTIVE", version |-> 1, retained |-> FALSE]]
  /\ UNCHANGED approval

AddDocumentVersion(d) ==
  /\ doc[d].status = "ACTIVE" /\ doc[d].version < MaxVersion
  /\ doc' = [doc EXCEPT ![d].version = @ + 1]
  /\ UNCHANGED approval

\* Also the day on which a retention ends.
SetRetention(d, retained) ==
  /\ doc[d].status # "ABSENT"
  /\ doc' = [doc EXCEPT ![d].retained = retained]
  /\ UNCHANGED approval

ArchiveDocument(d) ==
  /\ doc[d].status = "ACTIVE" /\ ~doc[d].retained
  /\ doc' = [doc EXCEPT ![d].status = "ARCHIVED"]
  /\ UNCHANGED approval

RestoreDocument(d) ==
  /\ doc[d].status = "ARCHIVED"
  /\ doc' = [doc EXCEPT ![d].status = "ACTIVE"]
  /\ UNCHANGED approval

\* The unique index admits one pending approval of a document.
RequestApproval(a, d, u) ==
  /\ approval[a].status = "ABSENT" /\ doc[d].status = "ACTIVE"
  /\ \A o \in Approvals : ~(approval[o].status = "PENDING" /\ approval[o].doc = d)
  /\ approval' = [approval EXCEPT ![a] =
       [status |-> "PENDING", doc |-> d, version |-> doc[d].version,
        requestedBy |-> u, decidedBy |-> None]]
  /\ UNCHANGED doc

SecondPerson(a, u) == approval[a].requestedBy # u

DecideApproval(a, u, decision) ==
  /\ approval[a].status = "PENDING"
  /\ SecondPerson(a, u)
  /\ approval' = [approval EXCEPT ![a].status = decision, ![a].decidedBy = u]
  /\ UNCHANGED doc

DocNext ==
  \/ \E d \in Docs :
       \/ CreateDocument(d) \/ AddDocumentVersion(d)
       \/ \E retained \in BOOLEAN : SetRetention(d, retained)
       \/ ArchiveDocument(d) \/ RestoreDocument(d)
       \/ \E a \in Approvals, u \in Users : RequestApproval(a, d, u)
  \/ \E a \in Approvals, u \in Users, decision \in {"APPROVED", "REJECTED"} :
       DecideApproval(a, u, decision)

DocSpec == DocInit /\ [][DocNext]_docVars

----------------------------------------------------------------------------
(* Properties.                                                             *)

\* Documents and approvals have their types, and an approval is of a version
\* that exists.
DocTypeOK ==
  /\ doc \in [Docs -> Doc]
  /\ approval \in [Approvals -> Approval]
  /\ \A a \in Approvals : approval[a].status # "ABSENT" =>
       approval[a].doc \in Docs /\ approval[a].version \in 1..doc[approval[a].doc].version

\* An approval is a subject of the kernel whose requester is excluded.
ApprovalVerdict(a) ==
  CASE approval[a].status = "ABSENT" -> "NONE"
    [] approval[a].status = "PENDING" -> "OPEN"
    [] OTHER -> approval[a].status

ApprovalEyes == INSTANCE FourEyes WITH
  Subjects <- Approvals, People <- Users, Nobody <- None,
  verdict <- [a \in Approvals |-> ApprovalVerdict(a)],
  barred <- [a \in Approvals |-> {approval[a].requestedBy} \cap Users],
  by <- [a \in Approvals |-> approval[a].decidedBy]
=============================================================================
