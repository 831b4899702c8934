------------------------------ MODULE FourEyes ------------------------------
(***************************************************************************)
(* What the approval kernel promises (server/src/platform/workflow/        *)
(* approvals.ts): a subject is put forward with the people it excludes, is *)
(* decided once by somebody else, and an approval can be revoked once, by  *)
(* somebody else too.  Nothing else ever happens to it.                    *)
(***************************************************************************)
CONSTANTS Subjects, People, Nobody

VARIABLES
  verdict,    \* NONE before it is put forward, then OPEN, then the decision
  barred,     \* the people its segregation rules exclude
  by          \* who took the last decision

fourEyesVars == <<verdict, barred, by>>

FourEyesInit ==
  /\ verdict = [s \in Subjects |-> "NONE"]
  /\ barred = [s \in Subjects |-> {}]
  /\ by = [s \in Subjects |-> Nobody]

PutForward(s, excluded) ==
  /\ verdict[s] = "NONE"
  /\ verdict' = [verdict EXCEPT ![s] = "OPEN"]
  /\ barred' = [barred EXCEPT ![s] = excluded]
  /\ UNCHANGED by

\* decide and revoke, both behind enforceSegregation
Decide(s, p, from, to) ==
  /\ verdict[s] = from
  /\ p \notin barred[s]
  /\ verdict' = [verdict EXCEPT ![s] = to]
  /\ by' = [by EXCEPT ![s] = p]
  /\ UNCHANGED barred

FourEyesNext ==
  \E s \in Subjects :
    \/ \E excluded \in SUBSET People : PutForward(s, excluded)
    \/ \E p \in People :
         \/ \E to \in {"APPROVED", "REJECTED"} : Decide(s, p, "OPEN", to)
         \/ Decide(s, p, "APPROVED", "REVOKED")

FourEyesSpec == FourEyesInit /\ [][FourEyesNext]_fourEyesVars

\* Nobody has decided about what they were excluded from.
DecidedByOthers ==
  \A s \in Subjects : by[s] \in People => by[s] \notin barred[s]
=============================================================================
