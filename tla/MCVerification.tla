--------------------------- MODULE MCVerification ---------------------------
EXTENDS Verification, TLC

InUse(f) == Cardinality({x \in DOMAIN f : f[x].status # "ABSENT"})
Busy == Cardinality({c \in Clerks : clerk[c] # None})

\* A constraint that bounds what meets what: approvals and retention without the
\* rest; three pieces of evidence without a request; two with one request and no
\* toggle; a second request or a toggle over one version of the document.
InDepth ==
  /\ InUse(approval) > 0 \/ (\E d \in Docs : doc[d].retained) =>
       InUse(evidence) + InUse(request) + Busy = 0 /\ flag = None
  /\ InUse(request) > 0 \/ flag # None =>
       /\ \A d \in Docs : doc[d].version <= 1 /\ doc[d].status = "ACTIVE"
       /\ InUse(evidence) <= 2
  /\ InUse(evidence) = 2 => flag = None /\ (InUse(request) = 0 \/ Busy <= 1)
  /\ InUse(evidence) = 3 => InUse(request) = 0 /\ flag = None
  /\ InUse(request) = 2 => flag = None /\ Busy <= 1 /\ InUse(evidence) <= 1

Alike ==
  Permutations(Evidence) \cup Permutations(Requests) \cup Permutations(Clerks) \cup Permutations(Staff)
=============================================================================
