---------------------------- MODULE MCMigration ----------------------------
EXTENDS Migration, TLC

CONSTANTS n1, n2

\* One name twice, or two names once; the second does not balance.
MCFiles ==
  {[count |-> (n1 :> 2 @@ n2 :> 0), sound |-> TRUE], [count |-> (n1 :> 1 @@ n2 :> 1), sound |-> FALSE]}

InUse(f) == Cardinality({x \in DOMAIN f : f[x].status # "ABSENT"})

\* One process at a time once there is a second step or a third batch, and not
\* both of these; a signature, which nothing depends on, only over one batch.
InDepth ==
  /\ InUse(step) = 2 \/ InUse(batch) = 3 => Cardinality({c \in Clerks : clerk[c] # None}) <= 1
  /\ InUse(batch) = 3 => InUse(step) <= 1
  /\ Cardinality(used) <= 1
  /\ project.signed => InUse(batch) <= 1

Alike == Permutations(Batches) \cup Permutations(Steps) \cup Permutations(Clerks)
=============================================================================
