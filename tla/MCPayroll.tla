------------------------------ MODULE MCPayroll ------------------------------
(* Two employees, two months, two clerks; the USD tables of countries/zw.ts in *)
(* cents and tenths of a per cent.                                             *)
EXTENDS Payroll, TLC

CONSTANTS eve, ian, ann, ben, r1, r2, c1, c2

MCBandLimits == <<10000, 30000, 300000>>
MCBandRates == <<0, 200, 250, 400>>
MCProbes == 0..1600 \cup 21500..23500 \cup 60000..62000 \cup 290000..306500
Alike ==
  Permutations({eve, ian}) \cup Permutations({ann, ben}) \cup Permutations({r1, r2})
    \cup Permutations({c1, c2})

\* Bound of the run: two requests meet, and a request rests on an outdated row,
\* while there is one run; a second run comes after that and is handled by one
\* clerk at a time, when both employees are registered.
OneRunInDepth ==
  Cardinality({r \in Runs : run[r].status # "ABSENT"}) > 1
    => /\ Cardinality({c \in Clerks : clerk[c] # None}) <= 1
       /\ ~blind
       /\ \A e \in Staff : employee[e].status # "ABSENT"
=============================================================================
