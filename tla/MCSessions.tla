----------------------------- MODULE MCSessions -----------------------------
EXTENDS Sessions, TLC

Busy(f) == Cardinality({x \in DOMAIN f : f[x] # None})

\* What a behaviour has been about so far, besides signing in.
Topics ==
  (IF cookie # token \/ Busy(tab) > 0 \/ (\E s \in Sessions : session[s].gen > 1) THEN {"browser"} ELSE {})
    \cup (IF \E r \in Resets : reset[r].state # "ABSENT" THEN {"resets"} ELSE {})
    \cup (IF factor.row > 0 THEN {"factor"} ELSE {})
    \cup (IF account.password > 1 THEN {"password"} ELSE {})

\* Two requests or renewals at a time about one topic; links, or a factor, and the
\* passwords changed beside them meet with one request at a time, and so does all
\* that follows a second set of codes.
InDepth ==
  /\ Busy(clerk) + Busy(tab) <= IF Cardinality(Topics) < 2 THEN 2 ELSE 1
  /\ Cardinality(Topics) < 2 \/ Topics \in {{"resets", "password"}, {"factor", "password"}}
  /\ "resets" \in Topics => \E s \in Sessions : session[s].state = "ABSENT"
  /\ {"factor", "password"} \subseteq Topics => factor.secret = 1
  /\ issued = 2 => Busy(clerk) <= 1

Alike == Permutations(Clerks) \cup Permutations(Sessions) \cup Permutations(Resets) \cup Permutations(Tabs)
=============================================================================
