SPECIFICATION SessionsSpec
CONSTANTS
  None = None
  Clerks = {c1, c2}
  Sessions = {s1, s2}
  Resets = {r1, r2}
  Tabs = {t1, t2}
  MaxPassword = 2
  MaxSecret = 2
  MaxCode = 2
  MaxGen = 2
SYMMETRY Alike
CONSTRAINT InDepth
INVARIANTS SessionsSound CodeOnce SecretProvenOneLink RenewalKeepsSession
CHECK_DEADLOCK FALSE
