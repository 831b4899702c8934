SPECIFICATION VerificationSpec
CONSTANTS
  None = None
  Docs = {d1}
  Approvals = {a1, a2}
  Users = {u1, u2}
  MaxVersion = 2
  Evidence = {e1, e2, e3}
  Requests = {r1, r2}
  Staff = {p1, p2}
  Clerks = {c1, c2}
SYMMETRY Alike
CONSTRAINT InDepth
INVARIANTS VerificationSound TogglersStayOut
PROPERTIES SupersededStays FourEyesKept
CHECK_DEADLOCK FALSE
