SPECIFICATION PayrollSpec
CONSTANTS
  eve = eve
  ian = ian
  ann = ann
  ben = ben
  r1 = r1
  r2 = r2
  c1 = c1
  c2 = c2
  None = None
  RateUnit = 1000
  BandLimits <- MCBandLimits
  BandRates <- MCBandRates
  LevyRate = 30
  EmployeeRate = 45
  EmployerRate = 45
  Ceiling = 70000
  Probes <- MCProbes
  LastMonth = 2
  Sources = {r1, r2}
  Staff = {eve, ian}
  Users = {ann, ben}
  Clerks = {c1, c2}
  Runs = {r1, r2}
  Salaries = {9000}
  Allowances = {5000}
  SecondPersonFrom = 23000
SYMMETRY Alike
CONSTRAINT OneRunInDepth
CHECK_DEADLOCK FALSE
INVARIANTS
  
  PostedOnce
  NobodyPaysAlone
  PayrollAgrees

  
