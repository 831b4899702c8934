SPECIFICATION FairSpec
CONSTANTS
  Month = 2
  GraceDays = 1
  SuspendDays = 2
  TrialEnd = 1
  LastDay = 5
  Runs = {cron}
  Collectors = {clerk}
  Idle = Idle
  PaymentKeys = {k1}
  Payable = {1}
CHECK_DEADLOCK FALSE
INVARIANTS
  PeriodsTile
  RestrictedIffOverdue
  PaymentsSound
PROPERTIES
  NothingGoesBack
  DebtEndsInSuspension
  
