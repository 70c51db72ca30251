CONSTANTS
  Tx = {t1}
  CaseId = {c1, c2}
  Workers = {w1, w2}
  Webhook = webhook
  None = none
  MaxEvents = 2
  MaxRuns = 1
  MaxDuplicates = 0
  MaxFaults = 1
SPECIFICATION Spec
SYMMETRY Symmetry
CHECK_DEADLOCK FALSE
INVARIANT RecoveredImpliesPaid
INVARIANT OneCasePerTransaction
INVARIANT MonitoringImpliesOutreach
INVARIANT OutreachIsAudited
INVARIANT OutreachBounded
INVARIANT DashboardAgrees
INVARIANT EveryEmailRecorded
INVARIANT EventsMatchTransaction
INVARIANT IInv
