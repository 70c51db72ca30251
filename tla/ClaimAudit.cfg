CONSTANTS
  Tx = {t1}
  CaseId = {c1, c2}
  Workers = {w1}
  Webhook = webhook
  None = none
  MaxEvents = 1
  MaxRuns = 0
  MaxDuplicates = 0
  MaxFaults = 0
SPECIFICATION Spec
SYMMETRY Symmetry
CHECK_DEADLOCK FALSE
INVARIANT DecisionsAreAudited
