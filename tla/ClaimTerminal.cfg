CONSTANTS
  Tx = {t1}
  CaseId = {c1, c2}
  Workers = {w1}
  Webhook = webhook
  None = none
  MaxEvents = 2
  MaxRuns = 1
  MaxDuplicates = 0
  MaxFaults = 0
SPECIFICATION Spec
SYMMETRY Symmetry
CHECK_DEADLOCK FALSE
PROPERTY RecoveredIsTerminal
