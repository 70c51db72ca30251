CONSTANTS
  Tx = {t1}
  CaseId = {c1, c2}
  Workers = {w1}
  Webhook = webhook
  None = none
  MaxEvents = 2
  MaxRuns = 0
  MaxDuplicates = 1
  MaxFaults = 2
SPECIFICATION FairSpec
CHECK_DEADLOCK FALSE
INVARIANT CompletionAuditedOnce
INVARIANT FailuresAuditedOnce
INVARIANT CountersAgree
PROPERTY RecoveredIsFinal
PROPERTY ImplementsLifecycle
PROPERTY PaidCaseRecovered
PROPERTY WebhookCaseDecided
